----------------------------- MODULE RigelProofs ----------------------------
(***************************************************************************)
(* Rigel implements first-in/first-out channels and loses no wake-up, for  *)
(* any configuration.                                                      *)
(***************************************************************************)
EXTENDS RigelTypes

-----------------------------------------------------------------------------
(* Refinement. *)

\* The slots of a queue after a step.
SlotsWrap ==
    \A q \in Queues : \A i \in 0 .. QueueLength[q] :
        Slot(q, i) = IF head[q] + i < QueueLength[q] THEN head[q] + i ELSE head[q] + i - QueueLength[q]

LEMMA SlotWrapsNext == QueueTypeOK' => SlotsWrap'
<1>1. QueueTypeOK => SlotsWrap
  BY SlotWraps DEF SlotsWrap
<1>2. QED
  BY <1>1, PTL

\* The messages of a queue are a sequence of as many elements as available says.
QueuedOK ==
    \A q \in Queues : /\ Queued(q) \in Seq(Contents)
                      /\ Len(Queued(q)) = available[q]
                      /\ \A i \in 1 .. available[q] : Queued(q)[i] = messages[q][Slot(q, i - 1)]

LEMMA QueuedIsSeq == QueueTypeOK => QueuedOK
<1> SUFFICES ASSUME QueueTypeOK, NEW q \in Queues
             PROVE  /\ Queued(q) \in Seq(Contents)
                    /\ Len(Queued(q)) = available[q]
                    /\ \A i \in 1 .. available[q] : Queued(q)[i] = messages[q][Slot(q, i - 1)]
  BY DEF QueuedOK
<1>1. available[q] \in Nat /\ available[q] <= QueueLength[q] /\ QueueLength[q] \in Nat
  BY QueueNumbers
<1>2. \A i \in 1 .. available[q] : i - 1 \in 0 .. QueueLength[q]
  BY <1>1
<1>3. \A i \in 1 .. available[q] : messages[q][Slot(q, i - 1)] \in Contents
  BY <1>2, SlotWraps DEF QueueTypeOK
<1>4. QED
  BY <1>1, <1>3 DEF Queued

LEMMA QueuedIsSeqNext == QueueTypeOK' => QueuedOK'
  BY QueuedIsSeq, PTL

\* try_put appends the message.
LEMMA StoreAppends ==
  ASSUME QueueTypeOK, NEW q \in Queues, NEW m \in Contents, store(q, m)
  PROVE  /\ Len(Queued(q)) < QueueLength[q]
         /\ Queued(q)' = Append(Queued(q), m)
         /\ \A r \in Queues \ {q} : Queued(r)' = Queued(r)
<1> DEFINE a == available[q]
           L == QueueLength[q]
<1>1. a \in Nat /\ L \in Nat \ {0} /\ a <= L
  BY QueueNumbers
<1>2. a # L
  BY DEF store, Full
<1>3. a < L
  BY <1>1, <1>2
<1>4. /\ available' = [available EXCEPT ![q] = @ + 1] /\ head' = head
      /\ messages' = [messages EXCEPT ![q][Slot(q, a)] = m]
  BY DEF store
<1>5. QueueTypeOK'
  BY StoreTyped
<1>6. available'[q] = a + 1 /\ \A r \in Queues \ {q} : available'[r] = available[r]
  BY <1>4 DEF QueueTypeOK
<1>7. \A r \in Queues : \A i : Slot(r, i)' = Slot(r, i)
  BY <1>4 DEF Slot
<1>8. /\ messages'[q] = [messages[q] EXCEPT ![Slot(q, a)] = m]
      /\ \A r \in Queues \ {q} : messages'[r] = messages[r]
  BY <1>4 DEF QueueTypeOK
<1>9. \A r \in Queues \ {q} : Queued(r)' = Queued(r)
  BY <1>6, <1>7, <1>8 DEF Queued
<1>10. Slot(q, a) \in Slots(q) /\ messages'[q][Slot(q, a)] = m
  <2>1. Slot(q, a) \in Slots(q)
    BY <1>1, SlotWraps
  <2>2. QED
    BY <1>8, <2>1 DEF QueueTypeOK
<1>11. ASSUME NEW i \in 1 .. a
       PROVE  messages'[q][Slot(q, i - 1)] = messages[q][Slot(q, i - 1)]
  <2>1. i - 1 \in 0 .. L /\ a \in 0 .. L /\ i - 1 < a /\ head[q] \in Nat /\ head[q] < L
    BY <1>1 DEF QueueTypeOK, Slots
  <2>2. /\ Slot(q, i - 1) \in Slots(q)
        /\ Slot(q, i - 1) = IF head[q] + (i - 1) < L THEN head[q] + (i - 1) ELSE head[q] + (i - 1) - L
        /\ Slot(q, a) = IF head[q] + a < L THEN head[q] + a ELSE head[q] + a - L
    BY <2>1, SlotWraps
  <2>3. Slot(q, i - 1) # Slot(q, a)
    BY <2>1, <2>2, <1>1, <1>3
  <2>4. QED
    BY <2>2, <2>3, <1>8 DEF QueueTypeOK
<1>12. Queued(q)' = Append(Queued(q), m)
  <2>1. /\ Queued(q) \in Seq(Contents) /\ Len(Queued(q)) = a
        /\ \A i \in 1 .. a : Queued(q)[i] = messages[q][Slot(q, i - 1)]
    BY QueuedIsSeq DEF QueuedOK
  <2>2. /\ Queued(q)' \in Seq(Contents) /\ Len(Queued(q)') = a + 1
        /\ \A i \in 1 .. (a + 1) : Queued(q)'[i] = messages'[q][Slot(q, i - 1)]
    <3>1. /\ Queued(q)' \in Seq(Contents) /\ Len(Queued(q)') = available'[q]
          /\ \A i \in 1 .. available'[q] : Queued(q)'[i] = messages'[q][Slot(q, i - 1)']
      BY <1>5, QueuedIsSeqNext DEF QueuedOK
    <3>2. QED
      BY <1>6, <1>7, <3>1
  <2> DEFINE s == Queued(q)
             r == Queued(q)'
  <2> HIDE DEF s, r
  <2>3. r \in Seq(Contents) /\ s \in Seq(Contents) /\ Len(s) = a /\ Len(r) = a + 1
    BY <2>1, <2>2 DEF s, r
  <2>4. \A i \in 1 .. a : r[i] = s[i]
    BY <2>1, <2>2, <1>1, <1>11 DEF s, r
  <2>5. r[a + 1] = m
    BY <2>2, <1>1, <1>10 DEF r
  <2>6. r = Append(s, m)
    BY <2>3, <2>4, <2>5, <1>1
  <2>7. QED
    BY <2>6 DEF s, r
<1>13. QED
  BY <1>1, <1>3, <1>9, <1>12, QueuedIsSeq DEF QueuedOK

\* try_get takes the oldest message.
LEMMA RemoveTakesOldest ==
  ASSUME QueueTypeOK, NEW q \in Queues, remove(q)
  PROVE  /\ Queued(q) # <<>>
         /\ Oldest(q) = Head(Queued(q))
         /\ Queued(q)' = Tail(Queued(q))
         /\ \A r \in Queues \ {q} : Queued(r)' = Queued(r)
<1> DEFINE a == available[q]
           L == QueueLength[q]
<1>1. a \in Nat /\ L \in Nat \ {0} /\ a <= L /\ head[q] \in Nat /\ head[q] < L
  <2>1. head[q] \in Slots(q)
    BY DEF QueueTypeOK
  <2>2. QED
    BY <2>1, QueueNumbers DEF Slots
<1>2. a # 0
  BY DEF remove, Empty
<1>3. a >= 1 /\ 1 \in 0 .. L /\ 0 \in 0 .. L
  BY <1>1, <1>2
<1>4. /\ available' = [available EXCEPT ![q] = @ - 1] /\ messages' = messages
      /\ head' = [head EXCEPT ![q] = Slot(q, 1)]
  BY DEF remove
<1>5. QueueTypeOK'
  BY RemoveTyped
<1>6. /\ available'[q] = a - 1 /\ head'[q] = Slot(q, 1)
      /\ \A r \in Queues \ {q} : available'[r] = available[r] /\ head'[r] = head[r]
  BY <1>4 DEF QueueTypeOK
<1>7. \A r \in Queues \ {q} : Queued(r)' = Queued(r)
  BY <1>4, <1>6 DEF Queued, Slot
<1>8. /\ Queued(q) \in Seq(Contents) /\ Len(Queued(q)) = a
      /\ \A i \in 1 .. a : Queued(q)[i] = messages[q][Slot(q, i - 1)]
  BY QueuedIsSeq DEF QueuedOK
<1>9. Oldest(q) = Queued(q)[1]
  <2>1. Slot(q, 0) = head[q]
    BY <1>1, <1>3, SlotWraps
  <2>2. 1 \in 1 .. a /\ 1 - 1 = 0
    BY <1>1, <1>3
  <2>3. QED
    BY <2>1, <2>2, <1>8 DEF Oldest
<1>10. /\ Queued(q)' \in Seq(Contents) /\ Len(Queued(q)') = a - 1
       /\ \A i \in 1 .. (a - 1) : Queued(q)'[i] = messages[q][Slot(q, i - 1)']
  BY <1>4, <1>5, <1>6, QueuedIsSeqNext DEF QueuedOK
<1>11. ASSUME NEW i \in 1 .. (a - 1)
       PROVE  Slot(q, i - 1)' = Slot(q, i)
  <2>1. i \in Int /\ i >= 1 /\ i <= a - 1 /\ i \in 0 .. L /\ i - 1 \in 0 .. L
    BY <1>1
  <2>2. Slot(q, i) = IF head[q] + i < L THEN head[q] + i ELSE head[q] + i - L
    BY <2>1, SlotWraps
  <2>3. Slot(q, i - 1)' = IF head'[q] + (i - 1) < L THEN head'[q] + (i - 1) ELSE head'[q] + (i - 1) - L
    BY <1>5, <2>1, SlotWrapsNext DEF SlotsWrap
  <2>4. Slot(q, 1) = IF head[q] + 1 < L THEN head[q] + 1 ELSE head[q] + 1 - L
    BY <1>3, SlotWraps
  <2>5. QED
    BY <1>1, <1>6, <2>1, <2>2, <2>3, <2>4
<1>12. Queued(q)' = Tail(Queued(q))
  <2> DEFINE s == Queued(q)
             r == Queued(q)'
  <2>1. \A i \in 1 .. (a - 1) : r[i] = s[i + 1]
    <3>1. \A i \in 1 .. (a - 1) : i + 1 \in 1 .. a /\ (i + 1) - 1 = i
      BY <1>1
    <3>2. QED
      BY <3>1, <1>8, <1>10, <1>11
  <2>2. r \in Seq(Contents) /\ s \in Seq(Contents) /\ Len(s) = a /\ Len(r) = a - 1
    BY <1>8, <1>10
  <2> HIDE DEF s, r
  <2>3. r = Tail(s)
    BY <2>1, <2>2, <1>1, <1>3
  <2>4. QED
    BY <2>3 DEF s, r
<1>13. QED
  BY <1>1, <1>2, <1>7, <1>8, <1>9, <1>12

\* The channels of Fifo, as Rigel implements them.
channels == [q \in Queues |-> Queued(q)]

\* A put that succeeds is Fifo's Put, a get that succeeds is its Get.
LEMMA PutImplements ==
  ASSUME TypeInv, NEW q \in Queues, NEW m \in Contents, put_message(q, m)
  PROVE  FifoChannel!Next
<1>1. store(q, m) /\ received' = received
  BY DEF put_message
<1>2. /\ Len(Queued(q)) < QueueLength[q]
      /\ Queued(q)' = Append(Queued(q), m)
      /\ \A r \in Queues \ {q} : Queued(r)' = Queued(r)
  BY <1>1, StoreAppends DEF TypeInv
<1>3. channels' = [channels EXCEPT ![q] = Append(@, m)] /\ channels[q] = Queued(q)
  BY <1>2 DEF channels
<1>4. FifoChannel!Put(q, m)
  BY <1>1, <1>2, <1>3 DEF FifoChannel!Put, channels
<1>5. QED
  BY <1>4 DEF FifoChannel!Next

LEMMA GetImplements ==
  ASSUME TypeInv, NEW q \in Queues, NEW t \in Tasks, get_message(q, t)
  PROVE  FifoChannel!Next
<1>1. remove(q) /\ received' = [received EXCEPT ![t] = Oldest(q)]
  BY DEF get_message
<1>2. /\ Queued(q) # <<>> /\ Oldest(q) = Head(Queued(q))
      /\ Queued(q)' = Tail(Queued(q))
      /\ \A r \in Queues \ {q} : Queued(r)' = Queued(r)
  BY <1>1, RemoveTakesOldest DEF TypeInv
<1>3. channels' = [channels EXCEPT ![q] = Tail(@)] /\ channels[q] = Queued(q)
  BY <1>2 DEF channels
<1>4. FifoChannel!Get(q, t)
  BY <1>1, <1>2, <1>3 DEF FifoChannel!Get, channels
<1>5. QED
  BY <1>4 DEF FifoChannel!Next

\* Every other step leaves the channels and what was delivered alone.
LEMMA StutterImplements ==
  ASSUME UNCHANGED <<messages, head, available, received>>
  PROVE  UNCHANGED <<channels, received>>
  BY DEF channels, Queued, Slot

\* Every step of Rigel is a put, a get or invisible.
LEMMA ThreeKindsOfSteps ==
  ASSUME TypeInv, [Next]_vars
  PROVE  \/ \E q \in Queues, m \in Contents : put_message(q, m)
         \/ \E q \in Queues, t \in Tasks : get_message(q, t)
         \/ UNCHANGED <<messages, head, available, received>>
<1> DEFINE Invisible == UNCHANGED <<messages, head, available, received>>
<1>1. ASSUME NEW t \in Tasks, TaskStep(t)
      PROVE  \/ \E q \in Queues, m \in Contents : put_message(q, m)
             \/ \E q \in Queues, u \in Tasks : get_message(q, u)
             \/ Invisible
  <2>o. /\ pc[t] \in {"put", "put_timeout", "get", "get_timeout"} => obj[t] \in Queues
        /\ message[t] \in Contents
    BY DEF TypeInv, FrameTypeOK, QueueLabels
  <2>1. CASE Entry(t) \/ BlockTimed(t) \/ WaitAgain(t) \/ mutex_lock_loop(t)
    BY <2>1 DEF Entry, BlockTimed, WaitAgain, mutex_lock_loop, queueVars
  <2>2. CASE WaitEnd(t)
    BY <2>2 DEF WaitEnd, register, queueVars
  <2>3. CASE message_queue_put_loop(t)
    BY <2>3, <2>o DEF message_queue_put_loop, Running, message_queue_wait, register
  <2>4. CASE message_queue_get_loop(t)
    BY <2>4, <2>o DEF message_queue_get_loop, Running, message_queue_wait, register
  <2>5. CASE message_queue_put_timeout_loop(t)
    BY <2>5, <2>o DEF message_queue_put_timeout_loop, Running, message_queue_wait_timeout, register, GiveUp,
       queueVars
  <2>6. CASE message_queue_get_timeout_loop(t)
    BY <2>6, <2>o DEF message_queue_get_timeout_loop, Running, message_queue_wait_timeout, register, GiveUp,
       queueVars
  <2>7. QED
    BY <1>1, <2>1, <2>2, <2>3, <2>4, <2>5, <2>6 DEF TaskStep
<1>2. ASSUME NEW t \in Tasks, AppStep(t)
      PROVE  \/ \E q \in Queues, m \in Contents : put_message(q, m)
             \/ \E q \in Queues, u \in Tasks : get_message(q, u)
             \/ Invisible
  <2>q. /\ \A q \in TaskQueues[t] : q \in Queues
        /\ \A m \in Messages : m \in Contents
    BY RigelAssumption DEF Contents
  <2>1. CASE message_queue_try_put(t)
    BY <2>1, <2>q DEF message_queue_try_put
  <2>2. CASE message_queue_try_get(t)
    BY <2>2, <2>q DEF message_queue_try_get
  <2>f. ASSUME Fatal PROVE Invisible
    BY <2>f DEF Fatal, queueVars
  <2>e. ASSUME NEW label, NEW o, NEW a, NEW m, EnterLoop(t, label, o, a, m) PROVE Invisible
    BY <2>e DEF EnterLoop, queueVars
  <2>3. CASE message_queue_put(t) \/ message_queue_get(t)
    BY <2>3, <2>e DEF message_queue_put, message_queue_get
  <2>4. CASE message_queue_put_timeout(t) \/ message_queue_get_timeout(t) \/ mutex_lock(t)
    BY <2>4, <2>e, <2>f DEF message_queue_put_timeout, message_queue_get_timeout, mutex_lock
  <2>5. CASE mutex_unlock(t)
    BY <2>5, <2>f DEF mutex_unlock, queueVars
  <2>6. CASE \/ mutex_try_lock(t) \/ signal_wait_set_call(t) \/ signal_poll_set(t) \/ signal_send(t)
             \/ sleep(t) \/ yield_call(t) \/ interrupt_event_task_set(t)
    BY <2>6 DEF mutex_try_lock, signal_wait_set_call, signal_poll_set, signal_send, sleep, yield_call,
       interrupt_event_task_set, queueVars
  <2>7. QED
    BY <1>2, <2>1, <2>2, <2>3, <2>4, <2>5, <2>6 DEF AppStep
<1>3. CASE SchedStep \/ Interrupt
  BY <1>3 DEF SchedStep, interrupt_event_process, timer_tick_process, sched_pick, interrupt_event_wait,
     Interrupt, timer_tick, interrupt_event_raise, HandlerReturns, queueVars
<1>4. CASE UNCHANGED vars
  BY <1>4 DEF vars, queueVars
<1>5. QED
  BY <1>1, <1>2, <1>3, <1>4 DEF Next, Stopped

\* The initial configuration has empty channels.
LEMMA InitImplements == Init => FifoChannel!Init
<1> SUFFICES ASSUME Init PROVE FifoChannel!Init
  OBVIOUS
<1>1. QueueTypeOK /\ received \in [Tasks -> Contents]
  BY TypeInit DEF TypeInv, CpuTypeOK
<1>2. \A q \in Queues : Queued(q) \in Seq(Contents) /\ Len(Queued(q)) = 0
  BY <1>1, QueuedIsSeq DEF QueuedOK, Init, QueueInit
<1>3. \A q \in Queues : Queued(q) = <<>>
  BY <1>2
<1>4. QED
  BY <1>1, <1>3 DEF FifoChannel!Init

\* Rigel's message queues implement first-in/first-out channels: every put that
\* succeeds appends its message, every get that succeeds takes the oldest one,
\* and no other step of the RTOS touches a message.
THEOREM QueuesAreFifo == Spec => ImplementsFifo
<1>1. TypeInv /\ [Next]_vars => [FifoChannel!Next]_<<channels, received>>
  BY PutImplements, GetImplements, StutterImplements, ThreeKindsOfSteps
<1>2. Spec => []TypeInv
  BY TypeInit, TypeNext, PTL DEF Spec
<1>3. TypeInv /\ [Next]_vars => [FifoChannel!Next]_<<[q \in Queues |-> Queued(q)], received>>
  BY <1>1 DEF channels
<1>4. QED
  BY <1>2, <1>3, InitImplements, PTL DEF Spec, ImplementsFifo, FifoChannel!Spec
-----------------------------------------------------------------------------
(* The wake-ups of the queues. *)

\* Inside an API call and not waiting: the task has the CPU.
Uninterrupted == BlockLabels \cup LoopLabels

\* Every queue is as long as there are queues, the length that try_get's
\* comparison is right for.
LengthsMatch == \A q \in Queues : QueueLength[q] = NumQueues

(***************************************************************************)
(* The inductive invariant of the waits, for one task: which signal it     *)
(* waits for, that a call is not interrupted before it waits, so that the  *)
(* failure it has seen still stands then, and that a sleeper is registered *)
(* with a queue that still refuses it.                                     *)
(***************************************************************************)
WaitOK(u) ==
    /\ pc[u] \in TimerWaits => requested_signals[u] = {TASK_TIMER}
    /\ pc[u] \in Uninterrupted => (phase = "task" /\ u = current_task)
    /\ pc[u] = "get_timeout_block" => (message_queue_waiters[u] = obj[u] /\ Empty(obj[u]))
    /\ pc[u] = "put_timeout_block" => (message_queue_waiters[u] = obj[u] /\ Full(obj[u]))
    /\ (pc[u] \in GetWaits /\ Asleep(u)) => (message_queue_waiters[u] = obj[u] /\ Empty(obj[u]))
    /\ (LengthsMatch /\ pc[u] \in PutWaits /\ Asleep(u)) =>
            (message_queue_waiters[u] = obj[u] /\ Full(obj[u]))

WaitInv == \A u \in Tasks : WaitOK(u)

\* The calls that may have started the task timer, and those that may be
\* registered with a queue.
TimerLabels == BlockLabels \cup TimedWaits \cup {"sleep_wait"}
QueueBlocked == PutWaits \cup GetWaits \cup {"put_timeout_block", "get_timeout_block"}

(***************************************************************************)
(* The inductive invariant of the task timer signal, for one task: who may *)
(* still send it, its timer, its queue or its mutex, and that whoever has  *)
(* sent it to a call that they alone wake will not send it again.          *)
(***************************************************************************)
TimerOK(u) ==
    /\ timers[u].task_id = u /\ timers[u].signal_set = {TASK_TIMER} /\ timers[u].reload = 0
    /\ TASK_TIMER \in PENDING_SIGNALS[u] => pc[u] \in TimerWaits \cup BlockLabels
    /\ timers[u].enabled => pc[u] \in TimerLabels
    /\ (timers[u].enabled /\ pc[u] \in {"sleep_block", "sleep_wait"}) => TASK_TIMER \notin PENDING_SIGNALS[u]
    /\ message_queue_waiters[u] # MESSAGE_QUEUE_ID_NONE => pc[u] \in QueueBlocked
    /\ (message_queue_waiters[u] # MESSAGE_QUEUE_ID_NONE /\ pc[u] \in {"put_wait", "get_wait"}) =>
            TASK_TIMER \notin PENDING_SIGNALS[u]
    /\ mutex_waiters[u] # MUTEX_ID_NONE => (pc[u] = "lock_wait" /\ TASK_TIMER \notin PENDING_SIGNALS[u])

TimerInv == \A u \in Tasks : TimerOK(u)

(***************************************************************************)
(* What a step of task t may do to another task u: keep it or wake it.     *)
(* Only a queue or a mutex sends it the signal of the task timer, and      *)
(* forgets it then.                                                        *)
(***************************************************************************)
Untouched(u) ==
    /\ pc'[u] = pc[u] /\ obj'[u] = obj[u] /\ requested_signals'[u] = requested_signals[u]
    /\ timers'[u] = timers[u]
    /\ PENDING_SIGNALS[u] \subseteq PENDING_SIGNALS'[u]

KeptOrForgotten(u) ==
    /\ message_queue_waiters'[u] \in {message_queue_waiters[u], MESSAGE_QUEUE_ID_NONE}
    /\ mutex_waiters'[u] \in {mutex_waiters[u], MUTEX_ID_NONE}
    /\ TASK_TIMER \in PENDING_SIGNALS'[u] =>
          \/ TASK_TIMER \in PENDING_SIGNALS[u]
          \/ /\ message_queue_waiters[u] # MESSAGE_QUEUE_ID_NONE
             /\ message_queue_waiters'[u] = MESSAGE_QUEUE_ID_NONE
          \/ mutex_waiters[u] # MUTEX_ID_NONE /\ mutex_waiters'[u] = MUTEX_ID_NONE

Bystander(u) == Untouched(u) /\ KeptOrForgotten(u)

\* How a step of task t changes the queues.
QueueEffect(t) ==
    \/ UNCHANGED <<messages, head, available>> /\ \A u \in Tasks \ {t} : message_queue_waiters'[u] = message_queue_waiters[u]
    \/ \E q \in Queues, m \in Contents : put_message(q, m)
    \/ \E q \in Queues : get_message(q, t)

\* signal_send_set takes nothing, and sends to its recipients only.
LEMMA SendEffect ==
  ASSUME TypeInv, NEW T \in SUBSET Tasks, NEW sigs, signal_send_set(T, sigs)
  PROVE  \A u \in Tasks : PENDING_SIGNALS'[u] = IF u \in T THEN PENDING_SIGNALS[u] \cup sigs[u]
                                                ELSE PENDING_SIGNALS[u]
  BY DEF TypeInv, SignalTypeOK, signal_send_set, signal_set_pending

LEMMA SendTaskTimerEffect ==
  ASSUME TypeInv, NEW W \in SUBSET Tasks, send_task_timer(W)
  PROVE  \A u \in Tasks : PENDING_SIGNALS'[u] = IF u \in W THEN PENDING_SIGNALS[u] \cup {TASK_TIMER}
                                                ELSE PENDING_SIGNALS[u]
<1> DEFINE sigs == [u \in W |-> {TASK_TIMER}]
<1>1. signal_send_set(W, sigs) /\ \A u \in W : sigs[u] = {TASK_TIMER}
  BY DEF send_task_timer
<1> HIDE DEF sigs
<1>2. \A u \in Tasks : PENDING_SIGNALS'[u] = IF u \in W THEN PENDING_SIGNALS[u] \cup sigs[u]
                                             ELSE PENDING_SIGNALS[u]
  BY <1>1, SendEffect
<1>3. QED
  BY <1>1, <1>2

\* message_queue_waiters_wakeup sends to the tasks it forgets.
LEMMA WakeEffect ==
  ASSUME TypeInv, NEW q \in Queues, NEW W, W \in {Registered(q), {}},
         forget_waiters(W), send_task_timer(W), UNCHANGED mutex_waiters
  PROVE  \A u \in Tasks : /\ KeptOrForgotten(u)
                          /\ PENDING_SIGNALS[u] \subseteq PENDING_SIGNALS'[u]
<1>1. W \in SUBSET Tasks /\ \A u \in W : message_queue_waiters[u] = q
  BY DEF Registered
<1>2. q # MESSAGE_QUEUE_ID_NONE
  BY QueueAssumption DEF Queues, MESSAGE_QUEUE_ID_NONE
<1>3. \A u \in Tasks : PENDING_SIGNALS'[u] = IF u \in W THEN PENDING_SIGNALS[u] \cup {TASK_TIMER}
                                             ELSE PENDING_SIGNALS[u]
  BY <1>1, SendTaskTimerEffect
<1>4. \A u \in Tasks : message_queue_waiters'[u] = IF u \in W THEN MESSAGE_QUEUE_ID_NONE
                                                   ELSE message_queue_waiters[u]
  BY DEF forget_waiters
<1>5. ASSUME NEW u \in Tasks
      PROVE  KeptOrForgotten(u) /\ PENDING_SIGNALS[u] \subseteq PENDING_SIGNALS'[u]
  <2>1. CASE u \in W
    <3>1. message_queue_waiters[u] # MESSAGE_QUEUE_ID_NONE
      BY <1>1, <1>2, <2>1
    <3>2. message_queue_waiters'[u] = MESSAGE_QUEUE_ID_NONE /\ mutex_waiters'[u] = mutex_waiters[u]
      BY <1>4, <2>1
    <3>3. PENDING_SIGNALS'[u] = PENDING_SIGNALS[u] \cup {TASK_TIMER}
      BY <1>3, <2>1
    <3>4. QED
      BY <3>1, <3>2, <3>3 DEF KeptOrForgotten
  <2>2. CASE u \notin W
    BY <1>3, <1>4, <2>2 DEF KeptOrForgotten
  <2>3. QED
    BY <2>1, <2>2
<1>6. QED
  BY <1>5

LEMMA PutEffect ==
  ASSUME TypeInv, NEW q \in Queues, NEW m \in Contents, put_message(q, m), TryCallFrame
  PROVE  \A u \in Tasks : /\ KeptOrForgotten(u)
                          /\ PENDING_SIGNALS[u] \subseteq PENDING_SIGNALS'[u]
  BY WakeEffect DEF put_message, store, PutWakes, TryCallFrame, mutexVars

LEMMA GetEffect ==
  ASSUME TypeInv, NEW q \in Queues, NEW t \in Tasks, get_message(q, t), TryCallFrame
  PROVE  \A u \in Tasks : /\ KeptOrForgotten(u)
                          /\ PENDING_SIGNALS[u] \subseteq PENDING_SIGNALS'[u]
  BY WakeEffect DEF get_message, remove, GetWakes, TryCallFrame, mutexVars

\* A new stack frame of t leaves those of the others alone.
LEMMA FrameEffect ==
  ASSUME TypeInv, NEW t \in Tasks, NEW u \in Tasks \ {t},
         \/ \E label, o, a, m : Frame(t, label, o, a, m)
         \/ Return(t)
         \/ \E label : Goto(t, label)
         \/ UNCHANGED frameVars
  PROVE  pc'[u] = pc[u] /\ obj'[u] = obj[u]
  BY DEF Frame, Return, Goto, frameVars, TypeInv, FrameTypeOK

\* signal_wait_set of t leaves the locals of the others alone.
LEMMA WaitEffect ==
  ASSUME TypeInv, NEW t \in Tasks, NEW u \in Tasks \ {t}, NEW requested, signal_wait_set(t, requested)
  PROVE  /\ requested_signals'[u] = requested_signals[u]
         /\ requested_signals'[t] = requested
  BY DEF signal_wait_set, TypeInv, CpuTypeOK

\* timer_oneshot on the task timer of t, whose reload is 0 between calls,
\* enables it or sends its signal at once.
LEMMA OneshotEffect ==
  ASSUME TypeInv, NEW t \in Tasks, NEW timeout, timer_oneshot(t, timeout)
  PROVE  /\ \A u \in Tasks \ {t} : timers'[u] = timers[u] /\ PENDING_SIGNALS'[u] = PENDING_SIGNALS[u]
         /\ PENDING_SIGNALS[t] \subseteq PENDING_SIGNALS'[t]
         /\ timers'[t].task_id = timers[t].task_id /\ timers'[t].signal_set = timers[t].signal_set
         /\ timers'[t].reload = 0
         /\ \/ ~timers'[t].enabled
            \/ PENDING_SIGNALS'[t] = PENDING_SIGNALS[t]
<1>1. task_timers(t) = t /\ timers \in [Tasks -> TimerRecord] /\ timers[t] \in TimerRecord
  BY TaskTimersOnly DEF TypeInv, TimerTypeOK
<1>2. CASE timeout = 0
  <2> DEFINE tm == timer_process_one([timers[t] EXCEPT !.reload = 0], PENDING_SIGNALS[t])
  <2>1. timers' = [timers EXCEPT ![t] = tm] /\ send_task_timer({t})
    BY <1>1, <1>2 DEF timer_oneshot
  <2>2. ~tm.enabled /\ tm.reload = 0 /\ tm.task_id = timers[t].task_id /\ tm.signal_set = timers[t].signal_set
    <3> DEFINE r == [timers[t] EXCEPT !.reload = 0]
    <3>1. r.reload = 0 /\ r.task_id = timers[t].task_id /\ r.signal_set = timers[t].signal_set
      BY <1>1 DEF TimerRecord
    <3>2. r \in TimerRecord
      <4>1. 0 \in TicksRelative
        BY TimerAssumption DEF TicksRelative
      <4>2. QED
        BY <1>1, <4>1 DEF TimerRecord
    <3>3. ~(r.reload > 0)
      BY <3>1
    <3> HIDE DEF r
    <3>4. LET p == timer_process_one(r, PENDING_SIGNALS[t])
          IN  ~p.enabled /\ p.reload = r.reload /\ p.task_id = r.task_id /\ p.signal_set = r.signal_set
      BY <3>2, <3>3 DEF timer_process_one, TimerRecord
    <3>5. QED
      BY <3>1, <3>4 DEF r
  <2>3. \A u \in Tasks : PENDING_SIGNALS'[u] = IF u \in {t} THEN PENDING_SIGNALS[u] \cup {TASK_TIMER}
                                               ELSE PENDING_SIGNALS[u]
    BY <2>1, SendTaskTimerEffect
  <2> HIDE DEF tm
  <2>4. timers'[t] = tm /\ \A u \in Tasks \ {t} : timers'[u] = timers[u]
    BY <1>1, <2>1
  <2>5. QED
    BY <2>2, <2>3, <2>4
<1>3. CASE timeout # 0
  <2> DEFINE tm == timer_start_oneshot(timers[t], timeout)
  <2>1. timers' = [timers EXCEPT ![t] = tm] /\ PENDING_SIGNALS' = PENDING_SIGNALS
    BY <1>1, <1>3 DEF timer_oneshot
  <2>2. tm.reload = 0 /\ tm.task_id = timers[t].task_id /\ tm.signal_set = timers[t].signal_set
    BY <1>1 DEF timer_start_oneshot, timer_start, TimerRecord
  <2> HIDE DEF tm
  <2>3. timers'[t] = tm /\ \A u \in Tasks \ {t} : timers'[u] = timers[u]
    BY <1>1, <2>1
  <2>4. QED
    BY <2>1, <2>2, <2>3
<1>4. QED
  BY <1>2, <1>3

\* The same, seen from a task u that is neither sent a signal nor moved.
LEMMA QuietEffect ==
  ASSUME NEW u, UNCHANGED PENDING_SIGNALS,
         message_queue_waiters'[u] = message_queue_waiters[u], mutex_waiters'[u] = mutex_waiters[u]
  PROVE  KeptOrForgotten(u) /\ PENDING_SIGNALS[u] \subseteq PENDING_SIGNALS'[u]
  BY DEF KeptOrForgotten

\* Registering t with an object leaves the others where they are.
LEMMA RegisterEffect ==
  ASSUME TypeInv, NEW t \in Tasks, NEW u \in Tasks \ {t}
  PROVE  /\ \A q : register(q, t) => /\ message_queue_waiters'[u] = message_queue_waiters[u]
                                     /\ UNCHANGED <<messages, head, available>>
         /\ \A m : mutex_wait(m, t) => mutex_waiters'[u] = mutex_waiters[u]
         /\ \A m : mutex_take(m, t) => mutex_waiters'[u] = mutex_waiters[u]
  BY DEF register, mutex_wait, mutex_take, TypeInv, QueueTypeOK, MutexTypeOK

\* What waiting, resuming and the loops of the blocking calls do to others.
LEMMA TaskStepEffect ==
  ASSUME TypeInv, NEW t \in Tasks, TaskStep(t)
  PROVE  /\ phase = "task" /\ t = current_task
         /\ \A u \in Tasks \ {t} : Bystander(u)
         /\ QueueEffect(t)
<1>r. phase = "task" /\ t = current_task
  BY DEF TaskStep, Entry, BlockTimed, WaitAgain, WaitEnd, mutex_lock_loop, message_queue_put_loop,
     message_queue_get_loop, message_queue_put_timeout_loop, message_queue_get_timeout_loop, Running
<1>q. QueueEffect(t)
  <2>1. \/ \E q \in Queues, m \in Contents : put_message(q, m)
        \/ \E q \in Queues : get_message(q, t)
        \/ \E q : register(q, t)
        \/ UNCHANGED queueVars
    <3>o. /\ pc[t] \in {"put", "put_timeout", "get", "get_timeout"} => obj[t] \in Queues
          /\ message[t] \in Contents
      BY DEF TypeInv, FrameTypeOK, QueueLabels
    <3>1. CASE Entry(t) \/ BlockTimed(t) \/ WaitAgain(t) \/ WaitEnd(t) \/ mutex_lock_loop(t)
      BY <3>1 DEF Entry, BlockTimed, WaitAgain, WaitEnd, mutex_lock_loop
    <3>2. CASE message_queue_put_loop(t) \/ message_queue_put_timeout_loop(t)
      BY <3>2, <3>o DEF message_queue_put_loop, message_queue_put_timeout_loop, Running, message_queue_wait,
         message_queue_wait_timeout, GiveUp
    <3>3. CASE message_queue_get_loop(t) \/ message_queue_get_timeout_loop(t)
      BY <3>3, <3>o DEF message_queue_get_loop, message_queue_get_timeout_loop, Running, message_queue_wait,
         message_queue_wait_timeout, GiveUp
    <3>4. QED
      BY <3>1, <3>2, <3>3 DEF TaskStep
  <2>2. ASSUME NEW q, register(q, t) PROVE QueueEffect(t)
    BY <2>2 DEF register, QueueEffect, TypeInv, QueueTypeOK
  <2>3. QED
    BY <2>1, <2>2 DEF QueueEffect, queueVars
<1>1. ASSUME NEW u \in Tasks \ {t}
      PROVE  Bystander(u)
  <2>k. task_timers(t) = t /\ timers \in [Tasks -> TimerRecord]
    BY TaskTimersOnly DEF TypeInv, TimerTypeOK
  <2>s. SignalTypeOK /\ requested_signals \in [Tasks -> SUBSET Signals]
    BY DEF TypeInv, CpuTypeOK
  <2>1. CASE Entry(t)
    BY <2>1, FrameEffect, WaitEffect, QuietEffect DEF Entry, Bystander, Untouched, timerVars, mutexVars, queueVars
  <2>2. CASE BlockTimed(t)
    BY <2>2, FrameEffect, WaitEffect, QuietEffect DEF BlockTimed, Bystander, Untouched, timerVars, mutexVars,
       queueVars
  <2>3. CASE WaitAgain(t)
    BY <2>3, QuietEffect DEF WaitAgain, Bystander, Untouched, timerVars, mutexVars, queueVars, frameVars
  <2>4. CASE WaitEnd(t)
    <3>1. pc'[u] = pc[u] /\ obj'[u] = obj[u]
      BY <2>4, FrameEffect DEF WaitEnd
    <3>2. PENDING_SIGNALS'[u] = PENDING_SIGNALS[u] /\ requested_signals'[u] = requested_signals[u]
      BY <2>4, <2>s DEF WaitEnd, signal_recv, SignalTypeOK
    <3>3. timers'[u] = timers[u] /\ message_queue_waiters'[u] = message_queue_waiters[u]
      BY <2>4, <2>k, RegisterEffect DEF WaitEnd, queueVars
    <3>4. mutex_waiters' = mutex_waiters
      BY <2>4 DEF WaitEnd, mutexVars
    <3>5. QED
      BY <3>1, <3>2, <3>3, <3>4 DEF Bystander, Untouched, KeptOrForgotten
  <2>5. CASE mutex_lock_loop(t)
    <3>1. pc'[u] = pc[u] /\ obj'[u] = obj[u]
      BY <2>5, FrameEffect DEF mutex_lock_loop
    <3>2. requested_signals'[u] = requested_signals[u] /\ mutex_waiters'[u] = mutex_waiters[u]
      BY <2>5, WaitEffect, RegisterEffect DEF mutex_lock_loop
    <3>3. QED
      BY <2>5, <3>1, <3>2, QuietEffect DEF mutex_lock_loop, Bystander, Untouched, timerVars, queueVars
  <2>p. ASSUME NEW q \in Queues, NEW m \in Contents, put_message(q, m), Return(t), TryCallFrame
        PROVE  Bystander(u)
    BY <2>p, PutEffect, FrameEffect DEF TryCallFrame, timerVars, Bystander, Untouched
  <2>g. ASSUME NEW q \in Queues, get_message(q, t), Return(t), TryCallFrame
        PROVE  Bystander(u)
    BY <2>g, GetEffect, FrameEffect DEF TryCallFrame, timerVars, Bystander, Untouched
  <2>w. ASSUME NEW label, message_queue_wait(t, label)
        PROVE  Bystander(u)
    BY <2>w, FrameEffect, WaitEffect, RegisterEffect, QuietEffect DEF message_queue_wait, Bystander, Untouched,
       timerVars, mutexVars
  <2>t. ASSUME NEW label, message_queue_wait_timeout(t, label)
        PROVE  Bystander(u)
    <3>1. timers'[u] = timers[u] /\ PENDING_SIGNALS'[u] = PENDING_SIGNALS[u]
      BY <2>t, OneshotEffect DEF message_queue_wait_timeout
    <3>2. pc'[u] = pc[u] /\ obj'[u] = obj[u] /\ message_queue_waiters'[u] = message_queue_waiters[u]
      BY <2>t, FrameEffect, RegisterEffect DEF message_queue_wait_timeout
    <3>3. QED
      BY <2>t, <3>1, <3>2 DEF message_queue_wait_timeout, Bystander, Untouched, KeptOrForgotten, mutexVars
  <2>u. ASSUME GiveUp(t)
        PROVE  Bystander(u)
    BY <2>u, FrameEffect, QuietEffect DEF GiveUp, TryCallFrame, Bystander, Untouched, timerVars, mutexVars, queueVars
  <2>o. /\ pc[t] \in {"put", "put_timeout", "get", "get_timeout"} => obj[t] \in Queues
        /\ message[t] \in Contents
    BY DEF TypeInv, FrameTypeOK, QueueLabels
  <2>6. CASE message_queue_put_loop(t) \/ message_queue_put_timeout_loop(t)
    BY <2>6, <2>o, <2>p, <2>w, <2>t, <2>u DEF message_queue_put_loop, message_queue_put_timeout_loop, Running
  <2>7. CASE message_queue_get_loop(t) \/ message_queue_get_timeout_loop(t)
    BY <2>7, <2>o, <2>g, <2>w, <2>t, <2>u DEF message_queue_get_loop, message_queue_get_timeout_loop, Running
  <2>8. QED
    BY <2>1, <2>2, <2>3, <2>4, <2>5, <2>6, <2>7 DEF TaskStep
<1>2. QED
  BY <1>r, <1>q, <1>1

\* What the API calls of an application do to others.
LEMMA AppStepEffect ==
  ASSUME TypeInv, NEW t \in Tasks, AppStep(t)
  PROVE  /\ phase = "task" /\ t = current_task /\ pc[t] = "app"
         /\ \A u \in Tasks \ {t} : Bystander(u)
         /\ QueueEffect(t)
<1>r. phase = "task" /\ t = current_task /\ pc[t] = "app"
  BY DEF AppStep, message_queue_try_put, message_queue_try_get, message_queue_put, message_queue_get,
     message_queue_put_timeout, message_queue_get_timeout, mutex_lock, mutex_unlock, mutex_try_lock,
     signal_wait_set_call, signal_poll_set, signal_send, sleep, yield_call, interrupt_event_task_set,
     Calling, Running
<1>q. /\ \A q \in TaskQueues[t] : q \in Queues
      /\ \A m \in Messages : m \in Contents
  BY RigelAssumption DEF Contents
<1>k. ASSUME UNCHANGED queueVars PROVE QueueEffect(t)
  BY <1>k DEF queueVars, QueueEffect
<1>1. CASE message_queue_try_put(t)
  <2>1. PICK q \in Queues, m \in Contents : put_message(q, m) /\ TryCallFrame /\ UNCHANGED frameVars
    BY <1>1, <1>q DEF message_queue_try_put
  <2>2. \A u \in Tasks : Bystander(u)
    BY <2>1, PutEffect DEF TryCallFrame, timerVars, frameVars, Bystander, Untouched
  <2>3. QED
    BY <1>r, <2>1, <2>2 DEF QueueEffect
<1>2. CASE message_queue_try_get(t)
  <2>1. PICK q \in Queues : get_message(q, t) /\ TryCallFrame /\ UNCHANGED frameVars
    BY <1>2, <1>q DEF message_queue_try_get
  <2>2. \A u \in Tasks : Bystander(u)
    BY <2>1, GetEffect DEF TryCallFrame, timerVars, frameVars, Bystander, Untouched
  <2>3. QED
    BY <1>r, <2>1, <2>2 DEF QueueEffect
<1>3. CASE \/ message_queue_put(t) \/ message_queue_get(t)
           \/ message_queue_put_timeout(t) \/ message_queue_get_timeout(t) \/ mutex_lock(t)
  <2>1. Fatal \/ \E label, o, a, m : EnterLoop(t, label, o, a, m)
    BY <1>3 DEF message_queue_put, message_queue_get, message_queue_put_timeout, message_queue_get_timeout,
       mutex_lock
  <2>2. CASE Fatal
    BY <1>r, <1>k, <2>2, QuietEffect DEF Fatal, Bystander, Untouched, timerVars, mutexVars, queueVars, frameVars
  <2>3. CASE \E label, o, a, m : EnterLoop(t, label, o, a, m)
    <3>1. PICK label, o, a, m : EnterLoop(t, label, o, a, m)
      BY <2>3
    <3>2. \A u \in Tasks \ {t} : pc'[u] = pc[u] /\ obj'[u] = obj[u]
      BY <3>1, FrameEffect DEF EnterLoop
    <3>3. QED
      BY <1>r, <1>k, <3>1, <3>2, QuietEffect DEF EnterLoop, Bystander, Untouched, timerVars, mutexVars, queueVars
  <2>4. QED
    BY <2>1, <2>2, <2>3
<1>4. CASE mutex_unlock(t)
  <2>1. CASE Fatal
    BY <1>r, <1>k, <2>1, QuietEffect DEF Fatal, Bystander, Untouched, timerVars, mutexVars, queueVars, frameVars
  <2>2. CASE ~Fatal
    <3>1. PICK m \in Mutexes :
              /\ send_task_timer(MutexWaiters(m)) /\ mutex_release(m)
              /\ UNCHANGED <<interruptVars, timerVars, queueVars, frameVars, cpuVars, event_task,
                             received, requested_signals>>
      BY <1>4, <2>2 DEF mutex_unlock
    <3>2. m # MUTEX_ID_NONE /\ MutexWaiters(m) \in SUBSET Tasks
      BY MutexAssumption DEF Mutexes, MUTEX_ID_NONE, MutexWaiters
    <3>3. ASSUME NEW u \in Tasks
          PROVE  Bystander(u)
      <4>1. PENDING_SIGNALS'[u] = IF u \in MutexWaiters(m) THEN PENDING_SIGNALS[u] \cup {TASK_TIMER}
                                  ELSE PENDING_SIGNALS[u]
        BY <3>1, <3>2, SendTaskTimerEffect
      <4>2. mutex_waiters'[u] = IF u \in MutexWaiters(m) THEN MUTEX_ID_NONE ELSE mutex_waiters[u]
        BY <3>1 DEF mutex_release
      <4>3. u \in MutexWaiters(m) => mutex_waiters[u] # MUTEX_ID_NONE
        BY <3>2 DEF MutexWaiters
      <4>4. KeptOrForgotten(u) /\ PENDING_SIGNALS[u] \subseteq PENDING_SIGNALS'[u]
        <5>1. message_queue_waiters'[u] = message_queue_waiters[u]
          BY <3>1 DEF queueVars
        <5>2. QED
          BY <4>1, <4>2, <4>3, <5>1 DEF KeptOrForgotten
      <4>5. QED
        BY <3>1, <4>4 DEF Bystander, Untouched, timerVars, frameVars
    <3>4. QED
      BY <1>r, <1>k, <3>1, <3>3
  <2>3. QED
    BY <2>1, <2>2
<1>5. CASE mutex_try_lock(t)
  BY <1>r, <1>k, <1>5, RegisterEffect, QuietEffect DEF mutex_try_lock, Bystander, Untouched, timerVars,
     queueVars, frameVars
<1>6. CASE signal_wait_set_call(t)
  BY <1>r, <1>k, <1>6, FrameEffect, WaitEffect, QuietEffect DEF signal_wait_set_call, Bystander, Untouched,
     timerVars, mutexVars, queueVars
<1>7. CASE signal_poll_set(t)
  <2>1. \A u \in Tasks \ {t} : PENDING_SIGNALS'[u] = PENDING_SIGNALS[u]
    BY <1>7 DEF signal_poll_set, signal_recv, TypeInv, SignalTypeOK
  <2>2. QED
    BY <1>r, <1>k, <1>7, <2>1 DEF signal_poll_set, Bystander, Untouched, KeptOrForgotten, timerVars, mutexVars,
       queueVars, frameVars
<1>8. CASE signal_send(t)
  <2>1. PICK task_id \in Recipients, sigs \in SignalSets \cup {{RTOS_UTIL}} :
            signal_send_set({task_id}, [u \in {task_id} |-> sigs])
    BY <1>8 DEF signal_send
  <2>2. {task_id} \in SUBSET Tasks /\ TASK_TIMER \notin sigs
    BY RigelAssumption, SignalAssumption DEF SignalSets
  <2> DEFINE sends == [u \in {task_id} |-> sigs]
  <2>3. signal_send_set({task_id}, sends) /\ sends[task_id] = sigs
    BY <2>1
  <2> HIDE DEF sends
  <2>4. \A u \in Tasks : PENDING_SIGNALS'[u] = IF u \in {task_id} THEN PENDING_SIGNALS[u] \cup sends[u]
                                               ELSE PENDING_SIGNALS[u]
    BY <2>2, <2>3, SendEffect
  <2>5. \A u \in Tasks : /\ PENDING_SIGNALS[u] \subseteq PENDING_SIGNALS'[u]
                         /\ TASK_TIMER \in PENDING_SIGNALS'[u] => TASK_TIMER \in PENDING_SIGNALS[u]
    BY <2>2, <2>3, <2>4
  <2>6. QED
    BY <1>r, <1>k, <1>8, <2>5 DEF signal_send, Bystander, Untouched, KeptOrForgotten, timerVars, mutexVars,
       queueVars, frameVars
<1>9. CASE sleep(t)
  <2>1. \A u \in Tasks \ {t} : timers'[u] = timers[u] /\ PENDING_SIGNALS'[u] = PENDING_SIGNALS[u]
    BY <1>9, OneshotEffect DEF sleep
  <2>2. \A u \in Tasks \ {t} : pc'[u] = pc[u] /\ obj'[u] = obj[u]
    BY <1>9, FrameEffect DEF sleep
  <2>3. QED
    BY <1>r, <1>k, <1>9, <2>1, <2>2 DEF sleep, Bystander, Untouched, KeptOrForgotten, mutexVars, queueVars
<1>10. CASE yield_call(t) \/ interrupt_event_task_set(t)
  BY <1>r, <1>k, <1>10, QuietEffect DEF yield_call, interrupt_event_task_set, Bystander, Untouched, timerVars,
     mutexVars, queueVars, frameVars
<1>11. QED
  BY <1>1, <1>2, <1>3, <1>4, <1>5, <1>6, <1>7, <1>8, <1>9, <1>10 DEF AppStep

-----------------------------------------------------------------------------
\* A step of t that changes the queues wakes the sleepers it concerns, or
\* leaves them registered with a queue that still refuses them.
LEMMA SleepersKeepWaiting ==
  ASSUME TypeInv, WaitInv, NEW t \in Tasks, NEW u \in Tasks \ {t}, Bystander(u), QueueEffect(t)
  PROVE  /\ (pc[u] \in GetWaits /\ Asleep(u)') => (message_queue_waiters'[u] = obj[u] /\ Empty(obj[u])')
         /\ (LengthsMatch /\ pc[u] \in PutWaits /\ Asleep(u)') =>
                (message_queue_waiters'[u] = obj[u] /\ Full(obj[u])')
<1>1. Asleep(u)' => Asleep(u)
  BY DEF Asleep, signal_peek, Bystander, Untouched
<1>2. WaitOK(u)
  BY DEF WaitInv
<1>3. pc[u] \in GetWaits \cup PutWaits => /\ obj[u] \in Queues /\ pc[u] \in TimerWaits
                                          /\ requested_signals'[u] = {TASK_TIMER}
  BY <1>2 DEF TypeInv, FrameTypeOK, QueueLabels, TimerWaits, WaitOK, Bystander, Untouched
<1>o. obj'[u] = obj[u]
  BY DEF Bystander, Untouched
<1>w. Asleep(u)' /\ pc[u] \in GetWaits \cup PutWaits => TASK_TIMER \notin PENDING_SIGNALS'[u]
  BY <1>3 DEF Asleep, signal_peek
<1>4. CASE UNCHANGED <<messages, head, available>> /\ \A v \in Tasks \ {t} : message_queue_waiters'[v] = message_queue_waiters[v]
  BY <1>1, <1>2, <1>o, <1>4 DEF WaitOK, Empty, Full
<1>5. CASE \E q \in Queues, m \in Contents : put_message(q, m)
  <2>1. PICK q \in Queues, m \in Contents : put_message(q, m)
    BY <1>5
  <2>2. /\ available'[q] = available[q] + 1 /\ ~Full(q)
        /\ \A r \in Queues \ {q} : available'[r] = available[r]
        /\ forget_waiters(PutWakes(q)) /\ send_task_timer(PutWakes(q))
    BY <2>1 DEF put_message, store, TypeInv, QueueTypeOK
  <2>3. PutWakes(q) \in SUBSET Tasks
    BY WakesTyped
  <2>4. u \in PutWakes(q) => TASK_TIMER \in PENDING_SIGNALS'[u]
    BY <2>2, <2>3, SendTaskTimerEffect
  <2>5. u \notin PutWakes(q) => message_queue_waiters'[u] = message_queue_waiters[u]
    BY <2>2 DEF forget_waiters
  <2>6. ASSUME pc[u] \in GetWaits, Asleep(u)'
        PROVE  message_queue_waiters'[u] = obj[u] /\ Empty(obj[u])'
    <3>1. message_queue_waiters[u] = obj[u] /\ Empty(obj[u]) /\ u \notin PutWakes(q)
      BY <1>1, <1>2, <1>w, <2>4, <2>6 DEF WaitOK
    <3>2. obj[u] # q
      BY <3>1 DEF PutWakes, Registered, Empty
    <3>3. QED
      BY <1>3, <1>o, <2>2, <2>5, <2>6, <3>1, <3>2 DEF Empty
  <2>7. ASSUME LengthsMatch, pc[u] \in PutWaits, Asleep(u)'
        PROVE  message_queue_waiters'[u] = obj[u] /\ Full(obj[u])'
    <3>1. message_queue_waiters[u] = obj[u] /\ Full(obj[u]) /\ u \notin PutWakes(q)
      BY <1>1, <1>2, <1>w, <2>4, <2>7 DEF WaitOK
    <3>2. QED
      BY <1>3, <1>o, <2>2, <2>5, <2>7, <3>1 DEF Full
  <2>8. QED
    BY <2>6, <2>7
<1>6. CASE \E q \in Queues : get_message(q, t)
  <2>1. PICK q \in Queues : get_message(q, t)
    BY <1>6
  <2>2. /\ available'[q] = available[q] - 1 /\ ~Empty(q)
        /\ \A r \in Queues \ {q} : available'[r] = available[r]
        /\ forget_waiters(GetWakes(q)) /\ send_task_timer(GetWakes(q))
    BY <2>1 DEF get_message, remove, TypeInv, QueueTypeOK
  <2>3. GetWakes(q) \in SUBSET Tasks
    BY WakesTyped
  <2>4. u \in GetWakes(q) => TASK_TIMER \in PENDING_SIGNALS'[u]
    BY <2>2, <2>3, SendTaskTimerEffect
  <2>5. u \notin GetWakes(q) => message_queue_waiters'[u] = message_queue_waiters[u]
    BY <2>2 DEF forget_waiters
  <2>6. ASSUME pc[u] \in GetWaits, Asleep(u)'
        PROVE  message_queue_waiters'[u] = obj[u] /\ Empty(obj[u])'
    <3>1. message_queue_waiters[u] = obj[u] /\ Empty(obj[u]) /\ u \notin GetWakes(q)
      BY <1>1, <1>2, <1>w, <2>4, <2>6 DEF WaitOK
    <3>2. QED
      BY <1>3, <1>o, <2>2, <2>5, <2>6, <3>1 DEF Empty
  <2>7. ASSUME LengthsMatch, pc[u] \in PutWaits, Asleep(u)'
        PROVE  message_queue_waiters'[u] = obj[u] /\ Full(obj[u])'
    <3>1. message_queue_waiters[u] = obj[u] /\ Full(obj[u]) /\ u \notin GetWakes(q)
      BY <1>1, <1>2, <1>w, <2>4, <2>7 DEF WaitOK
    <3>2. obj[u] # q
      <4>1. QueueLength[q] = NumQueues
        BY <2>7 DEF LengthsMatch
      <4>2. QED
        BY <3>1, <4>1 DEF GetWakes, Registered, Full
    <3>3. QED
      BY <1>3, <1>o, <2>2, <2>5, <2>7, <3>1, <3>2 DEF Full
  <2>8. QED
    BY <2>6, <2>7
<1>7. QED
  BY <1>4, <1>5, <1>6 DEF QueueEffect

\* A step of t leaves the waits of every other task in order.
LEMMA OtherWaits ==
  ASSUME TypeInv, WaitInv, NEW t \in Tasks, t = current_task, NEW u \in Tasks \ {t},
         Bystander(u), QueueEffect(t)
  PROVE  WaitOK(u)'
<1>1. WaitOK(u) /\ pc[u] \notin Uninterrupted
  BY DEF WaitInv, WaitOK
<1>2. "get_timeout_block" \in Uninterrupted /\ "put_timeout_block" \in Uninterrupted
  BY DEF Uninterrupted, BlockLabels
<1>3. QED
  BY <1>1, <1>2, SleepersKeepWaiting DEF Bystander, Untouched, WaitOK

\* A task outside the waits for the task timer and outside the loops has
\* nothing to keep in order.
LEMMA NotWaiting ==
  ASSUME NEW t \in Tasks, pc'[t] \notin TimerWaits \cup Uninterrupted
  PROVE  WaitOK(t)'
  BY DEF WaitOK, TimerWaits, Uninterrupted, BlockLabels

\* The frame of t after a step of its own.
LEMMA OwnFrame ==
  ASSUME TypeInv, NEW t \in Tasks
  PROVE  /\ \A label, o, a, m : Frame(t, label, o, a, m) => (pc'[t] = label /\ obj'[t] = o)
         /\ \A label : Goto(t, label) => (pc'[t] = label /\ obj'[t] = obj[t])
         /\ Return(t) => pc'[t] = "app"
         /\ UNCHANGED frameVars => (pc'[t] = pc[t] /\ obj'[t] = obj[t])
  BY DEF Frame, Goto, Return, frameVars, TypeInv, FrameTypeOK

LEMMA AppIsNoWait == "app" \notin TimerWaits \cup Uninterrupted
  BY DEF TimerWaits, PutWaits, GetWaits, Uninterrupted, BlockLabels, LoopLabels

\* Waiting, resuming and the loops of the blocking calls keep the waits in order.
LEMMA WaitInvTaskStep ==
  ASSUME TypeInv, WaitInv, NEW t \in Tasks, TaskStep(t)
  PROVE  WaitInv'
<1>e. /\ phase = "task" /\ t = current_task
      /\ \A u \in Tasks \ {t} : Bystander(u)
      /\ QueueEffect(t)
  BY TaskStepEffect
<1>u. \A u \in Tasks \ {t} : WaitOK(u)'
  BY <1>e, OtherWaits
<1>t. WaitOK(t)
  BY DEF WaitInv
<1>a. ASSUME pc'[t] = "app" PROVE WaitOK(t)'
  BY <1>a, NotWaiting, AppIsNoWait
<1>1. WaitOK(t)'
  <2>1. CASE Entry(t)
    <3>1. pc'[t] \in {"app", "start_wait"}
      BY <2>1, OwnFrame DEF Entry
    <3>2. "start_wait" \notin TimerWaits \cup Uninterrupted
      BY DEF TimerWaits, PutWaits, GetWaits, Uninterrupted, BlockLabels, LoopLabels
    <3>3. QED
      BY <1>a, <3>1, <3>2, NotWaiting
  <2>2. CASE BlockTimed(t)
    <3>1. /\ pc[t] \in BlockLabels /\ pc'[t] = WaitOf[pc[t]] /\ obj'[t] = obj[t]
          /\ requested_signals'[t] = {TASK_TIMER} /\ UNCHANGED queueVars
      BY <2>2, OwnFrame DEF BlockTimed, signal_wait_set, TypeInv, CpuTypeOK
    <3>2. /\ pc'[t] \notin Uninterrupted
          /\ pc'[t] \in GetWaits => pc[t] = "get_timeout_block"
          /\ pc'[t] \in PutWaits => pc[t] = "put_timeout_block"
      BY <3>1 DEF BlockLabels, WaitOf, Uninterrupted, LoopLabels, GetWaits, PutWaits
    <3>3. "get_timeout_block" \in Uninterrupted /\ "put_timeout_block" \in Uninterrupted
      BY DEF Uninterrupted, BlockLabels
    <3>4. QED
      BY <1>t, <3>1, <3>2, <3>3 DEF WaitOK, queueVars, Empty, Full
  <2>3. CASE WaitAgain(t)
    <3>1. /\ pc' = pc /\ obj' = obj /\ requested_signals' = requested_signals
          /\ PENDING_SIGNALS' = PENDING_SIGNALS /\ UNCHANGED queueVars /\ pc[t] \in Waits
      BY <2>3 DEF WaitAgain, frameVars
    <3>2. pc[t] \notin Uninterrupted /\ pc[t] # "get_timeout_block" /\ pc[t] # "put_timeout_block"
      BY <3>1 DEF Uninterrupted, BlockLabels, LoopLabels, Waits, TimerWaits, PutWaits, GetWaits
    <3>3. QED
      BY <1>t, <3>1, <3>2 DEF WaitOK, Asleep, signal_peek, queueVars, Empty, Full
  <2>4. CASE WaitEnd(t)
    <3>1. CASE Return(t)
      BY <1>a, <3>1, OwnFrame
    <3>2. CASE Goto(t, AfterWait[pc[t]]) /\ AfterWait[pc[t]] # "app"
      <4>1. pc'[t] = AfterWait[pc[t]] /\ pc[t] \in Waits /\ phase' = phase /\ current_task' = current_task
        BY <2>4, <3>2, OwnFrame DEF WaitEnd, cpuVars
      <4>2. pc'[t] \in LoopLabels
        BY <3>2, <4>1 DEF Waits, TimerWaits, PutWaits, GetWaits, AfterWait, LoopLabels
      <4>3. pc'[t] \notin TimerWaits \cup {"get_timeout_block", "put_timeout_block"}
        BY <4>2 DEF LoopLabels, TimerWaits, PutWaits, GetWaits
      <4>4. QED
        BY <1>e, <4>1, <4>3 DEF WaitOK, TimerWaits
    <3>3. QED
      BY <2>4, <3>1, <3>2 DEF WaitEnd
  <2>5. CASE mutex_lock_loop(t)
    <3>1. CASE Return(t)
      BY <1>a, <3>1, OwnFrame
    <3>2. CASE Goto(t, "lock_wait") /\ signal_wait_set(t, {TASK_TIMER})
      <4>1. pc'[t] = "lock_wait" /\ requested_signals'[t] = {TASK_TIMER}
        BY <3>2, OwnFrame, WaitEffect DEF signal_wait_set, TypeInv, CpuTypeOK
      <4>2. "lock_wait" \notin Uninterrupted \cup GetWaits \cup PutWaits
        BY DEF Uninterrupted, BlockLabels, LoopLabels, PutWaits, GetWaits
      <4>3. QED
        BY <4>1, <4>2 DEF WaitOK
    <3>3. QED
      BY <2>5, <3>1, <3>2 DEF mutex_lock_loop
  <2>w. ASSUME NEW label \in {"put_wait", "get_wait"}, message_queue_wait(t, label),
               label = "put_wait" => Full(obj[t]), label = "get_wait" => Empty(obj[t])
        PROVE  WaitOK(t)'
    <3>1. /\ pc'[t] = label /\ obj'[t] = obj[t] /\ requested_signals'[t] = {TASK_TIMER}
          /\ message_queue_waiters'[t] = obj[t] /\ available' = available
      BY <2>w, OwnFrame DEF message_queue_wait, register, signal_wait_set, TypeInv, CpuTypeOK, QueueTypeOK
    <3>2. label \notin Uninterrupted /\ (label \in PutWaits => label = "put_wait")
                                     /\ (label \in GetWaits => label = "get_wait")
      BY DEF Uninterrupted, BlockLabels, LoopLabels, PutWaits, GetWaits
    <3>3. QED
      BY <2>w, <3>1, <3>2 DEF WaitOK, Empty, Full
  <2>t. ASSUME NEW label \in {"put_timeout_block", "get_timeout_block"}, message_queue_wait_timeout(t, label),
               label = "put_timeout_block" => Full(obj[t]), label = "get_timeout_block" => Empty(obj[t])
        PROVE  WaitOK(t)'
    <3>1. /\ pc'[t] = label /\ obj'[t] = obj[t] /\ UNCHANGED <<phase, current_task>>
          /\ message_queue_waiters'[t] = obj[t] /\ available' = available
      BY <2>t, OwnFrame DEF message_queue_wait_timeout, register, cpuVars, TypeInv, QueueTypeOK
    <3>2. label \notin TimerWaits \cup PutWaits \cup GetWaits
      BY DEF TimerWaits, PutWaits, GetWaits
    <3>3. QED
      BY <1>e, <2>t, <3>1, <3>2 DEF WaitOK, Empty, Full
  <2>6. CASE message_queue_put_loop(t)
    BY <1>a, <2>6, <2>w, OwnFrame DEF message_queue_put_loop
  <2>7. CASE message_queue_get_loop(t)
    BY <1>a, <2>7, <2>w, OwnFrame DEF message_queue_get_loop
  <2>8. CASE message_queue_put_timeout_loop(t)
    BY <1>a, <2>8, <2>t, OwnFrame DEF message_queue_put_timeout_loop, GiveUp
  <2>9. CASE message_queue_get_timeout_loop(t)
    BY <1>a, <2>9, <2>t, OwnFrame DEF message_queue_get_timeout_loop, GiveUp
  <2>10. QED
    BY <2>1, <2>2, <2>3, <2>4, <2>5, <2>6, <2>7, <2>8, <2>9 DEF TaskStep
<1>2. QED
  BY <1>u, <1>1 DEF WaitInv

\* The API calls of an application keep the waits in order.
LEMMA WaitInvAppStep ==
  ASSUME TypeInv, WaitInv, NEW t \in Tasks, AppStep(t)
  PROVE  WaitInv'
<1>e. /\ phase = "task" /\ t = current_task /\ pc[t] = "app"
      /\ \A u \in Tasks \ {t} : Bystander(u)
      /\ QueueEffect(t)
  BY AppStepEffect
<1>u. \A u \in Tasks \ {t} : WaitOK(u)'
  BY <1>e, OtherWaits
<1>n. ASSUME pc'[t] \in {"app", "signal_wait"} PROVE WaitOK(t)'
  <2>1. pc'[t] \notin TimerWaits \cup Uninterrupted
    BY <1>n DEF TimerWaits, PutWaits, GetWaits, Uninterrupted, BlockLabels, LoopLabels
  <2>2. QED
    BY <2>1, NotWaiting
<1>l. ASSUME pc'[t] \in LoopLabels \cup {"sleep_block"}, UNCHANGED <<phase, current_task>>
      PROVE  WaitOK(t)'
  <2>1. pc'[t] \notin TimerWaits \cup {"get_timeout_block", "put_timeout_block"}
    BY <1>l DEF LoopLabels, TimerWaits, PutWaits, GetWaits
  <2>2. QED
    BY <1>e, <1>l, <2>1 DEF WaitOK, TimerWaits
<1>1. WaitOK(t)'
  <2>f. ASSUME UNCHANGED frameVars PROVE pc'[t] = "app"
    BY <1>e, <2>f, OwnFrame
  <2>1. CASE message_queue_put(t) \/ message_queue_get(t)
    <3>1. \E label \in LoopLabels : \E o, a, m : EnterLoop(t, label, o, a, m)
      BY <2>1 DEF message_queue_put, message_queue_get, LoopLabels
    <3>2. QED
      BY <1>l, <3>1, OwnFrame DEF EnterLoop, cpuVars
  <2>2. CASE message_queue_put_timeout(t) \/ message_queue_get_timeout(t) \/ mutex_lock(t)
    <3>1. Fatal \/ \E label \in LoopLabels : \E o, a, m : EnterLoop(t, label, o, a, m)
      BY <2>2 DEF message_queue_put_timeout, message_queue_get_timeout, mutex_lock, LoopLabels
    <3>2. QED
      BY <1>l, <1>n, <2>f, <3>1, OwnFrame DEF EnterLoop, cpuVars, Fatal
  <2>3. CASE \/ message_queue_try_put(t) \/ message_queue_try_get(t) \/ mutex_unlock(t) \/ mutex_try_lock(t)
             \/ signal_poll_set(t) \/ signal_send(t) \/ yield_call(t) \/ interrupt_event_task_set(t)
    <3>1. UNCHANGED frameVars
      BY <2>3 DEF message_queue_try_put, message_queue_try_get, mutex_unlock, mutex_try_lock, signal_poll_set,
         signal_send, yield_call, interrupt_event_task_set, Fatal
    <3>2. QED
      BY <1>n, <2>f, <3>1
  <2>4. CASE signal_wait_set_call(t)
    BY <1>n, <2>4, OwnFrame DEF signal_wait_set_call
  <2>5. CASE sleep(t)
    BY <1>l, <2>5, OwnFrame DEF sleep, cpuVars
  <2>6. QED
    BY <2>1, <2>2, <2>3, <2>4, <2>5 DEF AppStep
<1>2. QED
  BY <1>u, <1>1 DEF WaitInv

\* What the scheduler and the handlers do to the tasks: signals arrive.
LEMMA CpuStepEffect ==
  ASSUME TypeInv, SchedStep \/ Interrupt
  PROVE  /\ UNCHANGED <<pc, obj, requested_signals, queueVars, mutexVars>>
         /\ \A u \in Tasks : PENDING_SIGNALS[u] \subseteq PENDING_SIGNALS'[u]
         /\ phase = "task" => UNCHANGED <<phase, current_task>>
<1>1. CASE interrupt_event_process
  <2>1. EventTasks(event_task, interrupt_event) \in SUBSET Tasks
    BY EventsTyped DEF TypeInv
  <2>2. signal_send_set(EventTasks(event_task, interrupt_event), EventSends(event_task, interrupt_event))
    BY <1>1 DEF interrupt_event_process
  <2>3. \A u \in Tasks : PENDING_SIGNALS[u] \subseteq PENDING_SIGNALS'[u]
    BY <2>1, <2>2, SendEffect
  <2>4. QED
    BY <1>1, <2>3 DEF interrupt_event_process, frameVars
<1>2. CASE timer_tick_process
  <2> DEFINE K == Expired((timer_current_ticks + 1) % TicksAbsoluteMod)
  <2>1. CASE UNCHANGED PENDING_SIGNALS
    BY <1>2, <2>1 DEF timer_tick_process, frameVars
  <2>2. CASE signal_send_set(TimerTasks(K), TimerSignals(K))
    <3>1. K \in SUBSET TimerIds
      BY DEF Expired
    <3> HIDE DEF K
    <3>2. TimerTasks(K) \in SUBSET Tasks
      BY <3>1, ExpiredTyped DEF TypeInv
    <3>3. \A u \in Tasks : PENDING_SIGNALS[u] \subseteq PENDING_SIGNALS'[u]
      BY <2>2, <3>2, SendEffect
    <3>4. QED
      BY <1>2, <3>3 DEF timer_tick_process, frameVars
  <2>3. QED
    BY <1>2, <2>1, <2>2 DEF timer_tick_process
<1>3. CASE sched_pick \/ interrupt_event_wait
  BY <1>3 DEF sched_pick, interrupt_event_wait, frameVars
<1>4. CASE Interrupt
  BY <1>4 DEF Interrupt, timer_tick, interrupt_event_raise, HandlerReturns, frameVars
<1>5. QED
  BY <1>1, <1>2, <1>3, <1>4 DEF SchedStep

\* The scheduler and the handlers keep the waits in order.
LEMMA WaitInvCpuStep == TypeInv /\ WaitInv /\ (SchedStep \/ Interrupt) => WaitInv'
<1> SUFFICES ASSUME TypeInv, WaitInv, SchedStep \/ Interrupt, NEW u \in Tasks PROVE WaitOK(u)'
  BY DEF WaitInv
<1>1. /\ UNCHANGED <<pc, obj, requested_signals, queueVars>>
      /\ PENDING_SIGNALS[u] \subseteq PENDING_SIGNALS'[u]
      /\ phase = "task" => UNCHANGED <<phase, current_task>>
  BY CpuStepEffect
<1>2. WaitOK(u)
  BY DEF WaitInv
<1>3. Asleep(u)' => Asleep(u)
  BY <1>1 DEF Asleep, signal_peek
<1>4. QED
  BY <1>1, <1>2, <1>3 DEF WaitOK, queueVars, Empty, Full

LEMMA WaitInvNext == TypeInv /\ WaitInv /\ [Next]_vars => WaitInv'
<1> SUFFICES ASSUME TypeInv, WaitInv, [Next]_vars PROVE WaitInv'
  OBVIOUS
<1>1. CASE UNCHANGED vars
  BY <1>1 DEF vars, WaitInv, WaitOK, Asleep, signal_peek, Empty, Full, cpuVars, queueVars, frameVars
<1>2. CASE Next
  BY <1>1, <1>2, WaitInvTaskStep, WaitInvAppStep, WaitInvCpuStep DEF Next, Stopped
<1>3. QED
  BY <1>1, <1>2

LEMMA WaitInvInit == Init => WaitInv
<1> SUFFICES ASSUME Init, NEW u \in Tasks PROVE WaitOK(u)
  BY DEF WaitInv
<1>1. pc[u] = "entry"
  BY DEF Init
<1>2. pc[u] \notin TimerWaits \cup Uninterrupted
  BY <1>1 DEF TimerWaits, PutWaits, GetWaits, Uninterrupted, BlockLabels, LoopLabels
<1>3. QED
  BY <1>2 DEF WaitOK, TimerWaits, Uninterrupted, BlockLabels

\* The waits are in order in every reachable configuration.
THEOREM WaitsCorrect == Spec => [](TypeInv /\ WaitInv)
  BY TypeInit, TypeNext, WaitInvInit, WaitInvNext, PTL DEF Spec

\* try_put loses no wake-up: a task asleep in a get is registered with its
\* queue and the queue is empty, whatever the length of the queue.
THEOREM ReceiverWakeups == Spec => []ReceiversWoken
<1>1. TypeInv /\ WaitInv => ReceiversWoken
  BY DEF WaitInv, WaitOK, ReceiversWoken
<1>2. QED
  BY <1>1, WaitsCorrect, PTL

\* try_get loses no wake-up when every queue is as long as there are queues,
\* the number that the source compares with: a task asleep in a put is
\* registered with its queue and the queue is full.
THEOREM SenderWakeups == LengthsMatch => (Spec => []SendersWoken)
<1> SUFFICES ASSUME LengthsMatch PROVE Spec => []SendersWoken
  OBVIOUS
<1>1. TypeInv /\ WaitInv => SendersWoken
  BY DEF WaitInv, WaitOK, SendersWoken
<1>2. QED
  BY <1>1, WaitsCorrect, PTL
-----------------------------------------------------------------------------
(* The signal of the task timer. *)

\* Nobody is about to send t the signal of its task timer, and it is not pending.
Clear(t) ==
    /\ timers[t].task_id = t /\ timers[t].signal_set = {TASK_TIMER} /\ timers[t].reload = 0
    /\ ~timers[t].enabled
    /\ TASK_TIMER \notin PENDING_SIGNALS[t]
    /\ message_queue_waiters[t] = MESSAGE_QUEUE_ID_NONE
    /\ mutex_waiters[t] = MUTEX_ID_NONE

\* The places where the signal is expected; outside of them a task is clear.
Expecting == TimerWaits \cup BlockLabels

LEMMA ClearOutside ==
  ASSUME NEW t \in Tasks, TimerOK(t), pc[t] \notin Expecting
  PROVE  Clear(t)
<1>1. TimerLabels \subseteq Expecting /\ QueueBlocked \subseteq Expecting /\ "lock_wait" \in Expecting
  BY DEF Expecting, TimerLabels, TimedWaits, QueueBlocked, TimerWaits, PutWaits, GetWaits, BlockLabels
<1>2. QED
  BY <1>1 DEF TimerOK, Clear, Expecting

LEMMA ClearIsOK ==
  ASSUME NEW t, Clear(t)'
  PROVE  TimerOK(t)'
  BY DEF Clear, TimerOK

\* A clear task stays clear unless its own call starts a wait.
LEMMA StaysClear ==
  ASSUME NEW t, Clear(t), timers'[t] = timers[t], KeptOrForgotten(t)
  PROVE  Clear(t)'
  BY DEF Clear, KeptOrForgotten

\* A step of t leaves the timer signal of every other task expected.
LEMMA OtherTimers ==
  ASSUME NEW u, TimerOK(u), Bystander(u)
  PROVE  TimerOK(u)'
<1>1. /\ timers'[u] = timers[u] /\ pc'[u] = pc[u]
      /\ message_queue_waiters'[u] \in {message_queue_waiters[u], MESSAGE_QUEUE_ID_NONE}
      /\ mutex_waiters'[u] \in {mutex_waiters[u], MUTEX_ID_NONE}
  BY DEF Bystander, Untouched, KeptOrForgotten
<1>2. /\ "lock_wait" \notin QueueBlocked \cup {"sleep_block", "sleep_wait", "put_wait", "get_wait"}
      /\ QueueBlocked \subseteq TimerWaits \cup BlockLabels /\ "lock_wait" \in TimerWaits
      /\ "sleep_block" \notin QueueBlocked /\ "sleep_wait" \notin QueueBlocked
  BY DEF QueueBlocked, PutWaits, GetWaits, TimerWaits, BlockLabels
<1>3. CASE TASK_TIMER \in PENDING_SIGNALS'[u] => TASK_TIMER \in PENDING_SIGNALS[u]
  BY <1>1, <1>3 DEF TimerOK
<1>4. CASE /\ message_queue_waiters[u] # MESSAGE_QUEUE_ID_NONE
           /\ message_queue_waiters'[u] = MESSAGE_QUEUE_ID_NONE
  <2>1. pc[u] \in QueueBlocked
    BY <1>4 DEF TimerOK
  <2>2. mutex_waiters[u] = MUTEX_ID_NONE
    BY <1>2, <2>1 DEF TimerOK
  <2>3. QED
    BY <1>1, <1>2, <1>4, <2>1, <2>2 DEF TimerOK
<1>5. CASE mutex_waiters[u] # MUTEX_ID_NONE /\ mutex_waiters'[u] = MUTEX_ID_NONE
  <2>1. pc[u] = "lock_wait"
    BY <1>5 DEF TimerOK
  <2>2. message_queue_waiters[u] = MESSAGE_QUEUE_ID_NONE
    BY <1>2, <2>1 DEF TimerOK
  <2>3. QED
    BY <1>1, <1>2, <1>5, <2>1, <2>2 DEF TimerOK
<1>6. QED
  BY <1>3, <1>4, <1>5 DEF Bystander, KeptOrForgotten

\* A timed wait's signal arrives: every sender of it is done with the task.
LEMMA WaitEndClears ==
  ASSUME TypeInv, NEW t \in Tasks, WaitOK(t), TimerOK(t), WaitEnd(t)
  PROVE  Clear(t)'
<1>k. task_timers(t) = t /\ timers \in [Tasks -> TimerRecord] /\ timers[t] \in TimerRecord
  BY TaskTimersOnly DEF TypeInv, TimerTypeOK
<1>s. PENDING_SIGNALS'[t] = PENDING_SIGNALS[t] \ requested_signals[t] /\ mutex_waiters' = mutex_waiters
  BY DEF WaitEnd, signal_recv, TypeInv, SignalTypeOK, mutexVars
<1>f. timers'[t].task_id = timers[t].task_id /\ timers'[t].signal_set = timers[t].signal_set
      /\ timers'[t].reload = timers[t].reload
  <2>1. CASE pc[t] \in TimedWaits
    <3>1. timers' = [timers EXCEPT ![t].enabled = FALSE]
      BY <1>k, <2>1 DEF WaitEnd
    <3>2. QED
      BY <1>k, <3>1 DEF TimerRecord
  <2>2. CASE pc[t] \notin TimedWaits
    BY <2>2 DEF WaitEnd
  <2>3. QED
    BY <2>1, <2>2
<1>1. CASE pc[t] \in TimerWaits
  <2>1. TASK_TIMER \in PENDING_SIGNALS[t] /\ TASK_TIMER \notin PENDING_SIGNALS'[t]
    BY <1>1, <1>s DEF WaitOK, WaitEnd, signal_peek
  <2>2. mutex_waiters'[t] = MUTEX_ID_NONE
    BY <1>s, <2>1 DEF TimerOK
  <2>3. ~timers'[t].enabled /\ message_queue_waiters'[t] = MESSAGE_QUEUE_ID_NONE
    <3>1. CASE pc[t] \in TimedWaits
      <4>1. timers' = [timers EXCEPT ![t].enabled = FALSE] /\ register(MESSAGE_QUEUE_ID_NONE, t)
        BY <1>k, <3>1 DEF WaitEnd
      <4>2. QED
        BY <1>k, <4>1 DEF TimerRecord, register, TypeInv, QueueTypeOK
    <3>2. CASE pc[t] \notin TimedWaits
      <4>1. timers' = timers /\ message_queue_waiters' = message_queue_waiters
        BY <3>2 DEF WaitEnd, queueVars
      <4>2. pc[t] \in {"put_wait", "get_wait", "lock_wait", "sleep_wait"}
        BY <1>1, <3>2 DEF TimerWaits, PutWaits, GetWaits, TimedWaits
      <4>3. /\ pc[t] \in TimerLabels => pc[t] = "sleep_wait"
            /\ pc[t] \in QueueBlocked => pc[t] \in {"put_wait", "get_wait"}
        BY <4>2 DEF TimerLabels, TimedWaits, BlockLabels, QueueBlocked, PutWaits, GetWaits
      <4>4. QED
        BY <2>1, <4>1, <4>3 DEF TimerOK
    <3>3. QED
      BY <3>1, <3>2
  <2>4. QED
    BY <1>f, <2>1, <2>2, <2>3 DEF TimerOK, Clear
<1>2. CASE pc[t] \notin TimerWaits
  <2>1. pc[t] \in {"signal_wait", "start_wait"}
    BY <1>2 DEF WaitEnd, Waits
  <2>2. pc[t] \notin Expecting /\ pc[t] \notin TimedWaits
    BY <2>1 DEF Expecting, TimedWaits, TimerWaits, PutWaits, GetWaits, BlockLabels
  <2>3. Clear(t)
    BY <2>2, ClearOutside
  <2>4. timers' = timers /\ message_queue_waiters' = message_queue_waiters
    BY <2>2 DEF WaitEnd, queueVars
  <2>5. QED
    BY <1>s, <2>3, <2>4 DEF Clear
<1>3. QED
  BY <1>1, <1>2

\* A blocking call registers: its signal may come from its queue or its timer.
LEMMA QueueWaitTimer ==
  ASSUME TypeInv, NEW t \in Tasks, Clear(t), NEW label \in {"put_wait", "get_wait"},
         message_queue_wait(t, label)
  PROVE  TimerOK(t)'
<1>1. /\ pc'[t] = label /\ timers' = timers /\ PENDING_SIGNALS' = PENDING_SIGNALS
      /\ mutex_waiters' = mutex_waiters
  BY OwnFrame DEF message_queue_wait, timerVars, mutexVars
<1>2. label \in QueueBlocked
  BY DEF QueueBlocked, PutWaits, GetWaits
<1>3. QED
  BY <1>1, <1>2 DEF Clear, TimerOK

LEMMA QueueWaitTimeoutTimer ==
  ASSUME TypeInv, NEW t \in Tasks, Clear(t), NEW label \in {"put_timeout_block", "get_timeout_block"},
         message_queue_wait_timeout(t, label)
  PROVE  TimerOK(t)'
<1>1. pc'[t] = label /\ mutex_waiters' = mutex_waiters
  BY OwnFrame DEF message_queue_wait_timeout, mutexVars
<1>2. /\ timers'[t].task_id = timers[t].task_id /\ timers'[t].signal_set = timers[t].signal_set
      /\ timers'[t].reload = 0
  BY OneshotEffect DEF message_queue_wait_timeout
<1>3. label \in QueueBlocked /\ label \in BlockLabels /\ label \in TimerLabels
  BY DEF QueueBlocked, BlockLabels, TimerLabels
<1>4. QED
  BY <1>1, <1>2, <1>3 DEF Clear, TimerOK

\* Waiting, resuming and the loops of the blocking calls keep the signal expected.
LEMMA TimerInvTaskStep ==
  ASSUME TypeInv, WaitInv, TimerInv, NEW t \in Tasks, TaskStep(t)
  PROVE  TimerInv'
<1>u. \A u \in Tasks \ {t} : TimerOK(u)'
  BY TaskStepEffect, OtherTimers DEF TimerInv
<1>t. TimerOK(t) /\ WaitOK(t)
  BY DEF TimerInv, WaitInv
<1>k. ASSUME Clear(t), timers' = timers, KeptOrForgotten(t) PROVE TimerOK(t)'
  BY <1>k, StaysClear, ClearIsOK
<1>c. ASSUME pc[t] \in LoopLabels \cup {"entry"} PROVE Clear(t)
  <2>1. pc[t] \notin Expecting
    BY <1>c DEF LoopLabels, Expecting, TimerWaits, PutWaits, GetWaits, BlockLabels
  <2>2. QED
    BY <1>t, <2>1, ClearOutside
<1>1. TimerOK(t)'
  <2>1. CASE Entry(t)
    BY <1>c, <1>k, <2>1, QuietEffect DEF Entry, Running, timerVars, queueVars, mutexVars
  <2>2. CASE BlockTimed(t)
    <3>1. /\ pc[t] \in BlockLabels /\ pc'[t] = WaitOf[pc[t]]
          /\ UNCHANGED <<timers, PENDING_SIGNALS, message_queue_waiters, mutex_waiters>>
      BY <2>2, OwnFrame DEF BlockTimed, timerVars, queueVars, mutexVars
    <3>2. /\ pc'[t] \in TimerWaits /\ pc'[t] \in TimerLabels
          /\ pc'[t] \notin {"put_wait", "get_wait", "sleep_block"} /\ pc[t] # "lock_wait"
          /\ pc'[t] = "sleep_wait" => pc[t] = "sleep_block"
          /\ pc[t] \in QueueBlocked => pc'[t] \in QueueBlocked
      BY <3>1 DEF BlockLabels, WaitOf, TimerWaits, TimerLabels, TimedWaits, QueueBlocked, PutWaits, GetWaits
    <3>3. QED
      BY <1>t, <3>1, <3>2 DEF TimerOK
  <2>3. CASE WaitAgain(t)
    BY <1>t, <2>3 DEF WaitAgain, TimerOK, timerVars, queueVars, mutexVars, frameVars
  <2>4. CASE WaitEnd(t)
    BY <1>t, <2>4, WaitEndClears, ClearIsOK
  <2>5. CASE mutex_lock_loop(t)
    <3>1. Clear(t) /\ UNCHANGED <<timers, PENDING_SIGNALS, message_queue_waiters>>
      BY <1>c, <2>5 DEF mutex_lock_loop, Running, LoopLabels, timerVars, queueVars
    <3>2. CASE mutex_take(obj[t], t)
      BY <1>k, <3>1, <3>2, QuietEffect DEF mutex_take
    <3>3. CASE Goto(t, "lock_wait")
      <4>1. pc'[t] = "lock_wait" /\ "lock_wait" \in TimerWaits
        BY <3>3, OwnFrame DEF TimerWaits
      <4>2. QED
        BY <3>1, <4>1 DEF Clear, TimerOK
    <3>4. QED
      BY <2>5, <3>2, <3>3 DEF mutex_lock_loop
  <2>o. /\ pc[t] \in {"put", "put_timeout", "get", "get_timeout"} => obj[t] \in Queues
        /\ message[t] \in Contents
    BY DEF TypeInv, FrameTypeOK, QueueLabels
  <2>u. ASSUME GiveUp(t), Clear(t) PROVE TimerOK(t)'
    BY <1>k, <2>u, QuietEffect DEF GiveUp, TryCallFrame, timerVars, mutexVars, queueVars
  <2>p. ASSUME NEW q \in Queues, NEW m \in Contents, put_message(q, m), TryCallFrame, Clear(t)
        PROVE  TimerOK(t)'
    BY <1>k, <2>p, PutEffect DEF TryCallFrame, timerVars
  <2>g. ASSUME NEW q \in Queues, get_message(q, t), TryCallFrame, Clear(t)
        PROVE  TimerOK(t)'
    BY <1>k, <2>g, GetEffect DEF TryCallFrame, timerVars
  <2>6. CASE message_queue_put_loop(t) \/ message_queue_put_timeout_loop(t)
    <3>1. Clear(t) /\ obj[t] \in Queues
      BY <1>c, <2>6, <2>o DEF message_queue_put_loop, message_queue_put_timeout_loop, Running, LoopLabels
    <3>2. QED
      BY <2>6, <2>o, <2>u, <2>p, <3>1, QueueWaitTimer, QueueWaitTimeoutTimer DEF message_queue_put_loop,
         message_queue_put_timeout_loop
  <2>7. CASE message_queue_get_loop(t) \/ message_queue_get_timeout_loop(t)
    <3>1. Clear(t) /\ obj[t] \in Queues
      BY <1>c, <2>7, <2>o DEF message_queue_get_loop, message_queue_get_timeout_loop, Running, LoopLabels
    <3>2. QED
      BY <2>7, <2>u, <2>g, <3>1, QueueWaitTimer, QueueWaitTimeoutTimer DEF message_queue_get_loop,
         message_queue_get_timeout_loop
  <2>8. QED
    BY <2>1, <2>2, <2>3, <2>4, <2>5, <2>6, <2>7 DEF TaskStep
<1>2. QED
  BY <1>u, <1>1 DEF TimerInv

\* An application call that is no sleep sends its caller no timer signal.
LEMMA CallerKept ==
  ASSUME TypeInv, NEW t \in Tasks, AppStep(t), ~sleep(t), Clear(t)
  PROVE  timers' = timers /\ KeptOrForgotten(t)
<1>q. /\ \A q \in TaskQueues[t] : q \in Queues
      /\ \A m \in Messages : m \in Contents
  BY RigelAssumption DEF Contents
<1>1. CASE message_queue_try_put(t)
  BY <1>1, <1>q, PutEffect DEF message_queue_try_put, TryCallFrame, timerVars
<1>2. CASE message_queue_try_get(t)
  BY <1>2, <1>q, GetEffect DEF message_queue_try_get, TryCallFrame, timerVars
<1>f. ASSUME Fatal PROVE timers' = timers /\ KeptOrForgotten(t)
  BY <1>f, QuietEffect DEF Fatal, timerVars, mutexVars, queueVars
<1>e. ASSUME NEW label, NEW o, NEW a, NEW m, EnterLoop(t, label, o, a, m)
      PROVE  timers' = timers /\ KeptOrForgotten(t)
  BY <1>e, QuietEffect DEF EnterLoop, timerVars, mutexVars, queueVars
<1>3. CASE \/ message_queue_put(t) \/ message_queue_get(t)
           \/ message_queue_put_timeout(t) \/ message_queue_get_timeout(t) \/ mutex_lock(t)
  BY <1>3, <1>e, <1>f DEF message_queue_put, message_queue_get, message_queue_put_timeout,
     message_queue_get_timeout, mutex_lock
<1>4. CASE mutex_unlock(t)
  <2>1. CASE ~Fatal
    <3>1. PICK m \in Mutexes : /\ send_task_timer(MutexWaiters(m)) /\ mutex_release(m)
                               /\ UNCHANGED <<timerVars, queueVars>>
      BY <1>4, <2>1 DEF mutex_unlock
    <3>2. t \notin MutexWaiters(m) /\ MutexWaiters(m) \in SUBSET Tasks
      BY MutexAssumption DEF Clear, MutexWaiters, Mutexes, MUTEX_ID_NONE
    <3>3. PENDING_SIGNALS'[t] = PENDING_SIGNALS[t]
      BY <3>1, <3>2, SendTaskTimerEffect
    <3>4. mutex_waiters'[t] = mutex_waiters[t] /\ message_queue_waiters' = message_queue_waiters
      BY <3>1, <3>2 DEF mutex_release, queueVars
    <3>5. QED
      BY <3>1, <3>3, <3>4 DEF KeptOrForgotten, timerVars
  <2>2. QED
    BY <1>f, <2>1
<1>5. CASE mutex_try_lock(t)
  BY <1>5, QuietEffect DEF mutex_try_lock, mutex_take, timerVars, queueVars
<1>6. CASE signal_wait_set_call(t) \/ yield_call(t) \/ interrupt_event_task_set(t)
  BY <1>6, QuietEffect DEF signal_wait_set_call, yield_call, interrupt_event_task_set, timerVars, mutexVars,
     queueVars
<1>7. CASE signal_poll_set(t)
  BY <1>7 DEF signal_poll_set, signal_recv, TypeInv, SignalTypeOK, KeptOrForgotten, timerVars, mutexVars, queueVars
<1>8. CASE signal_send(t)
  <2>1. PICK task_id \in Recipients, sigs \in SignalSets \cup {{RTOS_UTIL}} :
            signal_send_set({task_id}, [u \in {task_id} |-> sigs])
    BY <1>8 DEF signal_send
  <2>2. {task_id} \in SUBSET Tasks /\ TASK_TIMER \notin sigs
    BY RigelAssumption, SignalAssumption DEF SignalSets
  <2> DEFINE sends == [u \in {task_id} |-> sigs]
  <2>3. signal_send_set({task_id}, sends) /\ sends[task_id] = sigs
    BY <2>1
  <2> HIDE DEF sends
  <2>4. PENDING_SIGNALS'[t] = IF t \in {task_id} THEN PENDING_SIGNALS[t] \cup sends[t] ELSE PENDING_SIGNALS[t]
    BY <2>2, <2>3, SendEffect
  <2>5. TASK_TIMER \in PENDING_SIGNALS'[t] => TASK_TIMER \in PENDING_SIGNALS[t]
    BY <2>2, <2>3, <2>4
  <2>6. QED
    BY <1>8, <2>5 DEF signal_send, KeptOrForgotten, timerVars, mutexVars, queueVars
<1>9. QED
  BY <1>1, <1>2, <1>3, <1>4, <1>5, <1>6, <1>7, <1>8 DEF AppStep

\* The API calls of an application keep the signal expected.
LEMMA TimerInvAppStep ==
  ASSUME TypeInv, TimerInv, NEW t \in Tasks, AppStep(t)
  PROVE  TimerInv'
<1>u. \A u \in Tasks \ {t} : TimerOK(u)'
  BY AppStepEffect, OtherTimers DEF TimerInv
<1>c. Clear(t)
  <2>1. pc[t] \notin Expecting
    BY AppStepEffect, AppIsNoWait DEF Expecting, Uninterrupted
  <2>2. QED
    BY <2>1, ClearOutside DEF TimerInv
<1>1. CASE sleep(t)
  <2>1. PICK ticks \in Timeouts : timer_oneshot(t, ticks)
    BY <1>1 DEF sleep
  <2>2. /\ pc'[t] = "sleep_block" /\ message_queue_waiters' = message_queue_waiters
        /\ mutex_waiters' = mutex_waiters
    BY <1>1, OwnFrame DEF sleep, queueVars, mutexVars
  <2>3. "sleep_block" \in BlockLabels /\ "sleep_block" \in TimerLabels
    BY DEF BlockLabels, TimerLabels
  <2>4. QED
    BY <1>u, <1>c, <2>1, <2>2, <2>3, OneshotEffect DEF Clear, TimerOK, TimerInv
<1>2. CASE ~sleep(t)
  BY <1>u, <1>c, <1>2, CallerKept, StaysClear, ClearIsOK DEF TimerInv
<1>3. QED
  BY <1>1, <1>2

\* A tick stops the task timers that expire and sends their signals; the events
\* of the application do not carry the signal of a task timer.
LEMMA CpuStepTimers ==
  ASSUME TypeInv, TimerInv, SchedStep \/ Interrupt, NEW u \in Tasks
  PROVE  \/ /\ timers'[u] = timers[u]
            /\ TASK_TIMER \in PENDING_SIGNALS'[u] => TASK_TIMER \in PENDING_SIGNALS[u]
         \/ /\ timers[u].enabled /\ ~timers'[u].enabled
            /\ timers'[u].task_id = timers[u].task_id /\ timers'[u].signal_set = timers[u].signal_set
            /\ timers'[u].reload = timers[u].reload
<1>k. TimerIds = Tasks /\ timers \in [Tasks -> TimerRecord]
  BY TaskTimersOnly DEF TypeInv, TimerTypeOK
<1>t. \A k \in Tasks : timers[k].task_id = k /\ timers[k].signal_set = {TASK_TIMER} /\ timers[k].reload = 0
  BY DEF TimerInv, TimerOK
<1>1. CASE interrupt_event_process
  <2> DEFINE T == EventTasks(event_task, interrupt_event)
             sends == EventSends(event_task, interrupt_event)
  <2>1. T \in SUBSET Tasks /\ \A v \in T : sends[v] \subseteq AppSignals
    BY EventsTyped DEF TypeInv
  <2>2. signal_send_set(T, sends) /\ timers' = timers
    BY <1>1 DEF interrupt_event_process, timerVars
  <2> HIDE DEF T, sends
  <2>3. PENDING_SIGNALS'[u] = IF u \in T THEN PENDING_SIGNALS[u] \cup sends[u] ELSE PENDING_SIGNALS[u]
    BY <2>1, <2>2, SendEffect
  <2>4. QED
    BY <2>1, <2>2, <2>3, SignalAssumption
<1>2. CASE timer_tick_process
  <2> DEFINE K == Expired((timer_current_ticks + 1) % TicksAbsoluteMod)
  <2>1. CASE UNCHANGED <<PENDING_SIGNALS, timers>>
    BY <2>1
  <2>2. CASE timers' = TimersAfter(K) /\ signal_send_set(TimerTasks(K), TimerSignals(K))
    <3>1. K \in SUBSET TimerIds /\ (u \in K => timers[u].enabled)
      BY DEF Expired
    <3> HIDE DEF K
    <3>2. TimerTasks(K) \in SUBSET Tasks
      BY <3>1, ExpiredTyped DEF TypeInv
    <3>3. PENDING_SIGNALS'[u] = IF u \in TimerTasks(K) THEN PENDING_SIGNALS[u] \cup TimerSignals(K)[u]
                                ELSE PENDING_SIGNALS[u]
      BY <2>2, <3>2, SendEffect
    <3>4. timers'[u] = IF u \in K THEN timer_process_one(timers[u], PendingAt(u, K)) ELSE timers[u]
      BY <1>k, <2>2 DEF TimersAfter
    <3>5. CASE u \in K
      <4>1. timers[u] \in TimerRecord /\ ~(timers[u].reload > 0)
        BY <1>k, <1>t
      <4>2. \A pending : LET p == timer_process_one(timers[u], pending)
                         IN  /\ ~p.enabled /\ p.reload = timers[u].reload
                             /\ p.task_id = timers[u].task_id /\ p.signal_set = timers[u].signal_set
        BY <4>1 DEF timer_process_one, TimerRecord
      <4>3. QED
        BY <3>1, <3>4, <3>5, <4>2
    <3>6. CASE u \notin K
      <4>1. \A k \in K : timers[k].task_id # u
        BY <1>k, <1>t, <3>1, <3>6
      <4>2. u \notin TimerTasks(K)
        BY <4>1 DEF TimerTasks
      <4>3. QED
        BY <3>3, <3>4, <3>6, <4>2
    <3>7. QED
      BY <3>5, <3>6
  <2>3. QED
    BY <1>2, <2>1, <2>2 DEF timer_tick_process, timerVars
<1>3. CASE sched_pick \/ interrupt_event_wait \/ Interrupt
  BY <1>3 DEF sched_pick, interrupt_event_wait, Interrupt, timer_tick, interrupt_event_raise, HandlerReturns,
     timerVars
<1>4. QED
  BY <1>1, <1>2, <1>3 DEF SchedStep

\* The scheduler and the handlers keep the signal expected.
LEMMA TimerInvCpuStep ==
  ASSUME TypeInv, TimerInv, SchedStep \/ Interrupt
  PROVE  TimerInv'
<1> SUFFICES ASSUME NEW u \in Tasks PROVE TimerOK(u)'
  BY DEF TimerInv
<1>1. UNCHANGED <<pc, message_queue_waiters, mutex_waiters>> /\ TimerOK(u)
  BY CpuStepEffect DEF queueVars, mutexVars, TimerInv
<1>2. CASE /\ timers'[u] = timers[u]
           /\ TASK_TIMER \in PENDING_SIGNALS'[u] => TASK_TIMER \in PENDING_SIGNALS[u]
  BY <1>1, <1>2 DEF TimerOK
<1>3. CASE /\ timers[u].enabled /\ ~timers'[u].enabled
           /\ timers'[u].task_id = timers[u].task_id /\ timers'[u].signal_set = timers[u].signal_set
           /\ timers'[u].reload = timers[u].reload
  <2>1. pc[u] \in TimerLabels
    BY <1>1, <1>3 DEF TimerOK
  <2>2. pc[u] \in TimerWaits \cup BlockLabels /\ pc[u] \notin {"put_wait", "get_wait", "lock_wait"}
    BY <2>1 DEF TimerLabels, TimedWaits, TimerWaits, PutWaits, GetWaits, BlockLabels
  <2>3. QED
    BY <1>1, <1>3, <2>1, <2>2 DEF TimerOK
<1>4. QED
  BY <1>2, <1>3, CpuStepTimers

LEMMA TimerInvNext == TypeInv /\ WaitInv /\ TimerInv /\ [Next]_vars => TimerInv'
<1> SUFFICES ASSUME TypeInv, WaitInv, TimerInv, [Next]_vars PROVE TimerInv'
  OBVIOUS
<1>1. CASE UNCHANGED vars
  BY <1>1 DEF vars, TimerInv, TimerOK, timerVars, mutexVars, queueVars, frameVars
<1>2. CASE Next
  BY <1>1, <1>2, TimerInvTaskStep, TimerInvAppStep, TimerInvCpuStep DEF Next, Stopped
<1>3. QED
  BY <1>1, <1>2

LEMMA TimerInvInit == Init => TimerInv
<1> SUFFICES ASSUME Init, NEW u \in Tasks PROVE TimerOK(u)
  BY DEF TimerInv
<1>1. timers[u] = TaskTimer(u) /\ PENDING_SIGNALS[u] = {}
  BY TaskTimersOnly DEF Init
<1>2. message_queue_waiters[u] = MESSAGE_QUEUE_ID_NONE /\ mutex_waiters[u] = MUTEX_ID_NONE
  BY DEF Init, QueueInit, MutexInit
<1>3. QED
  BY <1>1, <1>2 DEF TimerOK, TaskTimer

\* The signal that mutexes, queues, sleeps and timeouts share is pending only in
\* a task that is waiting for it, and a task that returns to its application
\* leaves no timer behind: no call takes a signal meant for an earlier one.
THEOREM TimerSignalOnlyWhenExpected == Spec => []TimerSignalIsExpected
<1>1. TypeInv /\ TimerInv => TimerSignalIsExpected
  <2> SUFFICES ASSUME TypeInv, TimerInv, NEW t \in Tasks
               PROVE  /\ TASK_TIMER \in PENDING_SIGNALS[t] => pc[t] \in TimerWaits \cup BlockLabels
                      /\ pc[t] = "app" => ~timers[task_timers(t)].enabled
    BY DEF TimerSignalIsExpected
  <2>1. TimerOK(t) /\ task_timers(t) = t
    BY TaskTimersOnly DEF TimerInv
  <2>2. "app" \notin TimerLabels
    BY DEF TimerLabels, TimedWaits, BlockLabels
  <2>3. QED
    BY <2>1, <2>2 DEF TimerOK
<1>2. Spec => [](TypeInv /\ WaitInv /\ TimerInv)
  BY TypeInit, TypeNext, WaitInvInit, WaitInvNext, TimerInvInit, TimerInvNext, PTL DEF Spec
<1>3. QED
  BY <1>1, <1>2, PTL
-----------------------------------------------------------------------------
(* The wake-ups of the mutexes. *)

(***************************************************************************)
(* The inductive invariant of the locks, for one task: it never waits for  *)
(* a mutex of its own, and asleep it is registered with a mutex that is    *)
(* still held.                                                             *)
(***************************************************************************)
MutexOK(u) ==
    /\ pc[u] \in MutexLabels => holder[obj[u]] # u
    /\ (pc[u] = "lock_wait" /\ Asleep(u)) => (mutex_waiters[u] = obj[u] /\ holder[obj[u]] # TASK_ID_NONE)

MutexInv == \A u \in Tasks : MutexOK(u)

\* How a step of task t changes the mutexes.
MutexEffect(t) ==
    \/ UNCHANGED mutexVars
    \/ \E m \in Mutexes : mutex_take(m, t)
    \/ \E m \in Mutexes : mutex_wait(m, t)
    \/ \E m \in Mutexes : send_task_timer(MutexWaiters(m)) /\ mutex_release(m)

\* TASK_ID_NONE, the holder of a free mutex, is not a task.
LEMMA NoneIsNoTask == TASK_ID_NONE \notin Tasks
  BY NAssumption DEF TASK_ID_NONE, Tasks

\* Every step of a task is of that form.
LEMMA MutexEffects ==
  ASSUME TypeInv, NEW t \in Tasks, TaskStep(t) \/ AppStep(t)
  PROVE  MutexEffect(t)
<1>1. CASE TaskStep(t)
  <2>1. CASE mutex_lock_loop(t)
    <3>1. obj[t] \in Mutexes
      BY <2>1 DEF mutex_lock_loop, Running, TypeInv, FrameTypeOK, MutexLabels
    <3>2. QED
      BY <2>1, <3>1 DEF mutex_lock_loop, MutexEffect
  <2>2. CASE ~mutex_lock_loop(t)
    BY <1>1, <2>2 DEF TaskStep, Entry, BlockTimed, WaitAgain, WaitEnd, message_queue_put_loop,
       message_queue_get_loop, message_queue_put_timeout_loop, message_queue_get_timeout_loop,
       message_queue_wait, message_queue_wait_timeout, GiveUp, TryCallFrame, MutexEffect
  <2>3. QED
    BY <2>1, <2>2
<1>2. CASE AppStep(t)
  <2>1. CASE mutex_unlock(t) \/ mutex_try_lock(t)
    BY <2>1 DEF mutex_unlock, mutex_try_lock, Fatal, MutexEffect
  <2>2. CASE ~(mutex_unlock(t) \/ mutex_try_lock(t))
    BY <1>2, <2>2 DEF AppStep, message_queue_try_put, message_queue_try_get, message_queue_put,
       message_queue_get, message_queue_put_timeout, message_queue_get_timeout, mutex_lock,
       signal_wait_set_call, signal_poll_set, signal_send, sleep, yield_call, interrupt_event_task_set,
       EnterLoop, TryCallFrame, Fatal, MutexEffect
  <2>3. QED
    BY <2>1, <2>2
<1>3. QED
  BY <1>1, <1>2

\* Another task leaves the lock of u as it is, or wakes it when it frees the
\* mutex.
LEMMA OtherLocks ==
  ASSUME TypeInv, WaitInv, MutexInv, NEW t \in Tasks, NEW u \in Tasks \ {t},
         Bystander(u), MutexEffect(t)
  PROVE  MutexOK(u)'
<1>1. /\ pc'[u] = pc[u] /\ obj'[u] = obj[u] /\ requested_signals'[u] = requested_signals[u]
      /\ Asleep(u)' => Asleep(u)
  BY DEF Bystander, Untouched, Asleep, signal_peek
<1>2. MutexOK(u) /\ WaitOK(u) /\ "lock_wait" \in TimerWaits /\ "lock_wait" \in MutexLabels
  BY DEF MutexInv, WaitInv, TimerWaits, MutexLabels
<1>3. pc[u] \in MutexLabels => obj[u] \in Mutexes
  BY DEF TypeInv, FrameTypeOK
<1>h. holder \in [Mutexes -> TaskIdOption] /\ mutex_waiters \in [Tasks -> Mutexes \cup {MUTEX_ID_NONE}]
  BY DEF TypeInv, MutexTypeOK
<1>4. CASE UNCHANGED mutexVars
  BY <1>1, <1>2, <1>4 DEF mutexVars, MutexOK
<1>5. CASE \E m \in Mutexes : mutex_take(m, t)
  <2>1. PICK m \in Mutexes : mutex_take(m, t)
    BY <1>5
  <2>2. holder[m] = TASK_ID_NONE /\ mutex_waiters' = mutex_waiters
        /\ \A n \in Mutexes : holder'[n] = IF n = m THEN t ELSE holder[n]
    BY <1>h, <2>1 DEF mutex_take, MutexFree
  <2>3. t # TASK_ID_NONE
    BY NoneIsNoTask
  <2>4. QED
    BY <1>1, <1>2, <1>3, <2>2, <2>3 DEF MutexOK
<1>6. CASE \E m \in Mutexes : mutex_wait(m, t)
  BY <1>1, <1>2, <1>6, <1>h DEF mutex_wait, MutexOK
<1>7. CASE \E m \in Mutexes : send_task_timer(MutexWaiters(m)) /\ mutex_release(m)
  <2>1. PICK m \in Mutexes : send_task_timer(MutexWaiters(m)) /\ mutex_release(m)
    BY <1>7
  <2>2. \A n \in Mutexes : holder'[n] = IF n = m THEN TASK_ID_NONE ELSE holder[n]
    BY <1>h, <2>1 DEF mutex_release
  <2>3. mutex_waiters[u] # m => mutex_waiters'[u] = mutex_waiters[u]
    BY <2>1 DEF mutex_release, MutexWaiters
  <2>4. mutex_waiters[u] = m => TASK_TIMER \in PENDING_SIGNALS'[u]
    <3>1. MutexWaiters(m) \in SUBSET Tasks /\ (mutex_waiters[u] = m => u \in MutexWaiters(m))
      BY DEF MutexWaiters
    <3>2. QED
      BY <2>1, <3>1, SendTaskTimerEffect
  <2>5. ASSUME pc'[u] = "lock_wait", Asleep(u)'
        PROVE  mutex_waiters'[u] = obj'[u] /\ holder'[obj'[u]] # TASK_ID_NONE
    <3>1. TASK_TIMER \notin PENDING_SIGNALS'[u]
      BY <1>1, <1>2, <2>5 DEF WaitOK, Asleep, signal_peek
    <3>2. mutex_waiters[u] = obj[u] /\ holder[obj[u]] # TASK_ID_NONE /\ obj[u] \in Mutexes
      BY <1>1, <1>2, <1>3, <2>5 DEF MutexOK
    <3>3. QED
      BY <1>1, <2>2, <2>3, <2>4, <3>1, <3>2
  <2>6. pc'[u] \in MutexLabels => holder'[obj'[u]] # u
    BY <1>1, <1>2, <1>3, <2>2, NoneIsNoTask DEF MutexOK
  <2>7. QED
    BY <2>5, <2>6 DEF MutexOK
<1>8. QED
  BY <1>4, <1>5, <1>6, <1>7 DEF MutexEffect

\* A step of t keeps its own lock call in order: it registers with a mutex
\* that is held, or finds the mutex free and is done.
LEMMA OwnLock ==
  ASSUME TypeInv, NEW t \in Tasks, MutexOK(t), TaskStep(t) \/ AppStep(t)
  PROVE  MutexOK(t)'
<1>0. "lock_wait" \in MutexLabels /\ MutexLabels = {"lock", "lock_wait"}
  BY DEF MutexLabels
<1>h. holder \in [Mutexes -> TaskIdOption] /\ mutex_waiters \in [Tasks -> Mutexes \cup {MUTEX_ID_NONE}]
  BY DEF TypeInv, MutexTypeOK
<1>n. ASSUME pc'[t] \notin MutexLabels PROVE MutexOK(t)'
  BY <1>0, <1>n DEF MutexOK
<1>r. ASSUME Return(t) PROVE MutexOK(t)'
  BY <1>0, <1>n, <1>r, OwnFrame
<1>g. ASSUME NEW label \in Labels \ MutexLabels, Goto(t, label) PROVE MutexOK(t)'
  BY <1>g, <1>n, OwnFrame
<1>1. CASE TaskStep(t)
  <2>1. CASE Entry(t)
    BY <1>0, <1>r, <1>n, <2>1, OwnFrame DEF Entry
  <2>2. CASE BlockTimed(t)
    <3>1. pc'[t] = WaitOf[pc[t]] /\ pc[t] \in BlockLabels
      BY <2>2, OwnFrame DEF BlockTimed
    <3>2. QED
      BY <1>0, <1>n, <3>1 DEF BlockLabels, WaitOf
  <2>3. CASE WaitAgain(t)
    BY <2>3 DEF WaitAgain, MutexOK, Asleep, signal_peek, frameVars, mutexVars
  <2>4. CASE WaitEnd(t)
    <3>1. CASE Return(t)
      BY <1>r, <3>1
    <3>2. CASE Goto(t, AfterWait[pc[t]])
      <4>1. pc'[t] = AfterWait[pc[t]] /\ obj'[t] = obj[t] /\ holder' = holder /\ pc[t] \in Waits
        BY <2>4, <3>2, OwnFrame DEF WaitEnd, mutexVars
      <4>2. pc'[t] \in MutexLabels => pc[t] = "lock_wait" /\ pc'[t] = "lock"
        BY <1>0, <4>1 DEF Waits, TimerWaits, PutWaits, GetWaits, AfterWait
      <4>3. QED
        BY <1>0, <1>n, <4>1, <4>2 DEF MutexOK
    <3>3. QED
      BY <2>4, <3>1, <3>2 DEF WaitEnd
  <2>5. CASE mutex_lock_loop(t)
    <3>1. CASE Goto(t, "lock_wait") /\ mutex_wait(obj[t], t)
      <4>1. /\ pc[t] = "lock" /\ pc'[t] = "lock_wait" /\ obj'[t] = obj[t]
            /\ holder' = holder /\ holder[obj[t]] # TASK_ID_NONE
            /\ mutex_waiters' = [mutex_waiters EXCEPT ![t] = obj[t]]
        BY <2>5, <3>1, OwnFrame DEF mutex_lock_loop, Running, mutex_wait, MutexFree
      <4>2. mutex_waiters'[t] = obj[t]
        BY <1>h, <4>1
      <4>3. holder[obj[t]] # t
        BY <1>0, <4>1 DEF MutexOK
      <4>4. QED
        BY <4>1, <4>2, <4>3 DEF MutexOK
    <3>2. QED
      BY <1>r, <2>5, <3>1 DEF mutex_lock_loop
  <2>6. CASE message_queue_put_loop(t) \/ message_queue_get_loop(t)
    BY <1>0, <1>r, <1>n, <2>6, OwnFrame DEF message_queue_put_loop, message_queue_get_loop, message_queue_wait
  <2>7. CASE message_queue_put_timeout_loop(t) \/ message_queue_get_timeout_loop(t)
    BY <1>0, <1>r, <1>n, <2>7, OwnFrame DEF message_queue_put_timeout_loop, message_queue_get_timeout_loop,
       message_queue_wait_timeout, GiveUp
  <2>8. QED
    BY <1>1, <2>1, <2>2, <2>3, <2>4, <2>5, <2>6, <2>7 DEF TaskStep
<1>2. CASE AppStep(t)
  <2>1. CASE mutex_lock(t)
    <3>1. PICK m \in Mutexes : Fatal \/ (holder[m] # t /\ EnterLoop(t, "lock", m, 0, NoMessage))
      BY <2>1 DEF mutex_lock
    <3>2. pc[t] = "app"
      BY <1>2, AppStepEffect
    <3>3. CASE Fatal
      BY <1>0, <1>n, <3>2, <3>3, OwnFrame DEF Fatal
    <3>4. CASE holder[m] # t /\ EnterLoop(t, "lock", m, 0, NoMessage)
      BY <3>4, OwnFrame DEF EnterLoop, mutexVars, MutexOK
    <3>5. QED
      BY <3>1, <3>3, <3>4
  <2>2. CASE ~mutex_lock(t)
    <3>1. pc'[t] \in {"app", "put", "get", "put_timeout", "get_timeout", "signal_wait", "sleep_block"}
      BY <1>2, <2>2, AppStepEffect, OwnFrame DEF AppStep, message_queue_try_put, message_queue_try_get, message_queue_put,
         message_queue_get, message_queue_put_timeout, message_queue_get_timeout, mutex_unlock, mutex_try_lock,
         signal_wait_set_call, signal_poll_set, signal_send, sleep, yield_call, interrupt_event_task_set,
         EnterLoop, Fatal
    <3>2. QED
      BY <1>0, <1>n, <3>1
  <2>3. QED
    BY <2>1, <2>2
<1>3. QED
  BY <1>1, <1>2

\* Every step of Rigel keeps the lock calls in order.
LEMMA MutexInvNext == TypeInv /\ WaitInv /\ MutexInv /\ [Next]_vars => MutexInv'
<1> SUFFICES ASSUME TypeInv, WaitInv, MutexInv, [Next]_vars, NEW u \in Tasks PROVE MutexOK(u)'
  BY DEF MutexInv
<1>1. MutexOK(u)
  BY DEF MutexInv
<1>2. CASE UNCHANGED vars
  BY <1>1, <1>2 DEF vars, MutexOK, Asleep, signal_peek, frameVars, mutexVars
<1>3. ASSUME NEW t \in Tasks, TaskStep(t) \/ AppStep(t)
      PROVE  MutexOK(u)'
  BY <1>1, <1>3, OwnLock, OtherLocks, MutexEffects, TaskStepEffect, AppStepEffect
<1>4. CASE SchedStep \/ Interrupt
  <2>1. /\ UNCHANGED <<pc, obj, requested_signals, mutexVars>>
        /\ PENDING_SIGNALS[u] \subseteq PENDING_SIGNALS'[u]
    BY <1>4, CpuStepEffect
  <2>2. Asleep(u)' => Asleep(u)
    BY <2>1 DEF Asleep, signal_peek
  <2>3. QED
    BY <1>1, <2>1, <2>2 DEF MutexOK, mutexVars
<1>5. QED
  BY <1>2, <1>3, <1>4 DEF Next, Stopped

LEMMA MutexInvInit == Init => MutexInv
  BY DEF Init, MutexInv, MutexOK, MutexLabels

\* mutex_unlock loses no wake-up in the cooperative variant: a task asleep in
\* a lock is registered with the mutex, which another task holds.
THEOREM MutexWakeups == Spec => []MutexWaitersRegistered
<1>1. MutexInv => MutexWaitersRegistered
  BY DEF MutexInv, MutexOK, MutexLabels, MutexWaitersRegistered
<1>2. Spec => []MutexInv
  BY MutexInvInit, MutexInvNext, WaitsCorrect, PTL DEF Spec
<1>3. QED
  BY <1>1, <1>2, PTL
-----------------------------------------------------------------------------
(* Which tasks are blocked. *)

(***************************************************************************)
(* The inductive invariant of the scheduler's flags: only tasks that wait  *)
(* for a signal they have not been sent are blocked, so neither the task   *)
(* that has the CPU nor anyone with a reason to run is.                    *)
(***************************************************************************)
BlockedIsAsleep == \A u \in Tasks : ~runnable[u] => Asleep(u)

RunInv ==
    /\ BlockedIsAsleep
    /\ phase = "task" => runnable[current_task]
    /\ phase \in {"wait", "idle"} => \A u \in Tasks : ~runnable[u]
    /\ phase = "idle" => (interrupt_event = {} /\ timer_pending_ticks = 0)

\* A step leaves task u's signals and flag alone, or makes it runnable.
KeptOrWoken(u) ==
    \/ PENDING_SIGNALS'[u] = PENDING_SIGNALS[u] /\ runnable'[u] = runnable[u]
    \/ runnable'[u]

\* signal_send_set makes its recipients runnable.
LEMMA SendWakes ==
  ASSUME TypeInv, NEW T \in SUBSET Tasks, NEW sigs, signal_send_set(T, sigs)
  PROVE  \A u \in Tasks : KeptOrWoken(u) /\ (runnable[u] => runnable'[u])
<1>1. \A u \in Tasks : runnable'[u] = (u \in T \/ runnable[u])
  BY DEF signal_send_set, sched_set_runnable
<1>2. \A u \in Tasks : u \notin T => PENDING_SIGNALS'[u] = PENDING_SIGNALS[u]
  BY SendEffect
<1>3. runnable \in [Tasks -> BOOLEAN]
  BY DEF TypeInv, SchedTypeOK
<1>4. QED
  BY <1>1, <1>2, <1>3 DEF KeptOrWoken

LEMMA TaskTimerWakes ==
  ASSUME TypeInv, NEW W \in SUBSET Tasks, send_task_timer(W)
  PROVE  \A u \in Tasks : KeptOrWoken(u) /\ (runnable[u] => runnable'[u])
<1> DEFINE sigs == [u \in W |-> {TASK_TIMER}]
<1>1. signal_send_set(W, sigs)
  BY DEF send_task_timer
<1> HIDE DEF sigs
<1>2. QED
  BY <1>1, SendWakes

LEMMA OneshotWakes ==
  ASSUME TypeInv, NEW t \in Tasks, NEW timeout, timer_oneshot(t, timeout)
  PROVE  \A u \in Tasks : KeptOrWoken(u) /\ (runnable[u] => runnable'[u])
<1>1. send_task_timer({t}) \/ UNCHANGED <<PENDING_SIGNALS, runnable>>
  BY DEF timer_oneshot
<1>2. {t} \in SUBSET Tasks
  OBVIOUS
<1>3. QED
  BY <1>1, <1>2, TaskTimerWakes DEF KeptOrWoken

\* What a step of task t does to the flags: it wakes others, and blocks only
\* itself, when it sleeps and yields.
RunSide(t) ==
    /\ phase' \in {"task", "events", "fatal"}
    /\ current_task' = t
    /\ \A u \in Tasks \ {t} : KeptOrWoken(u)
    /\ runnable'[t] \/ (phase' = "events" /\ Asleep(t)')

\* signal_wait_set blocks a task only without any of the signals it waits for.
LEMMA WaitSide ==
  ASSUME TypeInv, NEW t \in Tasks, runnable[t], phase = "task", t = current_task,
         NEW requested, signal_wait_set(t, requested), UNCHANGED PENDING_SIGNALS, pc'[t] \in Waits
  PROVE  RunSide(t)
<1>1. requested_signals'[t] = requested
  BY DEF signal_wait_set, TypeInv, CpuTypeOK
<1>2. runnable \in [Tasks -> BOOLEAN]
  BY DEF TypeInv, SchedTypeOK
<1>3. /\ phase' = "events" /\ current_task' = t
      /\ \A u \in Tasks \ {t} : runnable'[u] = runnable[u]
  BY <1>2 DEF signal_wait_set, block, yield, sched_set_blocked
<1>4. signal_peek(t, requested) => runnable'[t]
  BY DEF signal_wait_set
<1>5. ~signal_peek(t, requested) => Asleep(t)'
  BY <1>1 DEF signal_peek, Asleep
<1>6. QED
  BY <1>3, <1>4, <1>5 DEF RunSide, KeptOrWoken

\* Every step of a task is of that form.
LEMMA RunSides ==
  ASSUME TypeInv, RunInv, NEW t \in Tasks, TaskStep(t) \/ AppStep(t)
  PROVE  RunSide(t)
<1>0. phase = "task" /\ t = current_task /\ runnable[t]
  BY TaskStepEffect, AppStepEffect DEF RunInv
<1>k. ASSUME UNCHANGED <<PENDING_SIGNALS, runnable>>, phase' \in {"task", "events", "fatal"}, current_task' = t
      PROVE  RunSide(t)
  BY <1>0, <1>k DEF RunSide, KeptOrWoken
<1>w. ASSUME \A u \in Tasks : KeptOrWoken(u) /\ (runnable[u] => runnable'[u]), UNCHANGED cpuVars
      PROVE  RunSide(t)
  BY <1>0, <1>w DEF RunSide, cpuVars
<1>v. ASSUME signal_recv(t, requested_signals[t]) \/ \E requested : signal_recv(t, requested),
             UNCHANGED <<runnable, cpuVars>>
      PROVE  RunSide(t)
  BY <1>0, <1>v DEF signal_recv, RunSide, KeptOrWoken, cpuVars, TypeInv, SignalTypeOK
<1>f. ASSUME Fatal PROVE RunSide(t)
  BY <1>0, <1>f, <1>k DEF Fatal
<1>e. ASSUME NEW label, NEW o, NEW a, NEW m, EnterLoop(t, label, o, a, m) PROVE RunSide(t)
  BY <1>0, <1>e, <1>k DEF EnterLoop, cpuVars
<1>p. ASSUME NEW q, NEW m, put_message(q, m), TryCallFrame PROVE RunSide(t)
  <2>1. PutWakes(q) \in SUBSET Tasks
    BY DEF PutWakes, Registered
  <2>2. QED
    BY <1>p, <1>w, <2>1, TaskTimerWakes DEF put_message, TryCallFrame
<1>g. ASSUME NEW q, get_message(q, t), TryCallFrame PROVE RunSide(t)
  <2>1. GetWakes(q) \in SUBSET Tasks
    BY DEF GetWakes, Registered
  <2>2. QED
    BY <1>g, <1>w, <2>1, TaskTimerWakes DEF get_message, TryCallFrame
<1>1. CASE TaskStep(t)
  <2>1. CASE Entry(t)
    <3>1. CASE Goto(t, "start_wait") /\ signal_wait_set(t, {RTOS_UTIL})
      BY <1>0, <2>1, <3>1, OwnFrame, WaitSide DEF Entry, Waits
    <3>2. QED
      BY <1>0, <1>k, <2>1, <3>1 DEF Entry, yield
  <2>2. CASE BlockTimed(t)
    <3>1. pc'[t] \in Waits
      BY <2>2, OwnFrame DEF BlockTimed, BlockLabels, WaitOf, Waits, TimerWaits, PutWaits, GetWaits
    <3>2. QED
      BY <1>0, <2>2, <3>1, WaitSide DEF BlockTimed
  <2>3. CASE WaitAgain(t)
    <3>1. Asleep(t)' /\ phase' = "events" /\ current_task' = t /\ PENDING_SIGNALS' = PENDING_SIGNALS
      BY <1>0, <2>3 DEF WaitAgain, Asleep, signal_peek, frameVars, block, yield
    <3>2. \A u \in Tasks \ {t} : runnable'[u] = runnable[u]
      BY <2>3 DEF WaitAgain, block, sched_set_blocked, TypeInv, SchedTypeOK
    <3>3. QED
      BY <3>1, <3>2 DEF RunSide, KeptOrWoken
  <2>4. CASE WaitEnd(t)
    BY <1>v, <2>4 DEF WaitEnd
  <2>5. CASE mutex_lock_loop(t)
    <3>1. CASE Goto(t, "lock_wait") /\ signal_wait_set(t, {TASK_TIMER})
      BY <1>0, <2>5, <3>1, OwnFrame, WaitSide DEF mutex_lock_loop, Waits, TimerWaits
    <3>2. QED
      BY <1>0, <1>k, <2>5, <3>1 DEF mutex_lock_loop, cpuVars
  <2>w. ASSUME NEW label \in {"put_wait", "get_wait"}, message_queue_wait(t, label) PROVE RunSide(t)
    <3>1. pc'[t] \in Waits
      BY <2>w, OwnFrame DEF message_queue_wait, Waits, TimerWaits, PutWaits, GetWaits
    <3>2. QED
      BY <1>0, <2>w, <3>1, WaitSide DEF message_queue_wait
  <2>t. ASSUME NEW label, message_queue_wait_timeout(t, label) PROVE RunSide(t)
    BY <1>w, <2>t, OneshotWakes DEF message_queue_wait_timeout
  <2>u. ASSUME GiveUp(t) PROVE RunSide(t)
    BY <1>0, <1>k, <2>u DEF GiveUp, TryCallFrame, cpuVars
  <2>6. CASE message_queue_put_loop(t) \/ message_queue_get_loop(t)
    BY <1>p, <1>g, <2>w, <2>6 DEF message_queue_put_loop, message_queue_get_loop
  <2>7. CASE message_queue_put_timeout_loop(t) \/ message_queue_get_timeout_loop(t)
    BY <1>p, <1>g, <2>t, <2>u, <2>7 DEF message_queue_put_timeout_loop, message_queue_get_timeout_loop
  <2>8. QED
    BY <1>1, <2>1, <2>2, <2>3, <2>4, <2>5, <2>6, <2>7 DEF TaskStep
<1>2. CASE AppStep(t)
  <2>1. CASE message_queue_try_put(t) \/ message_queue_try_get(t)
    BY <1>p, <1>g, <2>1 DEF message_queue_try_put, message_queue_try_get
  <2>2. CASE \/ message_queue_put(t) \/ message_queue_get(t)
             \/ message_queue_put_timeout(t) \/ message_queue_get_timeout(t) \/ mutex_lock(t)
    BY <1>e, <1>f, <2>2 DEF message_queue_put, message_queue_get, message_queue_put_timeout,
       message_queue_get_timeout, mutex_lock
  <2>3. CASE mutex_unlock(t)
    <3>1. \A m : MutexWaiters(m) \in SUBSET Tasks
      BY DEF MutexWaiters
    <3>2. QED
      BY <1>f, <1>w, <2>3, <3>1, TaskTimerWakes DEF mutex_unlock
  <2>4. CASE mutex_try_lock(t) \/ interrupt_event_task_set(t)
    BY <1>0, <1>k, <2>4 DEF mutex_try_lock, interrupt_event_task_set, cpuVars
  <2>5. CASE signal_wait_set_call(t)
    <3>1. PICK requested : Goto(t, "signal_wait") /\ signal_wait_set(t, requested) /\ UNCHANGED PENDING_SIGNALS
      BY <2>5 DEF signal_wait_set_call
    <3>2. QED
      BY <1>0, <3>1, OwnFrame, WaitSide DEF Waits
  <2>6. CASE signal_poll_set(t)
    BY <1>v, <2>6 DEF signal_poll_set
  <2>7. CASE signal_send(t)
    <3>1. \A x \in Recipients : {x} \in SUBSET Tasks
      BY RigelAssumption
    <3>2. QED
      BY <1>w, <2>7, <3>1, SendWakes DEF signal_send
  <2>8. CASE sleep(t)
    BY <1>w, <2>8, OneshotWakes DEF sleep
  <2>9. CASE yield_call(t)
    BY <1>0, <1>k, <2>9 DEF yield_call, yield
  <2>10. QED
    BY <1>2, <2>1, <2>2, <2>3, <2>4, <2>5, <2>6, <2>7, <2>8, <2>9 DEF AppStep
<1>3. QED
  BY <1>1, <1>2

\* A step of a task keeps the invariant of the flags.
LEMMA RunInvTask ==
  ASSUME TypeInv, RunInv, NEW t \in Tasks, TaskStep(t) \/ AppStep(t)
  PROVE  RunInv'
<1>1. RunSide(t)
  BY RunSides
<1>2. \A u \in Tasks \ {t} : Bystander(u)
  BY TaskStepEffect, AppStepEffect
<1>3. ASSUME NEW u \in Tasks, ~runnable'[u]
      PROVE  Asleep(u)'
  <2>1. CASE u = t
    BY <1>1, <1>3, <2>1 DEF RunSide
  <2>2. CASE u # t
    <3>1. PENDING_SIGNALS'[u] = PENDING_SIGNALS[u] /\ ~runnable[u]
      BY <1>1, <1>3, <2>2 DEF RunSide, KeptOrWoken
    <3>2. Asleep(u) /\ pc'[u] = pc[u] /\ requested_signals'[u] = requested_signals[u]
      BY <1>2, <2>2, <3>1 DEF RunInv, BlockedIsAsleep, Bystander, Untouched
    <3>3. QED
      BY <3>1, <3>2 DEF Asleep, signal_peek
  <2>3. QED
    BY <2>1, <2>2
<1>4. QED
  BY <1>1, <1>3 DEF RunSide, RunInv, BlockedIsAsleep

\* A step of the scheduler or of a handler keeps the invariant of the flags.
LEMMA RunInvCpu ==
  ASSUME TypeInv, RunInv, SchedStep \/ Interrupt
  PROVE  RunInv'
<1>1. UNCHANGED <<pc, requested_signals>>
  BY CpuStepEffect
<1>2. \A u \in Tasks : KeptOrWoken(u)
  <2>1. CASE interrupt_event_process
    <3>1. EventTasks(event_task, interrupt_event) \in SUBSET Tasks
      BY EventsTyped DEF TypeInv
    <3>2. QED
      BY <2>1, <3>1, SendWakes DEF interrupt_event_process
  <2>2. CASE timer_tick_process
    <3> DEFINE K == Expired((timer_current_ticks + 1) % TicksAbsoluteMod)
    <3>1. TimerTasks(K) \in SUBSET Tasks
      BY ExpiredTyped DEF Expired, TypeInv
    <3>2. UNCHANGED <<PENDING_SIGNALS, runnable>> \/ signal_send_set(TimerTasks(K), TimerSignals(K))
      BY <2>2 DEF timer_tick_process
    <3> HIDE DEF K
    <3>3. QED
      BY <3>1, <3>2, SendWakes DEF KeptOrWoken
  <2>3. CASE sched_pick \/ interrupt_event_wait \/ Interrupt
    BY <2>3 DEF sched_pick, interrupt_event_wait, Interrupt, timer_tick, interrupt_event_raise, HandlerReturns,
       KeptOrWoken
  <2>4. QED
    BY <2>1, <2>2, <2>3 DEF SchedStep
<1>3. BlockedIsAsleep'
  BY <1>1, <1>2 DEF RunInv, BlockedIsAsleep, KeptOrWoken, Asleep, signal_peek
<1>4. CASE interrupt_event_process \/ timer_tick_process
  <2>1. phase' \in {"ticks", "pick", "fatal"}
    BY <1>4 DEF interrupt_event_process, timer_tick_process
  <2>2. QED
    BY <1>3, <2>1 DEF RunInv
<1>5. CASE sched_pick
  <2>1. SchedTypeOK /\ runnable' = runnable
    BY <1>5 DEF sched_pick, TypeInv
  <2>2. CASE sched_get_next = TASK_ID_NONE
    <3>1. phase' = "wait" /\ \A u \in Tasks : ~runnable[u]
      BY <1>5, <2>1, <2>2, RoundRobin DEF sched_pick
    <3>2. QED
      BY <1>3, <2>1, <3>1 DEF RunInv
  <2>3. CASE sched_get_next # TASK_ID_NONE
    <3>1. phase' = "task" /\ current_task' = sched_get_next /\ runnable[sched_get_next]
      BY <1>5, <2>1, <2>3, RoundRobin DEF sched_pick
    <3>2. QED
      BY <1>3, <2>1, <3>1 DEF RunInv
  <2>4. QED
    BY <2>2, <2>3
<1>6. CASE interrupt_event_wait
  BY <1>3, <1>6 DEF interrupt_event_wait, RunInv, interruptVars
<1>7. CASE Interrupt
  <2>1. HandlerReturns
    BY <1>7 DEF Interrupt, timer_tick, interrupt_event_raise
  <2>2. QED
    BY <1>3, <2>1 DEF HandlerReturns, RunInv
<1>8. QED
  BY <1>4, <1>5, <1>6, <1>7 DEF SchedStep

\* Every step of Rigel keeps the invariant of the flags.
LEMMA RunInvNext == TypeInv /\ RunInv /\ [Next]_vars => RunInv'
<1> SUFFICES ASSUME TypeInv, RunInv, [Next]_vars PROVE RunInv'
  OBVIOUS
<1>1. CASE UNCHANGED vars
  BY <1>1 DEF vars, RunInv, BlockedIsAsleep, Asleep, signal_peek, interruptVars, frameVars, cpuVars
<1>2. CASE Next
  BY <1>1, <1>2, RunInvTask, RunInvCpu DEF Next, Stopped
<1>3. QED
  BY <1>1, <1>2

LEMMA RunInvInit == Init => RunInv
<1> SUFFICES ASSUME Init PROVE RunInv
  OBVIOUS
<1>1. 0 \in Tasks /\ \A u \in Tasks : runnable[u]
  BY NAssumption DEF Init, Tasks
<1>2. QED
  BY <1>1 DEF Init, RunInv, BlockedIsAsleep

\* interrupt_event_wait reaches wfi only with nothing left to do: no task that
\* has been sent a signal is left out by the round robin.
THEOREM IdleCorrect == Spec => []IdleHasNoWork
<1>1. RunInv => IdleHasNoWork
  BY DEF RunInv, BlockedIsAsleep, IdleHasNoWork
<1>2. Spec => [](TypeInv /\ RunInv)
  BY TypeInit, TypeNext, RunInvInit, RunInvNext, PTL DEF Spec
<1>3. QED
  BY <1>1, <1>2, PTL
-----------------------------------------------------------------------------
(* The task timers of the sleeps and of the calls with a timeout. *)

\* Where a task sleeps, or is about to, until its timer signals it.
Sleeps == TimedWaits \cup {"put_timeout_block", "get_timeout_block", "sleep_block", "sleep_wait"}

\* The absolute timeout that a call keeps is the true one, and the counter has
\* either not reached it, or passed it, or left it behind by a wrap.
ClockOK(u) == pc[u] \in TimedLabels => OnClock(u, arg[u])

(***************************************************************************)
(* The inductive invariant of the timed waits, for one task: from the      *)
(* start of its timer to the end of its wait it has been signalled, or its *)
(* timer is running until its time is up.                                  *)
(***************************************************************************)
ArmOK(u) == pc[u] \in Sleeps => (TASK_TIMER \in PENDING_SIGNALS[u] \/ ExpiresInTime(u))

ArmInv == TimeLeftTypeOK /\ \A u \in Tasks : ClockOK(u) /\ ArmOK(u)

\* Only these places need a timer.
LEMMA NeedsNoTimer ==
  ASSUME NEW u, \/ pc'[u] \in Waits \ (TimedWaits \cup {"sleep_wait"})
                \/ pc'[u] \in LoopLabels \cup {"entry", "app"}
  PROVE  ArmOK(u)'
<1>1. pc'[u] \notin Sleeps
  BY DEF Sleeps, TimedWaits, LoopLabels, Waits, TimerWaits, PutWaits, GetWaits
<1>2. QED
  BY <1>1 DEF ArmOK

\* A task's steps do not advance the ticks, and leave the timeouts of the
\* other tasks.
LEMMA TicksKept ==
  ASSUME TypeInv, TimeLeftTypeOK, NEW t \in Tasks, TaskStep(t) \/ AppStep(t)
  PROVE  /\ UNCHANGED timer_current_ticks
         /\ \A u \in Tasks \ {t} : arg'[u] = arg[u] /\ time_left'[u] = time_left[u]
<1>f. ASSUME NEW u \in Tasks \ {t},
             \/ \E label, o, a, m : Frame(t, label, o, a, m)
             \/ Return(t)
             \/ \E label : Goto(t, label)
             \/ UNCHANGED frameVars
      PROVE  arg'[u] = arg[u]
  BY <1>f DEF Frame, Return, Goto, frameVars, TypeInv, FrameTypeOK
<1>t. \A u \in Tasks \ {t} : time_left'[u] = time_left[u]
  BY TimeLeftSteps DEF StartTimeout, EndTimeout, TimeLeftTypeOK
<1>1. CASE TaskStep(t)
  <2>1. UNCHANGED timer_current_ticks
    BY <1>1 DEF TaskStep, Entry, BlockTimed, WaitAgain, WaitEnd, mutex_lock_loop, message_queue_put_loop,
       message_queue_get_loop, message_queue_put_timeout_loop, message_queue_get_timeout_loop, message_queue_wait,
       message_queue_wait_timeout, GiveUp, TryCallFrame, timerVars
  <2>2. Return(t) \/ (\E label : Goto(t, label)) \/ UNCHANGED frameVars
    BY <1>1 DEF TaskStep, Entry, BlockTimed, WaitAgain, WaitEnd, mutex_lock_loop, message_queue_put_loop,
       message_queue_get_loop, message_queue_put_timeout_loop, message_queue_get_timeout_loop, message_queue_wait,
       message_queue_wait_timeout, GiveUp
  <2>3. QED
    BY <1>f, <1>t, <2>1, <2>2
<1>2. CASE AppStep(t)
  <2>1. UNCHANGED timer_current_ticks
    BY <1>2 DEF AppStep, message_queue_try_put, message_queue_try_get, message_queue_put, message_queue_get,
       message_queue_put_timeout, message_queue_get_timeout, mutex_lock, mutex_unlock, mutex_try_lock,
       signal_wait_set_call, signal_poll_set, signal_send, sleep, yield_call, interrupt_event_task_set,
       EnterLoop, Fatal, TryCallFrame, timerVars
  <2>2. \/ \E label, o, a, m : Frame(t, label, o, a, m)
        \/ \E label : Goto(t, label)
        \/ UNCHANGED frameVars
    BY <1>2 DEF AppStep, message_queue_try_put, message_queue_try_get, message_queue_put, message_queue_get,
       message_queue_put_timeout, message_queue_get_timeout, mutex_lock, mutex_unlock, mutex_try_lock,
       signal_wait_set_call, signal_poll_set, signal_send, sleep, yield_call, interrupt_event_task_set,
       EnterLoop, Fatal
  <2>3. QED
    BY <1>f, <1>t, <2>1, <2>2
<1>3. QED
  BY <1>1, <1>2

\* A call computes its absolute timeout once and keeps it until it returns.
LEMMA ClockOwn ==
  ASSUME TypeInv, TimeLeftTypeOK, NEW t \in Tasks, ClockOK(t), TaskStep(t) \/ AppStep(t)
  PROVE  ClockOK(t)'
<1> SUFFICES ASSUME pc'[t] \in TimedLabels PROVE OnClock(t, arg[t])'
  BY DEF ClockOK
<1>p. UNCHANGED timer_current_ticks
  BY TicksKept
<1>k. ASSUME pc[t] \in TimedLabels, arg'[t] = arg[t], UNCHANGED time_left
      PROVE  OnClock(t, arg[t])'
  BY <1>k, <1>p DEF ClockOK, OnClock
<1>t. /\ TimedLabels = {"put_timeout", "put_timeout_block", "put_timeout_wait",
                        "get_timeout", "get_timeout_block", "get_timeout_wait"}
      /\ pc \in [Tasks -> Labels] /\ DOMAIN arg = Tasks
  BY DEF TimedLabels, TimedWaits, TypeInv, FrameTypeOK
<1>1. CASE TaskStep(t)
  <2>r. ~Return(t)
    BY <1>t DEF Return, Frame
  <2>1. CASE BlockTimed(t)
    <3>1. pc[t] \in BlockLabels /\ pc'[t] = WaitOf[pc[t]] /\ arg'[t] = arg[t] /\ UNCHANGED time_left
      BY <2>1, <1>t DEF BlockTimed, Goto, Frame, timerVars
    <3>2. pc[t] \in TimedLabels
      BY <1>t, <3>1 DEF BlockLabels, WaitOf
    <3>3. QED
      BY <3>1, <3>2, <1>k
  <2>2. CASE WaitAgain(t)
    BY <2>2, <1>k DEF WaitAgain, frameVars, timerVars
  <2>3. CASE WaitEnd(t)
    <3>1. /\ pc[t] \in Waits /\ pc'[t] = AfterWait[pc[t]] /\ arg'[t] = arg[t] /\ UNCHANGED time_left
      BY <2>3, <2>r, <1>t DEF WaitEnd, Goto, Frame
    <3>2. pc[t] \in TimedLabels
      BY <1>t, <3>1 DEF Waits, TimerWaits, PutWaits, GetWaits, AfterWait
    <3>3. QED
      BY <3>1, <3>2, <1>k
  <2>4. CASE message_queue_put_timeout_loop(t) \/ message_queue_get_timeout_loop(t)
    <3>1. /\ pc[t] \in {"put_timeout", "get_timeout"}
          /\ \E label : message_queue_wait_timeout(t, label)
      BY <2>4, <2>r DEF message_queue_put_timeout_loop, message_queue_get_timeout_loop, GiveUp, Running
    <3>2. arg'[t] = arg[t] /\ UNCHANGED time_left
      BY <1>t, <3>1 DEF message_queue_wait_timeout, Goto, Frame
    <3>3. QED
      BY <1>t, <1>k, <3>1, <3>2
  <2>5. QED
    BY <1>1, <1>t, <2>r, <2>1, <2>2, <2>3, <2>4 DEF TaskStep, Entry, mutex_lock_loop, message_queue_put_loop,
       message_queue_get_loop, message_queue_wait, Goto, Frame
<1>2. CASE AppStep(t)
  <2>1. pc[t] = "app"
    BY <1>2, AppStepEffect
  <2>2. CASE message_queue_put_timeout(t) \/ message_queue_get_timeout(t)
    <3>1. PICK timeout \in Timeouts : /\ arg'[t] = (timer_current_ticks + timeout) % TicksAbsoluteMod
                                      /\ StartTimeout(t, timeout)
      BY <1>t, <2>1, <2>2 DEF message_queue_put_timeout, message_queue_get_timeout, EnterLoop, AbsoluteTimeout,
         Fatal, frameVars, Frame
    <3>2. timeout \in TicksRelative
      BY RigelAssumption
    <3>3. QED
      BY <3>1, <3>2, <1>p, ClockStarts DEF OnClock, TypeInv
  <2>3. QED
    BY <1>2, <1>t, <2>1, <2>2 DEF AppStep, message_queue_try_put, message_queue_try_get, message_queue_put,
       message_queue_get, mutex_lock, mutex_unlock, mutex_try_lock, signal_wait_set_call, signal_poll_set,
       signal_send, sleep, yield_call, interrupt_event_task_set, EnterLoop, Fatal, frameVars, Goto, Frame
<1>3. QED
  BY <1>1, <1>2

\* timer_oneshot signals the task at once or starts its timer.
LEMMA OneshotStarts ==
  ASSUME TypeInv, NEW t \in Tasks, NEW timeout, timer_oneshot(t, timeout)
  PROVE  \/ TASK_TIMER \in PENDING_SIGNALS'[t]
         \/ timeout # 0 /\ timers'[task_timers(t)] = timer_start_oneshot(timers[task_timers(t)], timeout)
<1>1. task_timers(t) = t /\ timers \in [Tasks -> TimerRecord]
  BY TaskTimersOnly DEF TypeInv, TimerTypeOK
<1>2. CASE timeout = 0
  <2>1. send_task_timer({t}) /\ {t} \in SUBSET Tasks
    BY <1>2 DEF timer_oneshot
  <2>2. QED
    BY <2>1, SendTaskTimerEffect
<1>3. CASE timeout # 0
  BY <1>1, <1>3 DEF timer_oneshot
<1>4. QED
  BY <1>2, <1>3

\* A loop of a call with a timeout starts the timer for the time that is left.
LEMMA LoopArms ==
  ASSUME TypeInv, TimeLeftTypeOK, NEW t \in Tasks, OnClock(t, arg[t]), arg[t] > timer_current_ticks,
         NEW label, message_queue_wait_timeout(t, label)
  PROVE  ArmOK(t)'
<1>1. UNCHANGED <<timer_current_ticks, time_left>> /\ timer_oneshot(t, Remaining(t))
  BY DEF message_queue_wait_timeout
<1>2. TimerTypeOK /\ timers[task_timers(t)] \in TimerRecord /\ arg[t] \in TicksAbsolute
  BY TaskTimersOnly DEF TypeInv, TimerTypeOK, FrameTypeOK
<1> DEFINE tm == timer_start_oneshot(timers[task_timers(t)], Remaining(t))
<1>3. /\ tm.enabled
      /\ time_left[t] # WRAPPED => /\ time_left[t] > 0
                                   /\ tm.expiry = (timer_current_ticks + time_left[t]) % TicksTimeoutMod
  BY <1>2, TimerInTime DEF Remaining
<1>4. TASK_TIMER \in PENDING_SIGNALS'[t] \/ timers'[task_timers(t)] = tm
  BY <1>1, OneshotStarts
<1> HIDE DEF tm
<1>5. QED
  BY <1>1, <1>3, <1>4 DEF ArmOK, ExpiresInTime

\* sleep starts the timer for its argument.
LEMMA SleepArms ==
  ASSUME TypeInv, TimeLeftTypeOK, NEW t \in Tasks, sleep(t)
  PROVE  ArmOK(t)'
<1>1. PICK ticks \in Timeouts : timer_oneshot(t, ticks) /\ StartTimeout(t, ticks) /\ UNCHANGED timer_current_ticks
  BY DEF sleep
<1>2. ticks \in TicksRelative /\ timers[task_timers(t)] \in TimerRecord /\ TimerTypeOK
  BY RigelAssumption, TaskTimersOnly DEF TypeInv, TimerTypeOK
<1>3. TicksTimeoutMod \in Nat \ {0} /\ timer_current_ticks \in Int /\ ticks \in Int /\ ticks >= 0
      /\ ticks < TicksTimeoutMod
  BY <1>2, TimerAssumption DEF TimerTypeOK, TicksAbsolute, TicksRelative
<1>4. time_left'[t] = ticks
  BY <1>1 DEF StartTimeout, TimeLeftTypeOK
<1> DEFINE a == timer_current_ticks + ticks
           tm == timer_start_oneshot(timers[task_timers(t)], ticks)
<1>5. a \in Int /\ ticks = (a - timer_current_ticks) % TicksTimeoutMod
  BY <1>3
<1>6. tm.enabled /\ tm.expiry = a % TicksTimeoutMod
  BY <1>2, <1>5, OneshotExpiry
<1>7. TASK_TIMER \in PENDING_SIGNALS'[t] \/ (ticks # 0 /\ timers'[task_timers(t)] = tm)
  BY <1>1, OneshotStarts
<1> HIDE DEF tm
<1>8. QED
  BY <1>1, <1>3, <1>4, <1>6, <1>7 DEF ArmOK, ExpiresInTime

\* The steps of a task, seen by the task itself.
LEMMA ArmOwn ==
  ASSUME TypeInv, TimeLeftTypeOK, NEW t \in Tasks, ClockOK(t), ArmOK(t), TaskStep(t) \/ AppStep(t)
  PROVE  ArmOK(t)'
<1>k. UNCHANGED timer_current_ticks
  BY TicksKept
<1>a. ASSUME pc'[t] = "app" PROVE ArmOK(t)'
  BY <1>a, NeedsNoTimer
<1>l. ASSUME pc'[t] \in LoopLabels PROVE ArmOK(t)'
  BY <1>l, NeedsNoTimer
<1>w. ASSUME pc'[t] \in {"start_wait", "signal_wait", "put_wait", "get_wait", "lock_wait"} PROVE ArmOK(t)'
  <2>1. pc'[t] \in Waits \ (TimedWaits \cup {"sleep_wait"})
    BY <1>w DEF Waits, TimerWaits, PutWaits, GetWaits, TimedWaits
  <2>2. QED
    BY <2>1, NeedsNoTimer
<1>1. CASE TaskStep(t)
  <2>1. CASE Entry(t)
    BY <1>a, <1>w, <2>1, OwnFrame DEF Entry
  <2>2. CASE BlockTimed(t)
    <3>1. pc[t] \in BlockLabels /\ UNCHANGED <<PENDING_SIGNALS, timers, time_left>>
      BY <2>2 DEF BlockTimed, timerVars
    <3>2. pc[t] \in Sleeps
      BY <3>1 DEF BlockLabels, Sleeps
    <3>3. QED
      BY <1>k, <3>1, <3>2 DEF ArmOK, ExpiresInTime
  <2>3. CASE WaitAgain(t)
    BY <2>3 DEF WaitAgain, frameVars, timerVars, ArmOK, ExpiresInTime
  <2>4. CASE WaitEnd(t)
    <3>1. CASE Return(t)
      BY <1>a, <3>1, OwnFrame
    <3>2. CASE Goto(t, AfterWait[pc[t]]) /\ AfterWait[pc[t]] # "app"
      <4>1. pc'[t] = AfterWait[pc[t]] /\ pc[t] \in Waits
        BY <2>4, <3>2, OwnFrame DEF WaitEnd
      <4>2. pc'[t] \in LoopLabels
        BY <3>2, <4>1 DEF Waits, TimerWaits, PutWaits, GetWaits, AfterWait, LoopLabels
      <4>3. QED
        BY <1>l, <4>2
    <3>3. QED
      BY <2>4, <3>1, <3>2 DEF WaitEnd
  <2>5. CASE mutex_lock_loop(t)
    BY <1>a, <1>w, <2>5, OwnFrame DEF mutex_lock_loop
  <2>6. CASE message_queue_put_loop(t) \/ message_queue_get_loop(t)
    BY <1>a, <1>w, <2>6, OwnFrame DEF message_queue_put_loop, message_queue_get_loop, message_queue_wait
  <2>7. CASE message_queue_put_timeout_loop(t) \/ message_queue_get_timeout_loop(t)
    <3>1. pc[t] \in {"put_timeout", "get_timeout"}
      BY <2>7 DEF message_queue_put_timeout_loop, message_queue_get_timeout_loop, Running
    <3>2. OnClock(t, arg[t])
      BY <3>1 DEF ClockOK, TimedLabels
    <3>3. QED
      BY <1>a, <2>7, <3>2, OwnFrame, LoopArms DEF message_queue_put_timeout_loop, message_queue_get_timeout_loop,
         GiveUp
  <2>8. QED
    BY <1>1, <2>1, <2>2, <2>3, <2>4, <2>5, <2>6, <2>7 DEF TaskStep
<1>2. CASE AppStep(t)
  <2>1. CASE UNCHANGED frameVars
    BY <1>2, <1>a, <2>1, AppStepEffect, OwnFrame
  <2>2. CASE sleep(t)
    BY <2>2, SleepArms
  <2>3. CASE signal_wait_set_call(t)
    BY <1>w, <2>3, OwnFrame DEF signal_wait_set_call
  <2>4. CASE \/ message_queue_put(t) \/ message_queue_get(t)
             \/ message_queue_put_timeout(t) \/ message_queue_get_timeout(t) \/ mutex_lock(t)
    <3>1. Fatal \/ \E label \in LoopLabels : \E o, a, m : EnterLoop(t, label, o, a, m)
      BY <2>4 DEF message_queue_put, message_queue_get, message_queue_put_timeout, message_queue_get_timeout,
         mutex_lock, LoopLabels
    <3>2. QED
      BY <1>l, <2>1, <3>1, OwnFrame DEF EnterLoop, Fatal
  <2>5. QED
    BY <1>2, <2>1, <2>2, <2>3, <2>4 DEF AppStep, message_queue_try_put, message_queue_try_get, mutex_unlock,
       mutex_try_lock, signal_poll_set, signal_send, yield_call, interrupt_event_task_set, Fatal
<1>3. QED
  BY <1>1, <1>2

\* A step of a task keeps the invariant of the timed waits.
LEMMA ArmTaskSide ==
  ASSUME TypeInv, ArmInv, NEW t \in Tasks, NEW u \in Tasks, TaskStep(t) \/ AppStep(t)
  PROVE  ClockOK(u)' /\ ArmOK(u)'
<1>1. CASE u = t
  BY <1>1, ClockOwn, ArmOwn DEF ArmInv
<1>2. CASE u # t
  <2>1. /\ Bystander(u) /\ arg'[u] = arg[u] /\ time_left'[u] = time_left[u]
        /\ UNCHANGED timer_current_ticks /\ ClockOK(u) /\ ArmOK(u) /\ task_timers(u) = u
    BY <1>2, TaskStepEffect, AppStepEffect, TicksKept, TaskTimersOnly DEF ArmInv
  <2>2. ClockOK(u)'
    BY <2>1 DEF Bystander, Untouched, ClockOK, OnClock
  <2>3. ArmOK(u)'
    BY <2>1 DEF Bystander, Untouched, ArmOK, ExpiresInTime
  <2>4. QED
    BY <2>2, <2>3
<1>3. QED
  BY <1>1, <1>2

\* A tick signals the tasks whose timers expire; the timeouts of the others
\* are still to come.
LEMMA ArmTick ==
  ASSUME TypeInv, TimeLeftTypeOK, NEW u \in Tasks, TimerOK(u), ArmOK(u), UNCHANGED pc,
         NEW ticks, ticks = (timer_current_ticks + 1) % TicksAbsoluteMod,
         NEW T, CountTick(ticks, T), timer_current_ticks' = ticks,
         timers' = TimersAfter(Expired(ticks)),
         signal_send_set(TimerTasks(Expired(ticks)), TimerSignals(Expired(ticks)))
  PROVE  ArmOK(u)'
<1> DEFINE K == Expired(ticks)
<1>1. /\ u \in TimerIds /\ task_timers(u) = u
      /\ timers[u].task_id = u /\ timers[u].signal_set = {TASK_TIMER}
  BY TaskTimersOnly DEF TimerOK
<1>2. TimerTasks(K) \in SUBSET Tasks
  BY ExpiredTyped DEF Expired, TypeInv
<1>3. PENDING_SIGNALS'[u] = IF u \in TimerTasks(K) THEN PENDING_SIGNALS[u] \cup TimerSignals(K)[u]
                            ELSE PENDING_SIGNALS[u]
  BY <1>2, SendEffect
<1>4. CASE u \in K
  <2>1. u \in TimerTasks(K) /\ TASK_TIMER \in TimerSignals(K)[u]
    BY <1>1, <1>4, TickEffect
  <2>2. QED
    BY <1>3, <2>1 DEF ArmOK
<1>5. CASE u \notin K
  <2>1. timers'[task_timers(u)] = timers[task_timers(u)] /\ PENDING_SIGNALS[u] \subseteq PENDING_SIGNALS'[u]
    BY <1>1, <1>3, <1>5, TickEffect
  <2>2. ASSUME ExpiresInTime(u) PROVE ExpiresInTime(u)'
    <3>1. timers[task_timers(u)].expiry # current_timeout(ticks) /\ TimerTypeOK
      BY <1>1, <1>5, <2>2 DEF Expired, ExpiresInTime, TypeInv
    <3>2. QED
      BY <2>1, <2>2, <3>1, TickInTime
  <2>3. QED
    BY <2>1, <2>2 DEF ArmOK
<1>6. QED
  BY <1>4, <1>5

\* A step of the scheduler or of a handler keeps the invariant of the timed
\* waits: the tick counter and the true time advance together.
LEMMA ArmCpuSide ==
  ASSUME TypeInv, TimerInv, ArmInv, NEW u \in Tasks, SchedStep \/ Interrupt
  PROVE  ClockOK(u)' /\ ArmOK(u)'
<1>1. /\ UNCHANGED pc /\ PENDING_SIGNALS[u] \subseteq PENDING_SIGNALS'[u]
      /\ ClockOK(u) /\ ArmOK(u) /\ TimerOK(u)
  BY CpuStepEffect DEF ArmInv, TimerInv
<1>2. UNCHANGED arg
  BY DEF SchedStep, Interrupt, interrupt_event_process, timer_tick_process, sched_pick, interrupt_event_wait,
     timer_tick, interrupt_event_raise, HandlerReturns, frameVars
<1>3. CASE UNCHANGED timerVars
  BY <1>1, <1>2, <1>3 DEF timerVars, ClockOK, OnClock, ArmOK, ExpiresInTime
<1>4. CASE ~UNCHANGED timerVars
  <2> DEFINE ticks == (timer_current_ticks + 1) % TicksAbsoluteMod
             T == {t \in Tasks : pc[t] \in TimedLabels}
  <2>1. /\ timer_current_ticks' = ticks /\ timers' = TimersAfter(Expired(ticks))
        /\ CountTick(ticks, T)
        /\ signal_send_set(TimerTasks(Expired(ticks)), TimerSignals(Expired(ticks)))
    BY <1>4 DEF SchedStep, Interrupt, interrupt_event_process, timer_tick_process, sched_pick,
       interrupt_event_wait, timer_tick, interrupt_event_raise, HandlerReturns
  <2>2. ClockOK(u)'
    <3>1. SUFFICES ASSUME pc[u] \in TimedLabels PROVE OnClock(u, arg[u])'
      BY <1>1 DEF ClockOK
    <3>2. u \in Tasks \cap T /\ OnClock(u, arg[u]) /\ arg[u] \in TicksAbsolute
      BY <1>1, <3>1 DEF ClockOK, TypeInv, FrameTypeOK
    <3> HIDE DEF T
    <3>3. OnClock(u, arg[u])' <=> (\A a : a = arg[u] => OnClock(u, a)')
      BY <1>2 DEF OnClock
    <3>4. QED
      BY <2>1, <3>2, <3>3, ClockTicks DEF TypeInv, ArmInv
  <2> HIDE DEF ticks, T
  <2>3. QED
    BY <1>1, <2>1, <2>2, ArmTick DEF ticks, ArmInv
<1>5. QED
  BY <1>3, <1>4

LEMMA ArmNext == TypeInv /\ TimerInv /\ ArmInv /\ [Next]_vars => ArmInv'
<1> SUFFICES ASSUME TypeInv, TimerInv, ArmInv, [Next]_vars PROVE ArmInv'
  OBVIOUS
<1>1. CASE UNCHANGED vars
  BY <1>1 DEF vars, timerVars, frameVars, ArmInv, TimeLeftTypeOK, ClockOK, OnClock, ArmOK, ExpiresInTime
<1>2. CASE Next
  <2>1. TimeLeftTypeOK'
    BY TimeLeftNext DEF ArmInv
  <2>2. QED
    BY <1>1, <1>2, <2>1, ArmTaskSide, ArmCpuSide DEF Next, Stopped, ArmInv
<1>3. QED
  BY <1>1, <1>2

LEMMA ArmInit == Init => ArmInv
<1> SUFFICES ASSUME Init PROVE ArmInv
  OBVIOUS
<1>1. \A u \in Tasks : pc[u] = "entry"
  BY DEF Init
<1>2. QED
  BY <1>1, TimeLeftInit DEF ArmInv, ClockOK, TimedLabels, ArmOK, Sleeps, TimedWaits

\* No task in a sleep or in a put or get with a timeout sleeps without its
\* timer, which expires exactly when the time of the call is up, counted tick
\* by tick: not before, and not later, however often a queue or a mutex has
\* woken the task and however late it got the CPU, for any widths of the
\* counters.  The one exception is a call still under way when the tick counter
\* wraps after its timeout.
THEOREM TimeoutsCorrect == Spec => []TimedWaitsArmed
<1>1. Spec => [](TypeInv /\ WaitInv /\ TimerInv)
  BY TypeInit, TypeNext, WaitInvInit, WaitInvNext, TimerInvInit, TimerInvNext, PTL DEF Spec
<1>2. Spec => []ArmInv
  BY <1>1, ArmInit, ArmNext, PTL DEF Spec
<1>3. WaitInv /\ ArmInv => TimedWaitsArmed
  <2>1. TimedWaits \cup {"sleep_wait"} \subseteq TimerWaits \cap Sleeps
    BY DEF TimedWaits, TimerWaits, PutWaits, GetWaits, Sleeps
  <2>2. QED
    BY <2>1 DEF WaitInv, WaitOK, ArmInv, ArmOK, TimedWaitsArmed, Asleep, signal_peek
<1>4. QED
  BY <1>1, <1>2, <1>3, PTL
=============================================================================

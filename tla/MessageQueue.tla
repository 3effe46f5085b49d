---------------------------- MODULE MessageQueue ----------------------------
(***************************************************************************)
(* The state of the message-queue component: the ring buffers and, per     *)
(* task, the queue it is waiting for.  Senders and receivers wait in the   *)
(* same array.                                                             *)
(***************************************************************************)
EXTENDS Task, Sequences

CONSTANTS NumQueues,        \* message_queues.length
          QueueLength,      \* message_queues[q].queue_length
          Messages,
          NoMessage         \* the zeros of a memory area never written to

Queues == 0 .. (NumQueues - 1)
MESSAGE_QUEUE_ID_NONE == -1

ASSUME QueueAssumption ==
    /\ NumQueues \in Nat
    /\ QueueLength \in [Queues -> Nat \ {0}]
    /\ NoMessage \notin Messages

Slots(q) == 0 .. (QueueLength[q] - 1)
Contents == Messages \cup {NoMessage}

VARIABLES messages,         \* message_queues[q].messages
          head,             \* message_queues[q].head
          available,        \* message_queues[q].available
          message_queue_waiters

QueueTypeOK ==
    /\ DOMAIN messages = Queues
    /\ \A q \in Queues : messages[q] \in [Slots(q) -> Contents]
    /\ head \in [Queues -> Nat] /\ \A q \in Queues : head[q] \in Slots(q)
    /\ available \in [Queues -> Nat] /\ \A q \in Queues : available[q] <= QueueLength[q]
    /\ message_queue_waiters \in [Tasks -> Queues \cup {MESSAGE_QUEUE_ID_NONE}]

QueueInit ==
    /\ messages = [q \in Queues |-> [i \in Slots(q) |-> NoMessage]]
    /\ head = [q \in Queues |-> 0]
    /\ available = [q \in Queues |-> 0]
    /\ message_queue_waiters = [t \in Tasks |-> MESSAGE_QUEUE_ID_NONE]

Full(q) == available[q] = QueueLength[q]
Empty(q) == available[q] = 0

\* Mutant: the ring does not wrap.
SlotNoWrap(q, i) == head[q] + i

\* The slot of the i-th oldest message, counted from 0.
Slot(q, i) == (head[q] + i) % QueueLength[q]

\* The messages of queue q, oldest first.
Queued(q) == [i \in 1 .. available[q] |-> messages[q][Slot(q, i - 1)]]

-----------------------------------------------------------------------------
Registered(q) == {t \in Tasks : message_queue_waiters[t] = q}

\* message_queue_waiters_wakeup, without the signals: the tasks of W.
forget_waiters(W) ==
    message_queue_waiters' = [t \in Tasks |-> IF t \in W THEN MESSAGE_QUEUE_ID_NONE
                                              ELSE message_queue_waiters[t]]

\* Mutant: waiters are woken when the queue becomes full.
PutWakesAtFull(q) == IF available[q] + 1 = QueueLength[q] THEN Registered(q) ELSE {}

\* The tasks that try_put wakes: only an empty queue has receivers to wake.
PutWakes(q) == IF available[q] + 1 = 1 THEN Registered(q) ELSE {}

\* Mutant: waiters are woken when the queue becomes empty.
GetWakesAtEmpty(q) == IF available[q] - 1 = 0 THEN Registered(q) ELSE {}

\* The tasks that try_get wakes: the source compares the number of messages
\* that are left with the number of queues.
GetWakes(q) == IF available[q] - 1 = NumQueues - 1 THEN Registered(q) ELSE {}

\* Mutant: the message goes to the slot at the head.
store_at_head(q, m) ==
    /\ ~Full(q)
    /\ messages' = [messages EXCEPT ![q][Slot(q, 0)] = m]
    /\ available' = [available EXCEPT ![q] = @ + 1]
    /\ forget_waiters(PutWakes(q))
    /\ UNCHANGED head

\* try_put succeeds.
store(q, m) ==
    /\ ~Full(q)
    /\ messages' = [messages EXCEPT ![q][Slot(q, available[q])] = m]
    /\ available' = [available EXCEPT ![q] = @ + 1]
    /\ forget_waiters(PutWakes(q))
    /\ UNCHANGED head

\* The message that try_get copies to its caller.
Oldest(q) == messages[q][head[q]]

\* try_get succeeds.
remove(q) ==
    /\ ~Empty(q)
    /\ head' = [head EXCEPT ![q] = Slot(q, 1)]
    /\ available' = [available EXCEPT ![q] = @ - 1]
    /\ forget_waiters(GetWakes(q))
    /\ UNCHANGED messages

\* The caller registers as a waiter.
register(q, t) ==
    /\ message_queue_waiters' = [message_queue_waiters EXCEPT ![t] = q]
    /\ UNCHANGED <<messages, head, available>>
=============================================================================

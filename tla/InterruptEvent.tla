--------------------------- MODULE InterruptEvent ---------------------------
(***************************************************************************)
(* The interrupt-event components (interrupt-event-armv7m and              *)
(* interrupt-event-signal): the set of raised interrupt events and the     *)
(* task and signals that each event is configured to signal.               *)
(***************************************************************************)
EXTENDS Signal

CONSTANTS NumEvents,        \* interrupt_events.length
          EventTask,        \* interrupt_events[e].task
          EventSignals      \* interrupt_events[e].sig_set

Events == 0 .. (NumEvents - 1)

ASSUME EventAssumption ==
    /\ NumEvents \in Nat
    /\ EventTask \in [Events -> Tasks]
    /\ EventSignals \in [Events -> SUBSET AppSignals]

VARIABLE interrupt_event    \* the bits set in interrupt_event

EventTypeOK == interrupt_event \in SUBSET Events

\* The recipients and the signals of the handled events E, when task[e] is the
\* task of event e.
EventTasks(task, E) == {task[e] : e \in E}
EventSends(task, E) == [t \in Tasks |-> UNION {EventSignals[e] : e \in {x \in E : task[x] = t}}]
=============================================================================

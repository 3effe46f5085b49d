-------------------------------- MODULE Fifo --------------------------------
(***************************************************************************)
(* What message queues promise (components/message-queue/docs.md): bounded *)
(* first-in/first-out channels.  A message that is put is appended to its  *)
(* channel, a message that is got is the oldest one of its channel, is     *)
(* removed from it and is delivered to one task.  How tasks wait for room  *)
(* or for messages is left open.                                           *)
(***************************************************************************)
EXTENDS Sequences, Naturals

CONSTANTS Channels, Capacity, Readers, Values

VARIABLES channel,          \* the messages of each channel, oldest first
          delivered         \* what each task got last

Init ==
    /\ channel = [c \in Channels |-> <<>>]
    /\ delivered \in [Readers -> Values]

Put(c, v) ==
    /\ Len(channel[c]) < Capacity[c]
    /\ channel' = [channel EXCEPT ![c] = Append(@, v)]
    /\ UNCHANGED delivered

Get(c, r) ==
    /\ channel[c] # <<>>
    /\ channel' = [channel EXCEPT ![c] = Tail(@)]
    /\ delivered' = [delivered EXCEPT ![r] = Head(channel[c])]

Next ==
    \/ \E c \in Channels, v \in Values : Put(c, v)
    \/ \E c \in Channels, r \in Readers : Get(c, r)

Spec == Init /\ [][Next]_<<channel, delivered>>
=============================================================================

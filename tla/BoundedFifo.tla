---------------------------- MODULE BoundedFifo ----------------------------
(***************************************************************************)
(* What MTY_Queue promises: a first-in first-out buffer of Capacity         *)
(* messages with one reader, who is shown the head, keeps it for as long    *)
(* as he likes, and then removes it.  He may also discard a head that is    *)
(* not the only message (MTY_QueueGetLastOutputBuffer).                     *)
(***************************************************************************)
EXTENDS Naturals, Sequences

CONSTANTS
  Capacity,   \* how many messages fit
  Messages,   \* what can be stored
  Nothing     \* shown to a reader who holds no buffer

VARIABLES
  fifo,       \* the messages stored, oldest first
  shown       \* the message the reader holds, or Nothing

Init == fifo = <<>> /\ shown = Nothing

Put(m) ==
  /\ Len(fifo) < Capacity
  /\ fifo' = Append(fifo, m)
  /\ UNCHANGED shown

Show ==
  /\ shown = Nothing
  /\ fifo # <<>>
  /\ shown' = Head(fifo)
  /\ UNCHANGED fifo

Remove ==
  /\ fifo # <<>>
  /\ shown = Head(fifo)
  /\ shown' = Nothing
  /\ fifo' = Tail(fifo)

Discard ==
  /\ shown = Nothing
  /\ Len(fifo) > 1
  /\ fifo' = Tail(fifo)
  /\ UNCHANGED shown

Next ==
  \/ \E m \in Messages : Put(m)
  \/ Show
  \/ Remove
  \/ Discard

Spec == Init /\ [][Next]_<<fifo, shown>>
=============================================================================

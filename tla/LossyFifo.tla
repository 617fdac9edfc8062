------------------------------- MODULE LossyFifo -------------------------------
(***************************************************************************)
(* What the two bounded hand-over queues of the system promise: the        *)
(* sender's CaptureQueue (sender/src/main.rs:304) and the receiver's       *)
(* ReceiverEventQueue (receiver/src/main.rs:232).  The producer offers the *)
(* items 1, 2, 3, ... once each and never blocks; an item may be refused   *)
(* and the oldest queued item may be thrown away, but nothing is           *)
(* reordered, repeated or made up, and never are more than Bound waiting.  *)
(***************************************************************************)
EXTENDS Integers, Sequences

CONSTANT Bound

VARIABLES offered,  \* items offered so far
          queue,    \* items waiting, oldest first
          taken     \* items the consumer has got, in order

fifoVars == <<offered, queue, taken>>

FifoInit == offered = 0 /\ queue = <<>> /\ taken = <<>>

\* The next item is refused,
Refuse == offered' = offered + 1 /\ UNCHANGED <<queue, taken>>

\* or it is queued, if need be in place of the oldest one.
Accept ==
  /\ offered' = offered + 1
  /\ \/ Len(queue) < Bound /\ queue' = Append(queue, offered + 1)
     \/ queue # <<>> /\ queue' = Append(Tail(queue), offered + 1)
  /\ UNCHANGED taken

Discard == queue # <<>> /\ queue' = Tail(queue) /\ UNCHANGED <<offered, taken>>

Take ==
  /\ queue # <<>>
  /\ taken' = Append(taken, Head(queue))
  /\ queue' = Tail(queue)
  /\ UNCHANGED offered

FifoNext == Refuse \/ Accept \/ Discard \/ Take
FifoSpec == FifoInit /\ [][FifoNext]_fifoVars
=============================================================================

------------------------------ MODULE ReceiverQueue ------------------------------
(***************************************************************************)
(* The queue between the receiver's UDP thread and its audio callback:     *)
(* ReceiverEventQueue, spawn_udp_receiver, send_receiver_event and the     *)
(* first half of the callback of receiver/src/main.rs.  The queue itself   *)
(* is crossbeam's ArrayQueue, whose push and pop are atomic; the two       *)
(* threads interleave between any two of them.                             *)
(*                                                                         *)
(* An event is the number of the datagram it came from; module Receiver    *)
(* says what the datagrams hold and what processing an event does.  A      *)
(* callback whose buffer is larger than the scratch buffer returns before  *)
(* it touches the queue (main.rs:685): a stuttering step here.  So is a    *)
(* receive error.                                                          *)
(***************************************************************************)
EXTENDS Integers, Sequences, FiniteSets

CONSTANTS
  QueueCapacity,    \* --packet-queue-capacity
  MaxDatagrams      \* bound: number of datagrams received

ASSUME ReceiverQueueAssumption ==
  /\ QueueCapacity \in Nat \ {0}      \* asserted in ReceiverEventQueue::new
  /\ MaxDatagrams \in Nat

VARIABLES
  events,          \* the ArrayQueue
  udp_pc,          \* the UDP thread, inside send_receiver_event
  arrived,         \* datagrams so far; the one under way has this number
  invalid,         \* the datagrams AudioPacket::from_bytes rejected
  dropped_oldest,  \* the local of push_drop_oldest
  queue_drops, queued_packets, queued_invalid_packets,  \* IngressMetrics
  cb_pc,           \* the audio callback
  event_scratch,
  processed,       \* events handed to process_receiver_event, in order
  evicted          \* history: events the UDP thread popped

queueVars == <<events, udp_pc, arrived, invalid, dropped_oldest, queue_drops,
               queued_packets, queued_invalid_packets, cb_pc, event_scratch,
               processed, evicted>>
callbackVars == <<cb_pc, event_scratch, processed>>
udpVars == <<udp_pc, arrived, invalid, dropped_oldest, queue_drops, queued_packets,
             queued_invalid_packets, evicted>>

Event == 1 .. MaxDatagrams

QueueInit ==
  /\ events = <<>> /\ udp_pc = "recv" /\ arrived = 0 /\ invalid = {}
  /\ dropped_oldest = FALSE
  /\ queue_drops = 0 /\ queued_packets = 0 /\ queued_invalid_packets = 0
  /\ cb_pc = "idle" /\ event_scratch = <<>> /\ processed = <<>> /\ evicted = {}

-----------------------------------------------------------------------------
(* The UDP thread: recv_from, then push_drop_oldest, then the counters. *)

\* recv_from returns a datagram; `rejected' says that it does not parse.
UdpReceive(rejected) ==
  /\ udp_pc = "recv" /\ arrived < MaxDatagrams
  /\ arrived' = arrived + 1
  /\ invalid' = IF rejected THEN invalid \cup {arrived + 1} ELSE invalid
  /\ dropped_oldest' = FALSE
  /\ udp_pc' = "push"
  /\ UNCHANGED <<events, queue_drops, queued_packets, queued_invalid_packets,
                 evicted, callbackVars>>

BugFullTooLate == Len(events) > QueueCapacity
QueueIsFull == Len(events) >= QueueCapacity

UdpPush ==
  /\ udp_pc = "push" /\ ~QueueIsFull
  /\ events' = Append(events, arrived)
  /\ udp_pc' = "drop"
  /\ UNCHANGED <<arrived, invalid, dropped_oldest, queue_drops, queued_packets,
                 queued_invalid_packets, evicted, callbackVars>>

UdpPushFails ==
  /\ udp_pc = "push" /\ QueueIsFull
  /\ udp_pc' = "pop"
  /\ UNCHANGED <<events, arrived, invalid, dropped_oldest, queue_drops, queued_packets,
                 queued_invalid_packets, evicted, callbackVars>>

\* The pop that makes room.  The callback may have emptied the queue since the
\* push failed; dropped_oldest is set all the same.
BugKeepOldest == UNCHANGED <<events, evicted>>
DropOldest ==
  IF events = <<>>
    THEN UNCHANGED <<events, evicted>>
    ELSE events' = Tail(events) /\ evicted' = evicted \cup {Head(events)}

BugNoRetry ==
  /\ udp_pc = "pop"
  /\ DropOldest
  /\ dropped_oldest' = TRUE
  /\ UNCHANGED <<udp_pc, arrived, invalid, queue_drops, queued_packets,
                 queued_invalid_packets, callbackVars>>
UdpPop ==
  /\ udp_pc = "pop"
  /\ DropOldest
  /\ dropped_oldest' = TRUE
  /\ udp_pc' = "push"
  /\ UNCHANGED <<arrived, invalid, queue_drops, queued_packets, queued_invalid_packets,
                 callbackVars>>

\* record_queue_drop
BugDropUncounted == queue_drops
DropsAfter == IF dropped_oldest THEN queue_drops + 1 ELSE queue_drops

UdpRecordDrop ==
  /\ udp_pc = "drop"
  /\ queue_drops' = DropsAfter
  /\ udp_pc' = "count"
  /\ UNCHANGED <<events, arrived, invalid, dropped_oldest, queued_packets,
                 queued_invalid_packets, evicted, callbackVars>>

\* record_packet_queued, record_invalid_queued
UdpRecordQueued ==
  /\ udp_pc = "count"
  /\ IF arrived \in invalid
       THEN /\ queued_invalid_packets' = queued_invalid_packets + 1
            /\ UNCHANGED queued_packets
       ELSE /\ queued_packets' = queued_packets + 1
            /\ UNCHANGED queued_invalid_packets
  /\ udp_pc' = "recv"
  /\ UNCHANGED <<events, arrived, invalid, dropped_oldest, queue_drops, evicted, callbackVars>>

-----------------------------------------------------------------------------
(* The audio callback: drain_into, one pop at a time, then every event is *)
(* processed.                                                              *)

CallbackStart ==
  /\ cb_pc = "idle"
  /\ cb_pc' = "drain"
  /\ UNCHANGED <<events, event_scratch, processed, udpVars>>

DrainPop ==
  /\ cb_pc = "drain" /\ events # <<>>
  /\ events' = Tail(events)
  /\ event_scratch' = Append(event_scratch, Head(events))
  /\ UNCHANGED <<cb_pc, processed, udpVars>>

BugDrainOne == events = <<>> \/ event_scratch # <<>>
DrainIsDone == events = <<>>

DrainEnd ==
  /\ cb_pc = "drain" /\ DrainIsDone
  /\ cb_pc' = "process"
  /\ UNCHANGED <<events, event_scratch, processed, udpVars>>

\* event_scratch.drain(..): each event leaves the scratch vector.
BugStaleScratch == event_scratch
RestOfScratch == Tail(event_scratch)

ProcessEvent ==
  /\ cb_pc = "process" /\ event_scratch # <<>>
  /\ processed' = Append(processed, Head(event_scratch))
  /\ event_scratch' = RestOfScratch
  /\ UNCHANGED <<events, cb_pc, udpVars>>

\* The rest of the callback leaves the queue alone.
CallbackEnd ==
  /\ cb_pc = "process" /\ event_scratch = <<>>
  /\ cb_pc' = "idle"
  /\ UNCHANGED <<events, event_scratch, processed, udpVars>>

-----------------------------------------------------------------------------
UdpRecord == UdpRecordDrop \/ UdpRecordQueued
UdpStep == UdpPush \/ UdpPushFails \/ UdpPop \/ UdpRecord
CallbackStep == CallbackStart \/ DrainPop \/ DrainEnd \/ ProcessEvent \/ CallbackEnd
QueueNext == (\E rejected \in BOOLEAN : UdpReceive(rejected)) \/ UdpStep \/ CallbackStep

QueueSpec == QueueInit /\ [][QueueNext]_queueVars

-----------------------------------------------------------------------------
(* Correctness. *)

Entries(s) == {s[i] : i \in 1 .. Len(s)}
Unsettled == IF udp_pc \in {"push", "pop"} THEN {arrived} ELSE {}

\* After one pop the retried push succeeds: the UDP thread is the only producer
\* and the callback only takes events out, so the loop of push_drop_oldest goes
\* round at most once and loses at most one event per datagram (main.rs:247).
RetrySucceeds == (udp_pc = "push" /\ dropped_oldest) => ~QueueIsFull

\* No loss goes unreported: every event thrown away is in queue_drops, or is
\* about to be (main.rs:515).
Unreported == IF udp_pc \in {"push", "drop"} /\ dropped_oldest THEN 1 ELSE 0
LossIsReported == Cardinality(evicted) <= queue_drops + Unreported

\* Every datagram that arrived is processed, drained, queued, thrown away or in
\* the hands of the UDP thread, and is only one of these.
EveryDatagramIsAccountedFor ==
  /\ Entries(processed) \cup Entries(event_scratch) \cup Entries(events)
       \cup evicted \cup Unsettled = 1 .. arrived
  /\ Len(processed) + Len(event_scratch) + Len(events) + Cardinality(evicted)
       + Cardinality(Unsettled) = arrived

\* Events reach the jitter buffer in the order they arrived.
Fifo == INSTANCE LossyFifo WITH
  Bound   <- QueueCapacity,
  offered <- IF udp_pc \in {"push", "pop"} THEN arrived - 1 ELSE arrived,
  queue   <- events,
  taken   <- processed \o event_scratch
IsLossyFifo == Fifo!FifoSpec
=============================================================================

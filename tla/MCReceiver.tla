------------------------------ MODULE MCReceiver ------------------------------
(* A receiver started with `--fixed-latency-ms LatencyMs' at a sample rate of *)
(* Rate, and what two senders, one with longer packets, send it.              *)
EXTENDS Receiver, ReceiverConfig

CONSTANTS Rate, LatencyMs

MCArgs == [sample_rate |-> Rate, fixed_delay_frames |-> {},
           fixed_latency_ms |-> {LatencyMs}, packet_queue_capacity |-> 2]

\* The sizes the receiver derives from its arguments.
ASSUME MCArgsAssumption ==
  /\ ArgsAreValid(MCArgs)
  /\ QueueCapacity = MCArgs.packet_queue_capacity
  /\ FixedDelay = ReceiverTiming(MCArgs).fixed_delay_frames
  /\ Capacity = CapacityFrames(MCArgs)
  /\ Tolerance = hard_trim_tolerance_frames(FixedDelay, MCArgs.sample_rate)
  /\ MissLimit = MCArgs.sample_rate \div 2

\* Packets are not stamped further back than the jitter buffer's bound.
ASSUME MCWaitAssumption == MaxTime <= MaxWait

MCSent == {[stream |-> 1, number |-> k, frames |-> 2] : k \in 0 .. MaxPacket}
            \cup {[stream |-> 2, number |-> 0, frames |-> 2],
                  [stream |-> 2, number |-> 1, frames |-> 3]}

MCStrays == {StatusBytes([f \in {StatusWritten[i][1] : i \in 1 .. Len(StatusWritten)} |-> 1])}
=============================================================================

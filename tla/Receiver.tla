-------------------------------- MODULE Receiver --------------------------------
(***************************************************************************)
(* The receiver's audio path from the socket to the output device: the UDP *)
(* thread parses what recv_from left in its buffer and queues it with its  *)
(* arrival time (module ReceiverQueue, formats in Wire); the audio         *)
(* callback drains the queue, inserts every packet, trims and renders      *)
(* (module JitterBuffer).  Datagrams of several senders, of the wrong      *)
(* format and longer than the receive buffer arrive in any order, any      *)
(* number of times or never, while callbacks run.                          *)
(*                                                                         *)
(* The conversion of the rendered samples to the device's format is left   *)
(* out, as are the metrics (module ReceiverMetrics).                       *)
(***************************************************************************)
EXTENDS ReceiverQueue, JitterBuffer, Wire

CONSTANTS
  Sent,          \* the packets senders send: [stream, number, frames]
  Strays,        \* other datagrams that reach the port, as bytes
  RecvBuffer     \* the 2048 bytes of spawn_udp_receiver

ASSUME ReceiverAssumption ==
  /\ RecvBuffer \in Nat
  /\ \A d \in Sent : d.stream \in Streams /\ d.number \in 0 .. MaxPacket

VARIABLES
  datagrams,     \* history: what each datagram was, parsed to and when it came
  trimmed,       \* the callback has called trim_to_playout_buffer_budget
  due,           \* history: datagrams queued before the callback began
  start          \* history: events processed before the buffer's last clear

rxVars == <<queueVars, vars, datagrams, trimmed, due, start>>

-----------------------------------------------------------------------------
(* Datagrams. *)

\* Any samples do; these are all different and of either sign.
Samples(d) == [i \in 1 .. CHANNELS * d.frames |-> d.number * 8 + i - 2 - 4 * d.stream]

\* PacketSender: what a sender puts into a packet and on the wire.
PacketOf(d) ==
  [header  |-> Header(d.stream, SequenceOf(d), d.frames, StartOf(d), 0),
   payload |-> Samples(d)]

\* recv_from fills the buffer and drops the rest of a longer datagram.
Received(bytes) == SubSeq(bytes, 1, Smaller(Len(bytes), RecvBuffer))

Parsed == [d \in Sent |-> PacketFromBytes(Received(PacketBytes(PacketOf(d).header,
                                                               PacketOf(d).payload)))]
ParsedStray == [bytes \in Strays |-> PacketFromBytes(Received(bytes))]

\* The packet the jitter buffer is given.
InsertArgument(i) ==
  LET header == datagrams[i].event.value.header
  IN [stream |-> header.stream_id, number |-> header.sample_position \div PacketFrames]

\* What the types of the code guarantee: the numbers of a packet fit its fields.
ASSUME SentAssumption ==
  /\ None \notin Sent
  /\ \A d \in Sent :
       /\ FieldsFit(HeaderWritten, PacketOf(d).header)
       /\ \A i \in 1 .. CHANNELS * d.frames : Samples(d)[i] \in Int16

\* What else is sent to the port does not begin with the magic number.
ASSUME StraysAssumption == \A bytes \in Strays : SubSeq(Received(bytes), 1, 4) # MAGIC

-----------------------------------------------------------------------------
ReceiverInit ==
  /\ QueueInit /\ Init
  /\ datagrams = <<>> /\ trimmed = FALSE /\ due = 0 /\ start = 0

Receive(sent, event) ==
  /\ UdpReceive(~event.ok)
  /\ datagrams' = Append(datagrams, [sent |-> sent, event |-> event, arrival |-> now])
  /\ UNCHANGED <<vars, trimmed, due, start>>

ReceivePacket(d) == Receive(d, Parsed[d])
ReceiveStray(bytes) == Receive(None, ParsedStray[bytes])

UdpThread == UdpStep /\ UNCHANGED <<vars, datagrams, trimmed, due, start>>

BeginCallback ==
  /\ CallbackStart
  /\ trimmed' = FALSE
  /\ due' = arrived - Cardinality(Unsettled)
  /\ UNCHANGED <<vars, datagrams, start>>

Drain ==
  /\ DrainPop \/ DrainEnd
  /\ UNCHANGED <<vars, datagrams, trimmed, due, start>>

\* process_receiver_event
ProcessPacket ==
  LET i == Head(event_scratch) IN
  /\ ProcessEvent /\ datagrams[i].event.ok
  /\ InsertPacket(InsertArgument(i), datagrams[i].arrival)
  /\ start' = IF stream_id' # stream_id THEN Len(processed) ELSE start
  /\ UNCHANGED <<datagrams, trimmed, due>>

ProcessInvalid ==
  /\ ProcessEvent /\ ~datagrams[Head(event_scratch)].event.ok
  /\ RecordInvalidPacket
  /\ UNCHANGED <<datagrams, trimmed, due, start>>

\* The rest of the callback: trim_to_playout_buffer_budget(0), then the pull.
Trim ==
  /\ cb_pc = "process" /\ event_scratch = <<>> /\ ~trimmed
  /\ trimmed' = TRUE
  /\ IF OverBudget THEN TrimToPlayoutBufferBudget ELSE UNCHANGED vars
  /\ UNCHANGED <<queueVars, datagrams, due, start>>

Render(n) ==
  /\ trimmed
  /\ CallbackEnd /\ Pull(n)
  /\ start' = IF state' = "Resync" THEN Len(processed) ELSE start
  /\ UNCHANGED <<datagrams, trimmed, due>>

Callback ==
  \/ BeginCallback \/ Drain \/ ProcessPacket \/ ProcessInvalid \/ Trim
  \/ \E n \in RenderSizes : Render(n)

Time == Tick /\ UNCHANGED <<queueVars, datagrams, trimmed, due, start>>

ReceiverNext ==
  \/ \E d \in Sent : ReceivePacket(d)
  \/ \E bytes \in Strays : ReceiveStray(bytes)
  \/ UdpThread \/ Callback \/ Time

\* The two threads keep running; datagrams may stop coming.
ReceiverSpec ==
  /\ ReceiverInit /\ [][ReceiverNext]_rxVars
  /\ WF_rxVars(UdpThread) /\ WF_rxVars(Callback)

-----------------------------------------------------------------------------
(* Correctness. *)

\* A packet that fits the receive buffer is parsed to what its sender sent, to
\* the last sample; anything else on the port, a packet cut off by the buffer
\* included, is an invalid packet and never audio (packet.rs:85, main.rs:477).
ParsedIsSent ==
  \A i \in 1 .. arrived :
    LET d == datagrams[i].sent IN
    datagrams[i].event =
      IF d # None /\ HEADER_SIZE + d.frames * CHANNELS * 2 <= RecvBuffer
        THEN Ok(PacketOf(d)) ELSE Err

Carries(i, f) ==
  /\ datagrams[i].event.ok
  /\ InsertArgument(i).stream = stream_id
  /\ f \in StartOf(InsertArgument(i)) .. EndOf(InsertArgument(i)) - 1

\* The receiver plays what it has: when a callback renders a frame as silence,
\* every datagram that carried the frame and was in the queue before the callback
\* began was thrown away by the full queue, or was processed before the jitter
\* buffer last started over.  Nothing waits in the queue or the scratch vector
\* while its place is played (main.rs:691-702).
SilenceIsLoss ==
  [][(cb_pc = "process" /\ cb_pc' = "idle") =>
       \A f \in silent', i \in 1 .. due :
         Carries(i, f) => \/ i \in evicted
                          \/ i \in Entries(SubSeq(processed, 1, start))]_rxVars

\* Whatever the order in which the two threads run, the receiver catches up: once
\* datagrams stop coming, every one has got to the jitter buffer or was thrown
\* away by the full queue (main.rs:247-259, main.rs:691-694).
DatagramsReachBuffer == []<>(Entries(processed) \cup evicted = 1 .. arrived)

\* PLAN.md:577: once enough is buffered playback starts.  A buffer that holds
\* what the callback needs to play still holds it after the callback's own trim
\* (main.rs:697, jitter.rs:476).
TrimLeavesEnough ==
  [][(cb_pc = "process" /\ ~trimmed /\ trimmed') =>
       \A n \in RenderSizes :
         ~Starved(read_pos, SourceFrames(n)) => ~Starved(read_pos, SourceFrames(n))']_rxVars
=============================================================================

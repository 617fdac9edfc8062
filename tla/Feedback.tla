-------------------------------- MODULE Feedback --------------------------------
(***************************************************************************)
(* The rate control loop between receiver and sender.  The two sound       *)
(* devices run at rates that differ by a constant drift.  The receiver     *)
(* corrects its reading rate by its own buffer level                       *)
(* (prepare_fixed_buffer, common/src/jitter.rs) and reports the level once *)
(* per metrics interval in a status datagram (maybe_print,                 *)
(* receiver/src/main.rs); the sender's listener thread keeps the last      *)
(* status it received, and its packet thread corrects the sending rate by  *)
(* it (spawn_feedback_listener, sender_side_asrc_ppm,                      *)
(* sender/src/main.rs).  Status datagrams are lost, repeated, reordered    *)
(* and delayed without limit.                                              *)
(*                                                                         *)
(* Time goes in rounds: in a round the sender makes, and the receiver      *)
(* plays, the same nominal number of frames.  `level' is the receiver's    *)
(* buffer after a callback, in sub-frames; a rate is the sub-frames it     *)
(* moves the level by in a round.  A float of the status is in units of    *)
(* 1 / MsUnit ms.                                                          *)
(***************************************************************************)
EXTENDS Integers, FiniteSets, Wire, ReceiverConfig

CONSTANTS
  None,
  SampleRate, FixedDelay,
  Subframes,           \* sub-frames in a frame
  Drifts,              \* the rates by which the senders' clocks run ahead
  CorrPerFrame, CorrMax,    \* FIXED_BUFFER_CORRECTION_*
  AsrcKp, AsrcMax,     \* --sender-asrc-kp, --sender-asrc-max-ppm
  MsUnit,              \* units of a millisecond
  ReportRounds,        \* rounds in a metrics interval
  MaxInFlight,         \* bound: status datagrams under way at a time
  Strays               \* other datagrams that reach the feedback port, as bytes

Tolerance == hard_trim_tolerance_frames(FixedDelay, SampleRate)
target_ms == frames_to_ms_ceil(FixedDelay, SampleRate)

ASSUME FeedbackAssumption ==
  /\ SampleRate \in Nat \ {0} /\ FixedDelay \in Nat \ {0} /\ Subframes \in Nat \ {0}
  /\ Drifts \subseteq Int /\ CorrPerFrame \in Nat \ {0} /\ CorrMax \in Nat
  /\ AsrcKp \in Nat /\ AsrcMax \in Nat /\ ReportRounds \in Nat \ {0}
  /\ MsUnit \in Nat \ {0} /\ (1000 * MsUnit) % SampleRate = 0

VARIABLES
  drift,       \* constant: how fast the sender's device runs ahead
  running,     \* the jitter buffer is Running
  level,
  since,       \* rounds since the last report
  network,     \* status datagrams under way, with the number of the copy
  received,    \* the listener has this status and the lock
  remote_status

fbVars == <<drift, running, level, since, network, received, remote_status>>

-----------------------------------------------------------------------------
(* The receiver. *)

clamp(x, max) == IF x < -max THEN -max ELSE IF x > max THEN max ELSE x
BufferLevelFrames == IF running THEN level \div Subframes ELSE 0
ErrorFrames == level \div Subframes - FixedDelay

\* prepare_fixed_buffer, while the buffer is neither starved nor trimmed.
ReceiverCorrection == clamp(ErrorFrames * CorrPerFrame, CorrMax)

frames_to_ms(frames) == frames * ((1000 * MsUnit) \div SampleRate)

\* The ReceiverStatus that maybe_print builds.  The counters, the stream and the
\* time may be anything; here they are numbers that tell them apart.
StatusOf(frames) ==
  [stream_id |-> 1, latest_sequence |-> 2, target_ms |-> target_ms,
   output_sample_rate |-> SampleRate, target_frames |-> FixedDelay,
   fixed_delay_frames |-> FixedDelay, received_packets |-> 3,
   steady_underruns |-> 4, startup_underruns |-> 5, callback_lock_misses |-> 0,
   resyncs |-> 6, scratch_overflows |-> 7, ring_underruns |-> 0,
   ring_missing_frames |-> 0, packet_queue_drops |-> 8,
   audio_latency_frames |-> frames, output_queue_frames |-> 0,
   total_buffered_frames |-> frames, audio_latency_ms |-> frames_to_ms(frames),
   output_queue_ms |-> 0, total_buffered_ms |-> frames_to_ms(frames),
   effective_ratio |-> 9, receiver_time_ns |-> 10]

FeedbackInit ==
  /\ drift \in Drifts
  /\ running = FALSE /\ level = 0 /\ since = 0
  /\ network = {} /\ received = None /\ remote_status = None

\* Enough is buffered: the reader is set FixedDelay behind the newest frame.
StartPlayout ==
  /\ ~running
  /\ running' = TRUE /\ level' = FixedDelay * Subframes
  /\ UNCHANGED <<drift, since, network, received, remote_status>>

\* maybe_print and FeedbackSender::send: the datagram is lost, arrives or
\* arrives twice.
Report(copies) ==
  /\ since = ReportRounds
  /\ Cardinality(network) + copies <= MaxInFlight
  /\ since' = 0
  /\ network' = network \cup {<<BufferLevelFrames, c>> : c \in 1 .. copies}
  /\ UNCHANGED <<drift, running, level, received, remote_status>>

-----------------------------------------------------------------------------
(* The sender's listener thread: receive and parse, lock, store, unlock. *)

\* What BufferLevelFrames may be.
Levels == 0 .. FixedDelay + Tolerance

\* What the types of the code guarantee: the numbers of a status fit its fields.
ASSUME StatusAssumption == \A n \in Levels : FieldsFit(StatusWritten, Padded(StatusOf(n)))

\* What else is sent to the port does not begin with the magic number.
ASSUME StraysAssumption == \A bytes \in Strays : SubSeq(bytes, 1, 4) # STATUS_MAGIC

ParsedStatus == [n \in Levels |-> StatusFromBytes(StatusBytes(StatusOf(n)))]
ParsedStray == [bytes \in Strays |-> StatusFromBytes(bytes)]

Listen(status) ==
  /\ received = None
  /\ received' = IF status.ok THEN status.value ELSE None
  /\ UNCHANGED <<drift, running, level, since, remote_status>>

ReceiveStatus(d) == Listen(ParsedStatus[d[1]]) /\ network' = network \ {d}
ReceiveStray(bytes) == Listen(ParsedStray[bytes]) /\ UNCHANGED network

StoreStatus ==
  /\ received # None
  /\ remote_status' = received /\ received' = None
  /\ UNCHANGED <<drift, running, level, since, network>>

-----------------------------------------------------------------------------
(* A round of the sender's packet thread and of the receiver's callbacks. *)

\* sender_side_asrc_ppm: try_lock fails while the listener stores a status.
Correction(status) ==
  clamp(-(((status.audio_latency_ms - status.target_ms * MsUnit) * AsrcKp) \div MsUnit),
        AsrcMax)
BugUnclamped ==
  IF received # None \/ remote_status = None THEN 0
  ELSE -(((remote_status.audio_latency_ms - remote_status.target_ms * MsUnit) * AsrcKp)
           \div MsUnit)
BugWrongSign ==
  IF received # None \/ remote_status = None THEN 0 ELSE -Correction(remote_status)
SenderCorrection ==
  IF received # None \/ remote_status = None THEN 0 ELSE Correction(remote_status)

\* The listener holds the lock for an assignment, the packet thread's rounds are
\* milliseconds apart: no status makes try_lock fail in two of them.
Round ==
  /\ since < ReportRounds
  /\ since' = since + 1
  /\ level' = IF running THEN level + drift + SenderCorrection - ReceiverCorrection
              ELSE level
  /\ remote_status' = IF received # None THEN received ELSE remote_status
  /\ received' = None
  /\ UNCHANGED <<drift, running, network>>

FeedbackNext ==
  \/ StartPlayout
  \/ \E copies \in 0 .. 2 : Report(copies)
  \/ \E d \in network : ReceiveStatus(d)
  \/ \E bytes \in Strays : ReceiveStray(bytes)
  \/ StoreStatus
  \/ Round

\* All threads keep running; the network promises nothing.
FeedbackSpec ==
  /\ FeedbackInit /\ [][FeedbackNext]_fbVars
  /\ WF_fbVars(StartPlayout) /\ WF_fbVars(StoreStatus) /\ WF_fbVars(Round)
  /\ WF_fbVars(\E copies \in 0 .. 2 : Report(copies))

-----------------------------------------------------------------------------
(* Correctness. *)

\* The sender only ever acts on a status as a receiver builds it: all fields come
\* back from the wire, and no other datagram on the feedback port passes for one
\* (status.rs:74, main.rs:847).
HeldIsAStatus == remote_status # None => \E n \in Levels : remote_status = StatusOf(n)

Abs(x) == IF x < 0 THEN -x ELSE x

\* The largest pull on the level that the receiver's own correction does not
\* choose: a sender's clock and the strongest correction it can be talked into.
Pull(d) == Abs(d) + AsrcMax

\* How far the level may be off on either side: as the tolerance allows, and not
\* below zero.
Room == IF Tolerance <= FixedDelay THEN Tolerance ELSE FixedDelay

\* When the loop can do its work: the receiver's correction is as strong as the
\* pull once the room is used up, the pull takes less than a frame per round, and
\* no round takes the level from the middle to the edge.  The code's limits of 2000
\* ppm and, 10 ms off, 4 * 480 ppm leave room for a drift of 920 ppm next to the
\* default --sender-asrc-max-ppm of 1000.
RatesFit ==
  \A d \in Drifts :
    /\ Pull(d) <= CorrMax /\ Pull(d) <= Room * CorrPerFrame
    /\ Pull(d) <= Subframes
    /\ Pull(d) + CorrMax <= Room * Subframes

\* Rate control alone never interrupts the audio: whatever status the sender
\* holds, however old, repeated or out of order, the level stays where the
\* receiver neither starves nor trims (sender main.rs:881, jitter.rs:586-594).
LevelStaysInBand ==
  running => level >= 0 /\ ErrorFrames \in -Tolerance .. Tolerance

Fresh == remote_status # None
           /\ remote_status.audio_latency_frames - level \div Subframes \in -1 .. 1

\* README.md:470: the feedback corrects a lasting drift.  If the status the
\* sender holds follows the level from some time on, the level ends up closer to
\* the fixed delay than the receiver's own correction can bring it.
DriftIsCorrected ==
  <>[]Fresh => <>[](ErrorFrames * CorrPerFrame \in -Abs(drift) + 1 .. Abs(drift) - 1)
=============================================================================

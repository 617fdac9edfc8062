------------------------------ MODULE CaptureSender ------------------------------
(***************************************************************************)
(* The sender's packet thread: the loop of run_capture_sender and          *)
(* PacketSender::send_frames of sender/src/main.rs.  It takes captured     *)
(* chunks from the capture queue, cuts what is pending into packets of     *)
(* PacketFrames frames and sends them, either as they come or paced to one *)
(* packet every interval.                                                  *)
(*                                                                         *)
(* Audio is left out: `pending' is how many frames wait.  Every test the   *)
(* loop makes of the clock compares Instant::now() with                    *)
(* next_packet_deadline, so only their difference `lag' is kept; it stops  *)
(* growing at MaxLag, past every threshold the loop compares it with.      *)
(* Time passes at any point (Tick).  The interval is computed anew in each *)
(* round from the rate correction the receiver's feedback asks for.        *)
(***************************************************************************)
EXTENDS Integers

CONSTANTS
  PacketFrames,   \* packet_frames(args)
  CatchUp,        \* CAPTURE_PACING_MAX_CATCH_UP_PACKETS
  Burst,          \* CAPTURE_UNPACED_MAX_BURST_PACKETS
  ChunkSizes,     \* frames a captured chunk has after resampling,
  MaxChunk,       \* and the most it has: the pool's buffers are of fixed size
  Intervals,      \* the packet intervals packet_interval may return, in ticks
  SeqModulus,     \* the sequence number's modulus, 2^32
  MaxFrames,      \* bound: frames captured
  MaxLag          \* bound: lag is not counted beyond this

ASSUME SenderAssumption ==
  /\ PacketFrames \in Nat \ {0} /\ CatchUp \in Nat \ {0} /\ Burst \in Nat \ {0}
  /\ SeqModulus \in Nat \ {0} /\ MaxFrames \in Nat /\ MaxLag \in Nat
  /\ MaxChunk \in Nat /\ ChunkSizes \subseteq 0 .. MaxChunk
  /\ Intervals \subseteq Nat \ {0}
  /\ \A i \in Intervals : CatchUp * i < MaxLag

VARIABLES
  pacing,           \* args.capture_packet_pacing.enabled()
  pc,               \* where the loop is
  pending,          \* pending.len()
  lag,              \* Instant::now() - next_packet_deadline
  interval,         \* this round's interval
  sent_packets,     \* packets sent in this round
  sequence, sample_position,   \* PacketSender
  pacing_dropped_frames,       \* SendStats
  captured,         \* frames taken from the capture queue so far
  since             \* history: time since the last packet was due

vars == <<pacing, pc, pending, lag, interval, sent_packets, sequence,
          sample_position, pacing_dropped_frames, captured, since>>
packetVars == <<sequence, sample_position>>

Smaller(a, b) == IF a <= b THEN a ELSE b

TypeOK ==
  /\ pacing \in BOOLEAN
  /\ pc \in {"top", "paced", "limit", "wait", "unpaced", "stopped"}
  /\ pending \in Nat
  /\ lag \in Int /\ lag <= MaxLag
  /\ interval \in Intervals
  /\ sent_packets \in Nat
  /\ sequence \in 0 .. SeqModulus - 1
  /\ sample_position \in Nat
  /\ pacing_dropped_frames \in Nat
  /\ captured \in 0 .. MaxFrames
  /\ since \in 0 .. MaxLag

Init ==
  /\ pacing \in BOOLEAN
  /\ pc = "top" /\ pending = 0 /\ lag = 0 /\ interval \in Intervals
  /\ sent_packets = 0 /\ sequence = 0 /\ sample_position = 0
  /\ pacing_dropped_frames = 0 /\ captured = 0 /\ since = MaxLag

-----------------------------------------------------------------------------
Ready == pending >= PacketFrames

\* trim_pending_to_latest_packets: what is left of pending.
TrimmedPending == Smaller(pending, CatchUp * PacketFrames)

Trim ==
  /\ pending' = TrimmedPending
  /\ pacing_dropped_frames' = pacing_dropped_frames + (pending - TrimmedPending)

BugUnwrappedSequence == sequence + 1
NextSequence == (sequence + 1) % SeqModulus     \* wrapping_add

BugCountCaptured == captured
NextPosition == sample_position + PacketFrames

\* send_frames, and pending.drain(..packet_frames) when it succeeds.
SendPacket ==
  /\ Ready
  /\ sequence' = NextSequence
  /\ sample_position' = NextPosition
  /\ pending' = pending - PacketFrames
  /\ sent_packets' = sent_packets + 1
  /\ since' = lag
  /\ UNCHANGED <<pacing, interval, pacing_dropped_frames, captured>>

\* send_to fails: the error ends the program.
SendFails ==
  /\ Ready
  /\ pc = "unpaced" \/ (pc = "paced" /\ lag >= 0)
  /\ sequence' = NextSequence
  /\ sample_position' = NextPosition
  /\ pc' = "stopped"
  /\ UNCHANGED <<pacing, pending, lag, interval, sent_packets, pacing_dropped_frames,
                 captured, since>>

\* duration_elapsed
Stop ==
  /\ pc = "top"
  /\ pc' = "stopped"
  /\ UNCHANGED <<pacing, pending, lag, interval, sent_packets, packetVars,
                 pacing_dropped_frames, captured, since>>

-----------------------------------------------------------------------------
(* A round with a packet ready and pacing on. *)

\* A sender that fell too far behind gives up what is over the catch-up limit
\* and starts again from now.
BugPutOff == -interval
LagAfterCatchUp == 0

PacedRound ==
  /\ pc = "top" /\ pacing /\ Ready
  /\ interval' \in Intervals
  /\ IF lag > CatchUp * interval'
       THEN Trim /\ lag' = LagAfterCatchUp
       ELSE UNCHANGED <<pending, pacing_dropped_frames, lag>>
  /\ sent_packets' = 0
  /\ pc' = "paced"
  /\ UNCHANGED <<pacing, packetVars, captured, since>>

LagAfterSend == lag - interval       \* next_packet_deadline += interval

PacedSend ==
  /\ pc = "paced" /\ lag >= 0
  /\ SendPacket
  /\ lag' = LagAfterSend
  /\ pc' = IF sent_packets' >= CatchUp THEN "limit" ELSE "paced"

\* The burst is as long as it may be: what is still due is cut down and put off.
LagAfterLimit == -interval

PacedLimit ==
  /\ pc = "limit"
  /\ IF Ready /\ lag >= 0
       THEN Trim /\ lag' = LagAfterLimit
       ELSE UNCHANGED <<pending, pacing_dropped_frames, lag>>
  /\ pc' = "top"
  /\ UNCHANGED <<pacing, interval, sent_packets, packetVars, captured, since>>

\* Nothing (more) is due: round again, or wait first if nothing was sent.
PacedEnd ==
  /\ pc = "paced" /\ ~(Ready /\ lag >= 0)
  /\ pc' = IF sent_packets > 0 THEN "top" ELSE "wait"
  /\ UNCHANGED <<pacing, pending, lag, interval, sent_packets, packetVars,
                 pacing_dropped_frames, captured, since>>

\* wait_until_packet_deadline
WaitUntilPacketDeadline ==
  /\ pc = "wait" /\ lag >= 0
  /\ pc' = "top"
  /\ UNCHANGED <<pacing, pending, lag, interval, sent_packets, packetVars,
                 pacing_dropped_frames, captured, since>>

-----------------------------------------------------------------------------
(* A round with a packet ready and pacing off. *)

UnpacedRound ==
  /\ pc = "top" /\ ~pacing /\ Ready
  /\ interval' \in Intervals
  /\ sent_packets' = 0
  /\ pc' = "unpaced"
  /\ UNCHANGED <<pacing, pending, lag, packetVars, pacing_dropped_frames, captured, since>>

UnpacedSend ==
  /\ pc = "unpaced"
  /\ SendPacket
  /\ pc' = IF sent_packets' >= Burst THEN "top" ELSE "unpaced"
  /\ UNCHANGED lag

UnpacedEnd ==
  /\ pc = "unpaced" /\ ~Ready
  /\ pc' = "top"
  /\ UNCHANGED <<pacing, pending, lag, interval, sent_packets, packetVars,
                 pacing_dropped_frames, captured, since>>

-----------------------------------------------------------------------------
(* A round with no packet ready: recv_timeout and the resampler.           *)

\* A chunk that makes a packet ready makes it due at once.
LagAfterChunk(n) == IF pacing /\ pending + n >= PacketFrames THEN 0 ELSE lag

BugReceiveWhileReady == TRUE
MayReceive == ~Ready

\* A recv_timeout that returns None changes nothing.
RecvChunk(n) ==
  /\ pc = "top" /\ MayReceive /\ captured + n <= MaxFrames
  /\ interval' \in Intervals
  /\ pending' = pending + n
  /\ captured' = captured + n
  /\ lag' = LagAfterChunk(n)
  /\ UNCHANGED <<pacing, pc, sent_packets, packetVars, pacing_dropped_frames, since>>

Tick ==
  /\ pc # "stopped"
  /\ lag' = Smaller(lag + 1, MaxLag) /\ since' = Smaller(since + 1, MaxLag)
  /\ UNCHANGED <<pacing, pc, pending, interval, sent_packets, packetVars,
                 pacing_dropped_frames, captured>>

-----------------------------------------------------------------------------
SendStep ==
  \/ PacedRound \/ PacedSend \/ PacedLimit \/ PacedEnd \/ WaitUntilPacketDeadline
  \/ UnpacedRound \/ UnpacedSend \/ UnpacedEnd \/ SendFails

Next ==
  \/ SendStep \/ Stop \/ Tick
  \/ \E n \in ChunkSizes : RecvChunk(n)

Spec == Init /\ [][Next]_vars

\* The thread keeps running and time passes; no chunk need ever come.
FairSpec == Spec /\ WF_vars(SendStep) /\ WF_vars(Tick)

-----------------------------------------------------------------------------
(* Correctness. *)

\* Every frame taken from the capture queue is pending, in a packet or counted
\* as dropped by pacing (a send that fails ends the program with its packet
\* still pending): no early exit from the burst loops loses or repeats frames.
FramesAreAccountedFor ==
  pc # "stopped" => captured = pending + sample_position + pacing_dropped_frames

\* The packets form the regular stream the jitter buffer expects, whatever was
\* dropped before: packet number k starts at frame k * PacketFrames and carries
\* the sequence number k modulo 2^32 (main.rs:607-614).
StreamIsRegular ==
  /\ sample_position % PacketFrames = 0
  /\ sequence = (sample_position \div PacketFrames) % SeqModulus

\* Chunks are only taken when no packet is ready, so the backlog the sender adds
\* to the latency is less than a packet and a chunk; the rest waits, bounded, in
\* the capture queue (main.rs:929, main.rs:978, main.rs:1003).
BacklogIsBounded == pending < PacketFrames + MaxChunk

\* A packet that is ready is sent, or dropped to catch up, whatever the clock
\* and the rate correction do; the deadline never runs away from the clock.
ReadyIsSent == Ready ~> (~Ready \/ pc = "stopped")

\* README.md:316 says pacing shapes the packets of live capture to packet-ms
\* intervals: a packet is due an interval after the one before it was due.  (Late
\* ones may go out in a burst, so it is the due times that are compared.)
PacketsAreSpaced ==
  [][(pacing /\ sample_position' # sample_position) =>
       since = MaxLag \/ since - lag >= interval]_vars
=============================================================================

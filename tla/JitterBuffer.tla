------------------------------ MODULE JitterBuffer ------------------------------
(***************************************************************************)
(* The receiver's jitter buffer: struct JitterBuffer of                    *)
(* common/src/jitter.rs.  The network hands it packets of one or more      *)
(* streams in any order, any number of times or never (insert_packet); the *)
(* audio callback takes frames out of it (trim_to_playout_buffer_budget,   *)
(* pull_fixed_f32_at_sample_rate).                                         *)
(*                                                                         *)
(* Data abstraction.  A packet is its stream and its number in the stream; *)
(* its audio is left out.  A sender cuts its stream into packets of        *)
(* PacketFrames frames (sender/src/main.rs:599-616), so `packets' is the   *)
(* set of the start positions held.  The f64 read_pos is an integer number *)
(* of sub-frames, Sub to a frame (the code's ppm arithmetic has            *)
(* Sub = 10^6, and its 1.0e-6 is Eps = 1).  The u64 counters of            *)
(* JitterMetrics only ever grow: `counted' is what the last call added.    *)
(***************************************************************************)
EXTENDS Integers, FiniteSets

CONSTANTS
  Streams,        \* stream ids
  None,           \* Rust's Option::None
  MaxPacket,      \* bound: the packets of a stream are 0..MaxPacket
  MaxTime,        \* bound on the clock
  PacketFrames,   \* frames in a packet
  SeqModulus,     \* the sequence number's modulus, 2^32
  PosMod,         \* the modulus of u64 frame arithmetic, 2^64
  FixedDelay,     \* config.fixed_delay_frames
  Capacity,       \* frames_from_ms(config.capacity_ms)
  Tolerance,      \* hard_trim_tolerance_frames()
  MissLimit,      \* config.sample_rate / 2
  RenderSizes,    \* the callback sizes the audio device asks for, in frames
  Sub, Eps,       \* sub-frames in a frame; the rounding slack of read_pos_frame
  Step,           \* sub-frames per output frame: Sub * device_resample_ratio
  CorrPerFrame,   \* FIXED_BUFFER_CORRECTION_PPM_PER_FRAME
  CorrMax,        \* FIXED_BUFFER_CORRECTION_MAX_PPM
  SwitchTimeout,  \* STREAM_SWITCH_TIMEOUT, in ticks
  MaxWait,        \* bound: ticks between a packet's arrival and its insertion
  ClockSync,      \* config.clock_sync
  TickFrames,     \* source frames in a tick of the clock
  DriftTicks      \* the second update_drift_estimate waits for, in ticks

\* Output frames take whole sub-frames and the rendered span is rounded up.
SourceFrames(n) == (n * Step + Sub - 1) \div Sub

ASSUME SizeAssumption ==
  /\ MaxPacket \in Nat /\ MaxTime \in Nat
  /\ SwitchTimeout \in Nat /\ MaxWait \in Nat
  /\ PacketFrames \in Nat \ {0} /\ SeqModulus \in Nat \ {0}
  /\ FixedDelay \in Nat \ {0}     \* receiver/src/main.rs:157
  /\ Tolerance \in Nat \ {0}      \* jitter.rs:614
  /\ Capacity \in Nat /\ MissLimit \in Nat
  /\ RenderSizes \subseteq Nat \ {0}
  /\ ClockSync \in BOOLEAN /\ TickFrames \in Nat \ {0} /\ DriftTicks \in Nat \ {0}
  /\ None \notin Streams /\ None \notin Nat

ASSUME PositionAssumption ==
  /\ Sub \in Nat \ {0} /\ Eps \in 0 .. Sub - 1 /\ Step \in Nat \ {0}
  /\ CorrPerFrame \in Nat /\ CorrMax \in 0 .. Sub - 1
  /\ PosMod \in Nat /\ PosMod > (MaxPacket + 1) * PacketFrames

\* The rate correction moves the reader by less than the excess it corrects:
\* 4 ppm per frame times the source frames of one callback is less than one.
ASSUME GainAssumption ==
  \A n \in RenderSizes : CorrPerFrame * SourceFrames(n) <= Sub

\* A callback has at most as many frames as a frame has sub-frames (20 seconds of
\* audio for Sub = 10^6): what rounding the advances down loses is at most a frame.
ASSUME RoundingAssumption == \A n \in RenderSizes : n <= Sub

\* The capacity, three times the delay and at least 600 ms
\* (receiver/src/main.rs:144), covers what a callback may need.
ASSUME CapacityAssumption ==
  \A n \in RenderSizes :
    FixedDelay + Tolerance + SourceFrames(n) + PacketFrames <= Capacity

VARIABLES
  state,                      \* JitterState
  stream_id,
  packets,                    \* start positions of the packets held
  read_pos,                   \* in sub-frames
  latest_received_end,
  expected_sequence,
  anchor,                     \* first packet since the last clear
  drift,                      \* estimated_drift_ppm, as sender / receiver frames
  last_stream_arrival,
  consecutive_missing_frames,
  now,                        \* the monotonic clock (Instant::now)
  counted,                    \* what the last call added to each counter
  silent,                     \* source frames the last call rendered as silence
  delivered                   \* history: packets accepted since the last clear

jbVars == <<state, stream_id, packets, read_pos, latest_received_end,
            expected_sequence, anchor, drift, last_stream_arrival,
            consecutive_missing_frames>>
vars == <<jbVars, now, counted, silent, delivered>>

JitterState == {"NotStarted", "Priming", "Running", "Resync"}

Counters == {"received", "accepted", "lost", "duplicate", "out_of_order",
             "late", "invalid", "foreign_stream", "output_underruns",
             "startup_underruns", "steady_underruns", "missing_frame_calls",
             "missing_frames", "resyncs", "resyncs_by_stream_change",
             "resyncs_by_underrun"}

Packet == [stream : Streams, number : 0 .. MaxPacket]

StartOf(p) == p.number * PacketFrames
EndOf(p) == StartOf(p) + PacketFrames
SequenceOf(p) == p.number % SeqModulus

\* expected_sequence after a packet: wrapping_add.
BugUnwrappedNext(p) == SequenceOf(p) + 1
NextSequence(p) == (SequenceOf(p) + 1) % SeqModulus
Starts == {k * PacketFrames : k \in 0 .. MaxPacket}
LastEnd == (MaxPacket + 1) * PacketFrames

-----------------------------------------------------------------------------
(* Helpers of the source.                                                  *)

Larger(a, b) == IF a >= b THEN a ELSE b
Smaller(a, b) == IF a <= b THEN a ELSE b
Clamp(x, lo, hi) == Larger(lo, Smaller(x, hi))

Inc(S) == [c \in Counters |-> IF c \in S THEN 1 ELSE 0]

ReadFrame(rp) == (rp + Eps) \div Sub

\* buffer_level_frames, for a reader at rp.
Level(rp) == Larger(0, latest_received_end - ReadFrame(rp))

\* trim_to_buffer_depth: only ever forwards; the u64 subtraction wraps.
TrimTo(rp, depth) ==
  Larger(rp, ((latest_received_end - depth) % PosMod) * Sub)

\* update_sequence_metrics: what sequence number q adds to lost and
\* out_of_order, seen from the number expected.
Forward(q) == (q - expected_sequence) % SeqModulus
IsGap(q) == /\ expected_sequence # None
            /\ 0 < Forward(q) /\ Forward(q) < (SeqModulus - 1) \div 2
IsBackward(q) == /\ expected_sequence # None
                 /\ (SeqModulus - 1) \div 2 <= Forward(q) /\ 0 < Forward(q)
CountSequence(q, counts) ==
  [counts EXCEPT !["lost"] = IF IsGap(q) THEN Forward(q) ELSE 0,
                 !["out_of_order"] = IF IsBackward(q) THEN 1 ELSE 0]

\* When a packet that is inserted now may have arrived: the UDP thread stamps it
\* and it waits for the audio callback in between.
Arrivals == {t \in 0 .. now : now - t <= MaxWait}

\* current_stream_is_active: a stamp before the last one has no duration since it.
StreamIsActive(arrival) ==
  /\ last_stream_arrival # None
  /\ arrival >= last_stream_arrival
  /\ arrival - last_stream_arrival < SwitchTimeout

\* drop_over_capacity removes from the oldest end while the span is too long.
WithinCapacity(S, newest) == {s \in S : newest - s <= Capacity}

\* prune_played_packets keeps one frame behind the reader for interpolation.
BugPruneOnStart(S, rp) == {s \in S : s >= ReadFrame(rp)}
NotPlayed(S, rp) == {s \in S : s + PacketFrames + 1 >= ReadFrame(rp)}

\* sample_at_cached
Held(f) == \E s \in packets : s <= f /\ f < s + PacketFrames

\* clear_for_resync: nothing of the old stream, or of the time before the
\* underrun, stays in the buffer.
BugKeepPackets == packets
ClearedPackets == {}
ClearedEnd == 0

\* sync_read_pos_to_playout_clock: where the sender's clock says the reader
\* should be, never within two frames of the newest one and never backwards.
ClockTarget(src) ==
  anchor.position * Sub
    + ((now - anchor.arrival) * TickFrames * Sub * drift.sender) \div drift.receiver
    - (FixedDelay + src) * Sub
BugSyncBackwards(src) ==
  IF ClockSync /\ anchor # None
    THEN Larger(0, Smaller(ClockTarget(src),
                           Larger(0, latest_received_end - 2) * Sub))
    ELSE read_pos
SyncedReadPos(src) ==
  IF ClockSync /\ anchor # None
    THEN Larger(read_pos, Smaller(ClockTarget(src),
                                  Larger(0, latest_received_end - 2) * Sub))
    ELSE read_pos

\* A reader that was moved forward starts a new count of missing frames.
MissingAfterMove(from, to, missing) == IF to > from THEN 0 ELSE missing

-----------------------------------------------------------------------------
Init ==
  /\ state = "NotStarted" /\ stream_id = None /\ packets = {}
  /\ read_pos = 0 /\ latest_received_end = 0 /\ expected_sequence = None
  /\ anchor = None /\ drift = [sender |-> 1, receiver |-> 1]
  /\ last_stream_arrival = None /\ consecutive_missing_frames = 0
  /\ now = 0 /\ counted = Inc({}) /\ silent = {} /\ delivered = {}

\* The record both update_drift_estimate (first_drift_*) and
\* update_clock_sync_anchor keep of the first packet after a clear.
AnchorAt(p, arrival) == [position |-> StartOf(p), arrival |-> arrival]

(* insert_packet, one action for each way it returns. *)

\* Another stream's packet while the current stream is active.
RejectForeign(p, arrival) ==
  /\ stream_id \notin {None, p.stream} /\ StreamIsActive(arrival)
  /\ counted' = Inc({"received", "foreign_stream"})
  /\ silent' = {}
  /\ UNCHANGED <<jbVars, now, delivered>>

\* The first packet ever, or the first of a stream that replaces a silent one
\* (clear_for_resync(StreamChange), then the packet is taken as usual).
StartStream(p, arrival) ==
  /\ stream_id # p.stream
  /\ stream_id # None => ~StreamIsActive(arrival)
  /\ state' = "Priming"
  /\ stream_id' = p.stream
  /\ read_pos' = StartOf(p) * Sub
  /\ latest_received_end' = Larger(ClearedEnd, EndOf(p))
  /\ packets' = WithinCapacity(ClearedPackets \cup {StartOf(p)},
                               Larger(ClearedEnd, EndOf(p)))
  /\ expected_sequence' = NextSequence(p)
  /\ anchor' = AnchorAt(p, arrival)
  /\ last_stream_arrival' = arrival
  /\ consecutive_missing_frames' = 0
  /\ counted' = Inc({"received", "accepted"} \cup
                   IF stream_id = None THEN {}
                   ELSE {"resyncs", "resyncs_by_stream_change"})
  /\ silent' = {} /\ delivered' = {StartOf(p)}
  /\ UNCHANGED <<drift, now>>

\* A packet already played, while Running; it does not keep the stream active.
IsLate(p) == state = "Running" /\ EndOf(p) <= read_pos \div Sub

RejectLate(p) ==
  /\ stream_id = p.stream /\ IsLate(p)
  /\ expected_sequence' = NextSequence(p)
  /\ counted' = CountSequence(SequenceOf(p), Inc({"received", "late"}))
  /\ silent' = {}
  /\ UNCHANGED <<state, stream_id, packets, read_pos, latest_received_end, anchor,
                 drift, last_stream_arrival, consecutive_missing_frames,
                 now, delivered>>

RejectDuplicate(p) ==
  /\ stream_id = p.stream /\ ~IsLate(p) /\ StartOf(p) \in packets
  /\ expected_sequence' = NextSequence(p)
  /\ counted' = CountSequence(SequenceOf(p), Inc({"received", "duplicate"}))
  /\ silent' = {}
  /\ UNCHANGED <<state, stream_id, packets, read_pos, latest_received_end, anchor,
                 drift, last_stream_arrival, consecutive_missing_frames,
                 now, delivered>>

\* update_drift_estimate measures the sender's rate once DriftTicks have passed.
DriftAfter(p, arrival) ==
  IF anchor # None /\ arrival - anchor.arrival >= DriftTicks
    THEN [sender   |-> Larger(0, StartOf(p) - anchor.position),
          receiver |-> (arrival - anchor.arrival) * TickFrames]
    ELSE drift

AcceptPacket(p, arrival) ==
  LET newest == Larger(latest_received_end, EndOf(p))
      held   == packets \cup {StartOf(p)}
      kept   == WithinCapacity(held, newest)
  IN
  /\ stream_id = p.stream /\ ~IsLate(p) /\ StartOf(p) \notin packets
  /\ packets' = kept
  /\ latest_received_end' = newest
  /\ expected_sequence' = NextSequence(p)
  /\ anchor' = IF anchor = None THEN AnchorAt(p, arrival) ELSE anchor
  /\ drift' = DriftAfter(p, arrival)
  /\ last_stream_arrival' = arrival
  /\ counted' = [CountSequence(SequenceOf(p), Inc({"received", "accepted"}))
                   EXCEPT !["late"] = Cardinality(held \ kept)]
  /\ silent' = {} /\ delivered' = delivered \cup {StartOf(p)}
  /\ UNCHANGED <<state, stream_id, read_pos, consecutive_missing_frames, now>>

InsertPacket(p, arrival) ==
  \/ RejectForeign(p, arrival) \/ StartStream(p, arrival) \/ RejectLate(p)
  \/ RejectDuplicate(p) \/ AcceptPacket(p, arrival)

\* record_invalid_packet: a datagram that does not parse.
RecordInvalidPacket ==
  /\ counted' = Inc({"received", "invalid"}) /\ silent' = {}
  /\ UNCHANGED <<jbVars, now, delivered>>

-----------------------------------------------------------------------------
(* The playout side. *)

\* trim_to_playout_buffer_budget(0), when it trims.
OverBudget ==
  /\ stream_id # None /\ state # "NotStarted"
  /\ Level(read_pos) > FixedDelay + Tolerance

TrimToPlayoutBufferBudget ==
  LET rp == TrimTo(read_pos, FixedDelay) IN
  /\ OverBudget
  /\ read_pos' = rp
  /\ consecutive_missing_frames' =
       MissingAfterMove(read_pos, rp, consecutive_missing_frames)
  /\ counted' = Inc({}) /\ silent' = {}
  /\ UNCHANGED <<state, stream_id, packets, latest_received_end, expected_sequence,
                 anchor, drift, last_stream_arrival, now, delivered>>

\* prepare_fixed_buffer, for a reader at rp that is to render src frames.
BugStartEarly(rp, src) == Level(rp) < src
Starved(rp, src) ==
  IF state = "Running" THEN Level(rp) < src ELSE Level(rp) < FixedDelay + src
BugTrimOnStartOnly(rp, src) == state # "Running"
MustTrim(rp, src) ==
  state # "Running" \/ Level(rp) - (FixedDelay + src) > Tolerance
PreparedReadPos(rp, src) ==
  IF MustTrim(rp, src) THEN TrimTo(rp, FixedDelay + src) ELSE rp
Correction(rp, src) ==
  IF MustTrim(rp, src) THEN 0
  ELSE Clamp((Level(rp) - (FixedDelay + src)) * CorrPerFrame, -CorrMax, CorrMax)

\* The sub-frames each output frame advances the reader: effective_resample_ratio.
Advance(correction) == Step + (Step * correction) \div Sub

\* The source frame under each of the n output frames from rp.
FrameUnder(rp, adv, i) == (rp + (i - 1) * adv) \div Sub
SilentOutputs(rp, adv, n) == {i \in 1 .. n : ~Held(FrameUnder(rp, adv, i))}

\* consecutive_missing_frames after the loop, from the value before it.
MissingRun(quiet, n, missing) ==
  Cardinality({i \in 1 .. n : i .. n \subseteq quiet})
    + IF quiet = 1 .. n THEN missing ELSE 0

\* Silence with fewer than two frames left, or silence for too long.
IsUnderrun(quiet, level) == quiet # {} /\ level < 2
BugUnderrunOnly(quiet, level, missing) == IsUnderrun(quiet, level)
NeedsResync(quiet, level, missing) ==
  IsUnderrun(quiet, level) \/ (quiet # {} /\ missing > MissLimit)

\* No audio in this callback: too little is buffered (again).
PullSilence(n) ==
  LET src == SourceFrames(n)
      rp  == SyncedReadPos(src)
  IN
  /\ Starved(rp, src)
  /\ state' = "Priming"
  /\ read_pos' = rp
  /\ consecutive_missing_frames' =
       MissingAfterMove(read_pos, rp, consecutive_missing_frames)
  /\ counted' = Inc(IF stream_id # None THEN {"startup_underruns"} ELSE {})
  /\ silent' = {}
  /\ UNCHANGED <<stream_id, packets, latest_received_end, expected_sequence,
                 anchor, drift, last_stream_arrival, now, delivered>>

\* Render n frames; resync when silence came with an empty buffer or lasted.
PullRender(n) ==
  LET src     == SourceFrames(n)
      synced  == SyncedReadPos(src)
      from    == PreparedReadPos(synced, src)
      adv     == Advance(Correction(synced, src))
      to      == from + n * adv
      quiet   == SilentOutputs(from, adv, n)
      missing == MissingRun(quiet, n,
                   MissingAfterMove(read_pos, from, consecutive_missing_frames))
      empty   == IsUnderrun(quiet, Level(to))
      resync  == NeedsResync(quiet, Level(to), missing)
  IN
  /\ ~Starved(synced, src)
  /\ read_pos' = to
  /\ silent' = {FrameUnder(from, adv, i) : i \in quiet}
  /\ counted' = [Inc((IF quiet = {} THEN {} ELSE {"missing_frame_calls"}) \cup
                    (IF empty THEN {"output_underruns", "steady_underruns"}
                     ELSE {}) \cup
                    (IF resync THEN {"resyncs", "resyncs_by_underrun"} ELSE {}))
                 EXCEPT !["missing_frames"] = Cardinality(quiet)]
  /\ IF resync
       THEN \* clear_for_resync(Underrun); nothing is left to prune
            /\ state' = "Resync"
            /\ packets' = ClearedPackets /\ latest_received_end' = ClearedEnd
            /\ expected_sequence' = None /\ anchor' = None
            /\ last_stream_arrival' = None
            /\ consecutive_missing_frames' = 0
            /\ delivered' = {}
       ELSE /\ state' = "Running"
            /\ packets' = NotPlayed(packets, to)
            /\ consecutive_missing_frames' = missing
            /\ UNCHANGED <<latest_received_end, expected_sequence, anchor,
                           last_stream_arrival, delivered>>
  /\ UNCHANGED <<stream_id, drift, now>>

Pull(n) == PullSilence(n) \/ PullRender(n)

Tick ==
  /\ now < MaxTime
  /\ now' = now + 1 /\ counted' = Inc({}) /\ silent' = {}
  /\ UNCHANGED <<jbVars, delivered>>

Next ==
  \/ \E p \in Packet, arrival \in Arrivals : InsertPacket(p, arrival)
  \/ RecordInvalidPacket
  \/ TrimToPlayoutBufferBudget
  \/ \E n \in RenderSizes : Pull(n)
  \/ Tick

Spec == Init /\ [][Next]_vars

-----------------------------------------------------------------------------
(* Correctness. *)

\* One type invariant.
TypeOK ==
  /\ state \in JitterState
  /\ stream_id \in Streams \cup {None}
  /\ packets \subseteq Starts /\ delivered \subseteq Starts
  /\ read_pos \in Nat
  /\ latest_received_end \in 0 .. LastEnd
  /\ expected_sequence \in (0 .. SeqModulus - 1) \cup {None}
  /\ anchor \in [position : Starts, arrival : 0 .. now] \cup {None}
  /\ drift \in [sender : Nat, receiver : Nat \ {0}]
  /\ last_stream_arrival \in (0 .. now) \cup {None}
  /\ consecutive_missing_frames \in Nat
  /\ now \in 0 .. MaxTime
  /\ counted \in [Counters -> Nat]
  /\ silent \in SUBSET Nat

\* No callback renders past the data: whatever rate correction, trimming and
\* clock sync do to the reader, a frame it renders as silence is a gap before the
\* newest frame received, or at most the one it is about to reach.  Starvation is
\* seen before a callback renders, and the unchecked subtraction of
\* trim_to_buffer_depth does not wrap (jitter.rs:572-610).
RendersBehindNewest == [][\A f \in silent' : f <= latest_received_end]_vars

\* The half-second rule: between calls the run of missing frames the buffer
\* knows of is never past the limit that forces a resync (jitter.rs:418).
SilenceRunBounded == consecutive_missing_frames <= MissLimit

\* What is buffered, and the newest position the level is measured from, come
\* from the current stream and from after the last resync: two streams are never
\* mixed and a stream that restarts at position 0 is not measured against the
\* positions of the one it replaces (jitter.rs:656).
BufferIsCurrentStream ==
  /\ packets \subseteq delivered
  /\ delivered = {} => latest_received_end = 0
  /\ delivered # {} =>
       /\ latest_received_end - PacketFrames \in delivered
       /\ \A s \in delivered : s + PacketFrames <= latest_received_end

\* A packet leaves the buffer for one of two reasons only: it lies wholly behind
\* the reader, or so far behind the newest frame that the capacity is exceeded
\* (prune_played_packets, drop_over_capacity; jitter.rs:619-646).
ReceivedIsAccountedFor ==
  \A s \in delivered : \/ s \in packets
                       \/ s + PacketFrames + 1 < ReadFrame(read_pos)
                       \/ latest_received_end - s > Capacity

\* Within a stream the reader never moves back: neither a trim, nor the clock,
\* nor a resync repeats audio (jitter.rs:606, jitter.rs:547).
ReaderNeverBacktracks ==
  [][stream_id' = stream_id => read_pos' >= read_pos]_vars

\* Every frame rendered as silence is one that was not received since the last
\* resync: pruning, the capacity limit and trimming never take away a frame the
\* reader is still to play (jitter.rs:619, jitter.rs:632).
ReceivedAudioIsPlayed ==
  [][\A f \in silent' : ~\E s \in delivered : s <= f /\ f < s + PacketFrames]_vars

Depth == latest_received_end - ReadFrame(read_pos)

\* Whenever the playing reader moves, it is left at most the configured delay
\* plus the tolerance (and a frame of rounding) behind the newest frame; when
\* playback starts it is left the delay behind, to the frame (jitter.rs:572-602).
DelayIsHeld ==
  [][(state' = "Running" /\ read_pos' # read_pos) =>
       /\ Depth' <= FixedDelay + Tolerance + 1
       /\ state # "Running" => Depth' \in FixedDelay .. FixedDelay + 1]_vars
=============================================================================

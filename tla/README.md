# my-lan-audio: a TLA+ development

my-lan-audio sends live audio over UDP from one computer to another.  A sender
captures audio, cuts it into numbered packets and sends them; the receiver
collects them in a jitter buffer of a fixed delay and plays them in the callback
of its audio device.  The parts that are hard to test are those where a
real-time callback, which must not block, meets a thread that may, and where the
positions of a stream are computed with unsigned arithmetic from what an
unreliable network delivers.  They are what this development models.

Sources are named relative to the repository.  Line numbers are those of the
commit the models were made from; `PROJECT.json` maps every definition to its
lines.

## The system

| Component | State | Operations | Modules |
|---|---|---|---|
| Jitter buffer, `common/src/jitter.rs` | packets by position, the reader's position, newest position, expected sequence number, clock anchor, drift estimate, run of missing frames, state | `insert_packet`, `record_invalid_packet`, `trim_to_playout_buffer_budget`, `pull_f32_at_sample_rate_with_playout_clock` | JitterBuffer |
| Capture queue, `sender/src/main.rs:304-563` | queue of chunks, pool of buffers, mutex, condition variable | `push_input_realtime`, `recv_timeout`, `CaptureChunk::drop` | CaptureQueue |
| Packet thread, `sender/src/main.rs:565-1030` | pending frames, deadline of the next packet, sequence number, stream position | `run_capture_sender`, `PacketSender::send_frames` | CaptureSender |
| UDP thread and event queue, `receiver/src/main.rs:227-267, 471-523` | receive buffer, bounded lock-free queue, counters | `spawn_udp_receiver`, `push_drop_oldest`, `drain_into`, `send_receiver_event` | ReceiverQueue, Receiver |
| Audio callback, `receiver/src/main.rs:660-715` | scratch buffers, last frame | drain, process, trim, pull, publish | Receiver; its publish in ReceiverMetrics |
| Receiver metrics, `receiver/src/main.rs:269-469, 865-1053` | gaps between packets, current and foreign stream, snapshot and buffer samples, each behind a mutex | `record_packet_timing`, `record_stream_source`, `publish`, `maybe_print` | ReceiverMetrics |
| Windows sender, `w-sender/src` | packetizer, WASAPI event and buffers, stop flag | `capture_loop`, `drain_capture`, `packetize_capture_chunk`, `main` | WSender |
| Feedback, `receiver/src/main.rs:835-863, 1021-1046`, `sender/src/main.rs:836-883` | last status received, behind a mutex | `FeedbackSender::send`, `spawn_feedback_listener`, `sender_side_asrc_ppm` | Feedback |
| Packet and status formats, `common/src/packet.rs`, `common/src/status.rs` | none | write, parse | Wire |
| Resampler, `common/src/resampler.rs` | ratio, read position, buffered frames | `push`, `set_effective_target_rate` | Resampler |
| Receiver arguments, `receiver/src/main.rs:98-170` | none | `ReceiverTiming::from_args`, `validate_audio_args` | ReceiverConfig |
| Sample utilities, other arguments, device selection, thread priority, scripts | | | not modelled: pure conversions and I/O |

How they interact.  In the sender the device's capture callback offers chunks to
the capture queue; the packet thread takes them, resamples them, and sends
packets to the socket.  In the receiver the UDP thread pushes parsed packets into
the event queue; the output callback drains the queue into the jitter buffer,
trims it, pulls the frames it has to play and publishes the buffer's metrics; the
main thread reports them and sends a status back to the sender, which bends its
packet rate accordingly.  No lock is shared between the UDP thread and the
callback, and every lock a callback shares with another thread is only tried.

What is hard, and what makes each part correct:

- *Jitter buffer.*  Packets are lost, repeated, late and reordered while the
  reader is moved by rendering, trims, rate correction and clock sync, and the
  stream may be replaced by another.  A callback must never render past the
  newest frame (the unsigned subtractions rely on it), the reader must never go
  back or leave received audio unplayed, and the delay must stay what was
  configured.
- *Queues.*  Producer and consumer meet inside a lock attempt, between a failed
  push and the pop that follows it, between a test and a wait.  Every item must
  be handed over once, in order, or be counted as dropped; no buffer may leak; a
  queued item must not be slept over.
- *Packet thread.*  Deadlines, catch-up and burst limits interact with late
  wake-ups and changing intervals.  No frame may be lost or repeated without
  count, the stream must stay regular, the backlog bounded, and a ready packet
  must be sent.
- *Metrics.*  Updates are skipped on a lock miss.  What is reported must still
  be of some use: no sample twice, no rate that wraps, no stall hidden.
- *Receiver as a whole.*  The UDP thread and the callback interleave while the
  jitter buffer is fed, trimmed and read.  A datagram is parsed to what was sent
  or is no audio at all; whatever is in the queue when a callback begins is there
  when its place is played; the receiver catches up once datagrams stop.
- *Feedback.*  Two controllers act on the same level, one of them on a status
  that may be old, repeated or out of order.  Together they must not drive the
  level out of the band in which the receiver plays without interruption, and
  they should correct a lasting drift.
- *Resampler.*  Its position is carried across chunks of any size and changes of
  the ratio.  It must not lose time, nor drop frames it does not have.
- *Windows sender.*  Any WASAPI call may fail and the event resets itself.  The
  device must get its buffers back, captured audio must be drained and the
  program must end.

The list of hazards, each at its line and with the properties that cover it, is
in `PROJECT.json`.

## The modules

**JitterBuffer** has one action for each way `insert_packet` returns
(`RejectForeign`, `StartStream`, `RejectLate`, `RejectDuplicate`,
`AcceptPacket`), `RecordInvalidPacket`, `TrimToPlayoutBufferBudget`, and
`PullSilence` and `PullRender` for the two outcomes of a pull.  The f64 position
is an integer number of sub-frames; with `Sub = 10^6` and `Eps = 1` these are the
code's parts per million and its `1.0e-6`.  The device's resampling ratio is
`Step / Sub`.  `packets` is the set of positions held, `counted` is what the last
call added to each counter, `silent` the source frames it rendered as silence,
and the history `delivered` the packets accepted since the last clear.  The
operations are separate actions because they are the buffer's interface; the
receiver's callback performs insertions, trim and pull in this order, which is
one of the orders the model allows, so every property here holds of it; module
Receiver has that order.
Packets have a fixed number of frames, as those of `sender` do; the packets of
`w-sender` vary and are not covered by this module.  A packet's arrival stamp may
be up to `MaxWait` older than its insertion, since it waits in the event queue.
A packet with a wrong rate or channel count is rejected when it is parsed
(`common/src/packet.rs:124`), so the second test of it in `insert_packet` is not
reached from the receiver.

**LossyFifo** is the abstract specification of both hand-over queues: items are
offered in order, may be refused or thrown away from the oldest end, and are
otherwise taken in order, never more than `Bound` waiting.

**CaptureQueue** has a step for each acquisition and release of the mutex, with
the condition variable's wait in between (which may end for no reason).  A chunk
is the number of its callback, and the pool is the number of its free buffers.
`mode` is chosen at the start and stays, as the program's option does; so is
`pacing` in CaptureSender.
The two branches that recover from a poisoned mutex, and a popped buffer that is
too small (all are made with the same capacity), are left out.

**ReceiverQueue** has a step for each atomic operation of the lock-free queue and
each counter.  A callback that is larger than the scratch buffer returns before
it touches the queue, and a receive error is only logged: both are stuttering
steps.

**Wire** has the two datagram formats as operators on sequences of bytes.  The
writer and the reader of a format each have their own list of fields, as in the
code, so that a slip in one of them shows.  `Byte` is the number of values of a
byte: 256 in the code, 16 in the runs, where TLC's integers must hold an
eight-byte field.  A wide integer is written as its lower and its upper half, and
a list of fields by way of `Cursor`, which gives the offset of each: byte by byte
the order of `to_le_bytes`, in a form that can be reasoned about for any list.

**ReceiverConfig** is the arithmetic by which the receiver turns its arguments
into delay, capacity and tolerance.  The runs of Receiver and Feedback take their
sizes from it.

**Receiver** composes ReceiverQueue, JitterBuffer and Wire: a datagram is bytes,
cut off at the receive buffer, parsed, stamped and queued; the callback drains
the queue, inserts the packets one by one, trims and renders.  Each of its steps
is a step of ReceiverQueue and a step of JitterBuffer, or leaves that part
unchanged (`ReceiverRunsQueue`, `ReceiverRunsBuffer`), so what is proved of the
parts holds in it.  Senders send what they like, any number of times and in any
order; other datagrams on the port (`Strays`) do not begin with the magic number.

**Feedback** is the control loop of both programs.  `level` is the receiver's
buffer in sub-frames, and a round moves it by the drift of the two devices and
the two corrections.  The receiver reports the level every `ReportRounds` rounds;
a status is lost, sent once or twice, and delivered at any later time in any
order.  The listener takes the lock, stores and unlocks; the packet thread's
`try_lock` misses while it does, and then corrects by 0.  It misses for one round
at most: the listener holds the lock for one assignment while rounds are
milliseconds apart.  The model is that of a sender started with
`--sender-side-asrc` and a feedback port; without them the correction is 0.

**Resampler** is `StreamingLinearResampler` with positions in whole sub-frames
and without samples; the loop of `push` is a step for each output frame.
`ResampleLinear` is the one-buffer function of the same file, the reference for
the streaming one.

**CaptureSender** is the loop of `run_capture_sender`.  The loop looks at the
clock only through its distance to `next_packet_deadline`, so the model keeps
`lag`, the difference, and lets it saturate above every threshold.  Time passes
between any two steps.  Rate correction is the choice of a new interval each
round.  A send error ends the program.  A `recv_timeout` that returns `None`
changes nothing.

**ReceiverMetrics** has the UDP thread, the callback and the main thread with the
mutexes they share.  A sender is a stream id with a socket address (one stream
id from two addresses is not considered).  Counters are one counter that grows
with every packet, a buffer sample is the number of its callback.  The critical
sections in which the UDP thread or the callback hold a mutex that only the main
thread waits for are single steps; the sections in which they can miss are split.

**WSender** is the capture thread, with WASAPI as an external device that queues
packets, sets its event after each and may fail at any call, and the main thread.
Audio is left out: a captured packet is its number of frames, and frames that
cannot be read are `ReadFails`.

**MCJitterBuffer** adds the symmetry of stream ids, **MCReceiverMetrics** two
senders whose clocks differ by more than the run lasts, **MCReceiver** the
receiver's arguments and what two senders send, **MCFeedback** an audio packet on
the feedback port.  **SharedLemmas** holds the facts used by several components,
on remainders, queues, sequences by position and the formats, with the theorems
about the formats; the modules ending in **Proofs** hold the other theorems.

## The runs

| Run | Distinct states | What it shows |
|---|---|---|
| jitter | 220367 | one stream, six packets in any order, repeated or lost, two callback sizes |
| jitter_clock | 970580 | two streams and the switch timeout, late arrival stamps, clock sync with a measured drift, resampling by 5/4 |
| capture_queue | 9628 | six callbacks against the packet thread, two queue modes |
| receiver | 1467841 | three datagrams of two senders and strays, from bytes to rendered frames, through a queue of two |
| receiver_start | violation | finding 1 |
| capture_sender | 13271 | fourteen captured frames in packets of two, pacing on and off |
| sender_spacing | violation | finding 2 |
| receiver_metrics | 7398720 | UDP thread, callback and report, two senders |
| w_sender | 48857 | three device packets, every call failing anywhere |
| resampler | 12201 | twelve frames in chunks of 0, 1, 2 and 5, ratios from 9/10 to 2 |
| resampler_drain | violation | finding 3 |
| feedback | 281252 | drift in either direction, four rounds to a report, two status datagrams under way |

Bounds and why they suffice.  In the jitter runs a packet is two frames, the
delay three (or two), so that a packet boundary falls inside the delay; sequence
numbers wrap at 4, within the packets sent; the capacity is smaller than the
stream, so it is reached; `MissLimit` is 2, so the half-second rule fires; a frame
has four sub-frames, so corrections leave fractional positions.  Clock sync only
moves the reader when its target is ahead, so the two-stream run with clock sync
also has the switches of streams where it does nothing.  Six callbacks
against a queue of two fill it, replace in it and empty it again at every point
of the packet thread's cycle.  Three datagrams fill the receiver's queue of two
and make it drop one, and are the fewest that leave a hole before the newest
packet; the tolerance of 4 frames is above the callback's 2, so that playback
starts; the receive buffer of 60 bytes holds a packet of two frames and not
one of three.  In the feedback run the extreme sender correction (3) is as large
as the drift, half the receiver's own limit (6), and a level error of a frame is
corrected by 1 sub-frame a round, a twelfth of a frame, so the loop has time to
overshoot; reports are old by up to four rounds and by as much as the network
adds.  The resampler's ratios include both sides of 1, 1 itself (the pass-through
branch, entered and left) and 2, the largest for which `push` is safe.  The sender's
chunks (none, less than two packets, more than the catch-up limit of two) and a
`MaxLag` above `CatchUp * interval` reach every branch.  Sequence numbers there
wrap at 3.  In the metrics run two callbacks and three packets with a window of
one sample overflow it, and two ticks make a pause between packets.
Captured packets of 2 and 5 frames are one packet, and two packets and a
remainder.

Deadlock is checked except in the runs of the two senders, which end (`Stop`,
`SendFails`, `Join`), and in resampler_drain, which stops at its bound.

Fairness.  Weak fairness of a thread's own steps stands for the operating system
scheduling it; the device keeps calling the receiver back and time goes on.  A
blocking `Mutex::lock` gets strong fairness: it returns if the mutex is free
again and again.  Nothing forces a datagram, a chunk or a callback of the capture
device to come.  In WSender the device sets its event after it queued a packet,
and strong fairness of `GetBuffer` says that a device with a packet does not
answer "empty", or fail to answer, for ever.  In Feedback the threads of both
programs are fair and the network promises nothing; `DriftIsCorrected` is
therefore conditional on the status being fresh from some time on.  The liveness
properties: `QueuedIsHandled`, `DatagramsReachBuffer`, `ReadyIsSent`,
`CaptureIsDrained`, `ShutdownCompletes`, `DriftIsCorrected`.

Every property has a mutant in `PROJECT.json`, a definition starting with `Bug`
that changes one mapped definition the way a slip in the code would, under which
TLC finds the property violated.

## Where the code and its documents differ

1. `TrimLeavesEnough`: the callback trims to the fixed delay whatever exceeds
   delay plus tolerance (`receiver/src/main.rs:697`, `jitter.rs:476`), then the
   pull starts only with delay plus the frames it renders (`jitter.rs:329, 579`).
   A callback that renders more than the tolerance (10 ms for delays up to
   100 ms) never finds that much: the receiver stays silent, with packets coming
   in.  The run shows one callback of it; `LargeCallbacksNeverPlay` proves that
   such a receiver never plays.  PLAN.md:577 says playback starts once enough is buffered.
2. `PacketsAreSpaced`: with pacing on, a chunk that completes a packet makes it
   due at once although the last one was sent less than an interval ago
   (`sender/src/main.rs:1014-1019`, README.md:316).
3. `DrainInBounds` with more than two input frames per output frame: the last
   step of `push` carries the reader more than a frame past the end of the
   buffer and `buffer.drain(..drop)` panics (`resampler.rs:81`).  A capture
   device above 96 kHz reaches this, and one of 96 kHz with a negative rate
   correction (README.md:24).

Met while modelling, without a run of their own:

- A Running buffer that starves goes back to Priming and counts a *startup*
  underrun (`jitter.rs:331-340, 586`), while README.md:418 and 548 judge steady
  operation by `steady_under`.
- The callback drains up to the whole queue (2048 by default) into a vector of
  capacity 256, whose `push` then allocates (`receiver/src/main.rs:264, 673`);
  UPDATE.md:507 says the callback no longer allocates.
- An arrival that is skipped because the report holds the mutex makes
  `arrival_gap_max` longer than any interval there was
  (`receiver/src/main.rs:323`, README.md:416).
- A change of stream whose record is skipped because the report holds the mutex
  leaves the stream that plays on display as the foreign one, until a packet of
  another foreign stream or the next change of stream is recorded
  (`receiver/src/main.rs:363`).
- `push_drop_oldest` reports a drop even if the callback had emptied the queue
  before the pop (`receiver/src/main.rs:254`); `LossIsReported` therefore bounds
  the losses by the count and not the other way round.
- A status that is overtaken overwrites the newer one it was overtaken by
  (`sender/src/main.rs:853`); it carries `receiver_time_ns`, which nobody reads.
  `LevelStaysInBand` says that this alone does no harm.
- `target_ms` of a status is rounded up to a millisecond, so the sender steers
  towards a level up to a millisecond above the receiver's own target.
- A packet of more than 499 frames does not fit the receive buffer of 2048 bytes
  and is rejected (`ParsedIsSent`); the sender's limit is 65535
  (`sender/src/main.rs:830`).
- An underrun resync forgets when the current stream was last heard
  (`jitter.rs:662`), so a foreign stream may take over at once.
- A discontinuity that WASAPI reports is counted and does not move
  `sample_position` (`w-sender/src/wasapi.rs:219`).

## What is proved

All theorems hold for every value of the constants that satisfies the named
assumptions.  Most of these are the code's own checks (positive capacities,
delay, packet size) and the ranges of its types: `SentAssumption` and
`StatusAssumption` say that the numbers of a packet or a status fit their fields,
`StraysAssumption` that anything else sent to a port does not begin with its
magic number, `ByteAssumption` that the two sizes and the sample rate fit theirs
(`Byte` is 256 in the code; 15 is enough).  The others are facts about the
configuration, and TLC evaluates them in the runs:

- `GainAssumption`: the rate correction of a callback is less than the excess it
  corrects (4 ppm per frame).  `CapacityAssumption`: the capacity covers delay,
  tolerance, a callback and a packet.  `RoundingAssumption`: a callback has at
  most 10^6 frames, so that rounding its advances loses at most a frame.
- `MaxTime <= MaxWait` for a Receiver: a packet's stamp is at most `MaxWait` old
  when it is inserted; both only bound the model.
- `AtMostTwo` for the resampler: at most two input frames per output frame.
  Finding 3 shows that it is necessary.
- `RatesFit` for the feedback loop: the receiver's correction is as strong as
  drift and sender correction together before the level leaves the band, and no
  round moves it from the middle to the edge.  With the code's limits this holds
  for a drift of up to 920 ppm next to the default `--sender-asrc-max-ppm` of
  1000.  A sender that is allowed to correct by more than the receiver can is
  not covered, and there the property is not expected to hold.

In each case an inductive invariant is shown to hold initially, to be preserved
by each action and to imply the property.

- *SharedLemmas.*  `PacketComesBack`: a packet is parsed to the header and the
  samples it was written from, and every proper prefix of it is rejected, for
  any number of frames and all values its types hold.  `OnlyPacketsAreAccepted`
  is the converse: whatever `from_bytes` accepts is, byte for byte, what the
  writer writes for the result.  `StatusComesBack` is the first for a status.
  The argument goes from the halves of an integer to the integers, from there to
  any list of fields with distinct names (`FieldsRoundTrip`, `FieldsBack`), and
  then to the two lists; only the last step knows the formats.  That the offsets
  of a list are sums of widths is an induction over its length; it is made with
  `SetInduction`, on the set of lengths for which it holds.
- *JitterBufferProofs.*  `TypeCorrect`; `RendersWithinData`, for which the key
  lemma `RenderFacts` bounds how far a rendering moves the reader: it starts at
  least the callback's source frames behind the newest frame, and a correction
  that speeds it up exists only when it is further behind, by more than the
  correction gains.  `SilenceIsBounded`, `OneStreamAtATime`, `ReceivedIsKept` (a
  packet leaves the buffer only behind the reader or over the capacity), and the
  action properties `ReaderMonotone`, `ReceivedIsHeard`, which needs
  `ReceivedIsKept` and the bound above (while playing, nothing over the capacity
  is still ahead of the reader), and `DelayIsKept`: what the trim leaves, what
  rate correction takes and what clock sync skips keep the reader within the
  delay and the tolerance.
- *CaptureQueueProofs.*  `PoolConserved`, `PoolIsNeverDry`, `WakeupsAreNotLost`,
  the refinement `CaptureIsLossyFifo`, and `ChunksAreAccountedFor`.  The invariant
  of the first adds that the queue is within its capacity and that a callback
  under way has captured a chunk; that of the last (`Accounts`, shared with the
  receiver's queue) that the queue holds nothing twice and nothing that was
  dropped, without which a dropped chunk might be counted again.
- *ReceiverProofs*, the event queue: `RetryAlwaysSucceeds`,
  `LossIsAlwaysReported`, `DatagramsAreAccountedFor` and the refinement
  `ReceiverIsLossyFifo`.  The invariant says that after the pop the queue has room
  until the retry, since there is one producer, and that an evicted event is
  counted in `queue_drops` or about to be.
- *ReceiverProofs*, the receiver as a whole: it implements both its parts
  (`ReceiverRunsQueue`, `ReceiverRunsBuffer`), so what is proved of them holds in
  it (`ReceiverKeepsQueue`, `ReceiverKeepsBuffer`).  `PacketsAreParsed` follows
  from the theorems on the formats.  `SilenceMeansLoss` spans all three parts:
  the invariant says that what was queued before a callback began is out of the
  queue when it processes (`DueIsDrained`), and that a packet of the current
  stream processed since the buffer's last start was delivered to it or is behind
  the reader (`ProcessedIsDelivered`); then `ReceivedIsHeard` applies.
  `LargeCallbacksNeverPlay` is finding 1 in general: if every callback takes more
  source frames than the tolerance, playback never starts; its invariant
  (`NeverStarts`) says that after the trim at most delay plus tolerance is
  buffered and that nothing is inserted before the pull.
- *CaptureSenderProofs.*  `NoFrameIsLost`, `BacklogStaysBounded`,
  `StreamStaysRegular`; the last from the remainder facts of *SharedLemmas*.
- *WSenderProofs.*  `EventsAreNotLost`, `BuffersAreReturned`,
  `StreamFollowsCapture`; the invariant adds that the frames of a held buffer are
  counted when it is taken.
- *RateProofs*, the resampler: `DrainStaysInBounds`, `TimelineStays` and
  `ChunkingStaysInvisible`.  The invariant says that the time put in less the
  time put out is what lies between the reader and the end of the buffer, and
  that the reader is at most a frame past that end; for the last theorem also
  that the reader's place in the stream is the frames produced times the ratio,
  from which the number of output frames is a division.
- *RateProofs*, the feedback loop: `SenderHoldsStatus` (what is under way was
  the level of a buffer, what is about to be stored is a status) and
  `LevelKeepsToBand`.  The band is its own invariant: at its edge the receiver's
  correction has the sign and the strength to turn the level back, whatever the
  sender does.
- *ReceiverMetricsProofs.*  `RatesNeverWrap`, `ForeignStaysAnother` (the
  invariant ties the display to the buffer's stream: nothing is foreign before
  a stream plays), `StallsAreSeen` (the
  invariant orders the last recorded arrival and the last one),
  `SendGapsAreOneSenders` (the last send time is one of the recorded sender's
  clock) and `SamplesReportedOnce`.

Only model-checked: the liveness properties `QueuedIsHandled`,
`DatagramsReachBuffer`, `ReadyIsSent`, `CaptureIsDrained`, `ShutdownCompletes` and
`DriftIsCorrected`, since everything under fairness is out of the prover's reach,
and the three violations.

`PoolConserved` (`PoolIsConserved`) is proved and not a property of a run:
`PoolNeverDry` fails with it.

## Not modelled

- Samples: conversion, interpolation, level meters (`common/src/audio.rs`); they
  change no control state.  Whether a rendered sample is right is a question for
  tests of single functions, which the repository has.
- The text of reports, percentiles, dispatch timing and the counters that only
  they use: `OutputCallbackMetrics`, the sender's `MetricsPrinter`, the metrics
  printer of w-sender.
- Device selection, socket options, thread priority, timer resolution, scripts:
  calls of the operating system.
- Speeds.  A producer that is faster than a drain keeps it going
  (`receiver/src/main.rs:263`, `w-sender/src/wasapi.rs:190`); every bounded
  instance ends it, and the models have no deadlines.

## Plan

Done in this order: jitter buffer; the two queues against LossyFifo; the packet
thread; the Windows sender; the receiver's metrics; formats, receiver
composition, resampler, feedback; a theorem for every safety property that
holds.  Next: packets of varying size in JitterBuffer, as `w-sender` sends them.

## Running it

    tlc -workers 2 -config JitterBuffer.cfg MCJitterBuffer
    tlapm JitterBufferProofs.tla
    tlapm ReceiverProofs.tla

`PROJECT.json` lists the module and configuration of every run.

----------------------------- MODULE ReceiverMetrics -----------------------------
(***************************************************************************)
(* What the receiver tells of itself: IngressMetrics, ReceiverState and    *)
(* MetricsPrinter of receiver/src/main.rs.  Three threads share them.  The *)
(* UDP thread times every packet, the audio callback records where packets *)
(* came from and publishes the jitter buffer's counters and level, and the *)
(* main thread reports from time to time.  The first two must not block:   *)
(* they only try the mutexes and skip the update on a miss.                *)
(*                                                                         *)
(* A sender is a stream id together with a socket address.  `received'     *)
(* stands for the counters of JitterMetrics, which only grow; a buffer     *)
(* sample is the number of the callback that took it.  A critical section  *)
(* of the UDP thread, or of the callback in `sources', is one step: the    *)
(* main thread only ever waits for these two.                              *)
(***************************************************************************)
EXTENDS Integers, Sequences, FiniteSets

CONSTANTS
  Senders,
  None,            \* Rust's Option::None
  ClockOf,         \* what each sender's clock shows when the receiver's shows 0
  SampleCapacity,  \* BUFFER_SAMPLE_CAPACITY
  MaxTime,         \* bound on the receiver's clock
  MaxArrivals,     \* bound: packets the UDP thread times
  MaxPackets,      \* bound: packets the callback processes
  MaxCallbacks     \* bound: audio callbacks

ASSUME MetricsAssumption ==
  /\ None \notin Senders /\ None \notin Nat
  /\ ClockOf \in [Senders -> Nat]
  /\ SampleCapacity \in Nat \ {0}
  /\ MaxTime \in Nat /\ MaxArrivals \in Nat /\ MaxPackets \in Nat
  /\ MaxCallbacks \in Nat

VARIABLES
  now,             \* the receiver's monotonic clock
  timing,          \* IngressMetrics.timing
  sources,         \* IngressMetrics.sources
  held,            \* the mutexes of IngressMetrics the main thread holds
  stream,          \* the jitter buffer's current stream
  received,        \* the jitter buffer's counters
  cb_pc,           \* the audio callback
  callbacks,       \* callbacks so far; the one under way has this number
  state_lock,      \* who holds the mutex of ReceiverState
  snapshot,        \* inner.snapshot.metrics
  buffer_samples,  \* inner.buffer_samples
  mp_pc,           \* the main thread, inside maybe_print
  metrics,         \* maybe_print's copy of the snapshot,
  window,          \* and the samples it took
  last_metrics,
  arrivals,        \* history: packets so far,
  last_arrival,    \* when the last one came, from the first one recorded on,
  longest,         \* the longest time between two of them,
  reported,        \* the longest time reported,
  windows,         \* the buffer samples reported, in order,
  skipped,         \* the callbacks whose sample was not kept,
  missed           \* and whether the last change of stream was not recorded

udpVars == <<timing, arrivals, last_arrival, longest>>
callbackVars == <<stream, received, cb_pc, callbacks, skipped, missed>>
printVars == <<held, mp_pc, metrics, window, last_metrics, reported, windows>>
stateVars == <<state_lock, snapshot, buffer_samples>>
vars == <<now, sources, udpVars, callbackVars, printVars, stateVars>>

Larger(a, b) == IF a >= b THEN a ELSE b

Init ==
  /\ now = 0
  /\ timing = [arrival |-> None, gap_count |-> 0, gap_max |-> 0, sender |-> None,
               send_time |-> 0, send_count |-> 0, send_max |-> 0]
  /\ sources = [active |-> None, foreign |-> None]
  /\ held = {} /\ stream = None /\ received = 0 /\ cb_pc = "idle" /\ callbacks = 0
  /\ state_lock = "none" /\ snapshot = 0 /\ buffer_samples = <<>>
  /\ mp_pc = "sleep" /\ metrics = 0 /\ window = <<>> /\ last_metrics = 0
  /\ arrivals = 0 /\ last_arrival = None /\ longest = 0 /\ reported = 0
  /\ windows = <<>> /\ skipped = {} /\ missed = FALSE

-----------------------------------------------------------------------------
(* The UDP thread: record_packet_timing for a packet of sender s that was  *)
(* `late' ticks on its way.                                                *)

\* How the arrival is recorded.  The gap is measured from the last arrival that
\* was recorded.
TimedArrival(t) ==
  IF t.arrival = None THEN [t EXCEPT !.arrival = now]
  ELSE [t EXCEPT !.arrival = now, !.gap_count = @ + 1,
                 !.gap_max = Larger(@, now - t.arrival)]

\* How the send time is recorded: gaps are within one sender, and a packet that
\* was overtaken is left out.
BugAnySender(t, s) == t.sender # None
SameSender(t, s) == t.sender = s
TimedSend(t, s, sent) ==
  IF ~SameSender(t, s) THEN [t EXCEPT !.sender = s, !.send_time = sent]
  ELSE IF sent < t.send_time THEN t
  ELSE [t EXCEPT !.send_time = sent, !.send_count = @ + 1,
                 !.send_max = Larger(@, sent - t.send_time)]

RecordPacketTiming(s, late) ==
  /\ arrivals < MaxArrivals
  /\ timing' = IF "timing" \in held THEN timing
               ELSE TimedSend(TimedArrival(timing), s, ClockOf[s] + now - late)
  /\ arrivals' = arrivals + 1
  /\ last_arrival' = IF timing'.arrival = None THEN last_arrival ELSE now
  /\ longest' = IF last_arrival = None THEN 0 ELSE Larger(longest, now - last_arrival)
  /\ UNCHANGED <<now, sources, callbackVars, printVars, stateVars>>

-----------------------------------------------------------------------------
(* The audio callback. *)

CallbackStart ==
  /\ cb_pc = "idle" /\ callbacks < MaxCallbacks
  /\ callbacks' = callbacks + 1 /\ cb_pc' = "events"
  /\ UNCHANGED <<now, sources, udpVars, stream, received, skipped, missed,
                 printVars, stateVars>>

\* record_stream_source, for what insert_packet answered.
BugKeepForeign(outcome, s) ==
  IF outcome = "ForeignStream" THEN [sources EXCEPT !.foreign = s]
  ELSE [sources EXCEPT !.active = s]
SourcesAfter(outcome, s) ==
  CASE outcome = "ForeignStream" -> [sources EXCEPT !.foreign = s]
    [] outcome = "Accepted" -> [sources EXCEPT !.active = s]
    [] outcome = "Resynced" -> [active |-> s, foreign |-> None]

RecordStreamSource(outcome, s) ==
  /\ sources' = IF "sources" \in held THEN sources ELSE SourcesAfter(outcome, s)
  /\ missed' = IF outcome = "Resynced" THEN "sources" \in held ELSE missed

\* process_receiver_event.  "Accepted" stands for Duplicate and Late too, which
\* are recorded alike; whether the current stream is still active, so that a
\* packet of another one is refused, is up to the jitter buffer.
ProcessPacket(s) ==
  /\ cb_pc = "events" /\ received < MaxPackets
  /\ received' = received + 1
  /\ \/ /\ stream \in {None, s} /\ stream' = s
        /\ RecordStreamSource("Accepted", s)
     \/ /\ stream \notin {None, s} /\ stream' = stream
        /\ RecordStreamSource("ForeignStream", s)
     \/ /\ stream \notin {None, s} /\ stream' = s
        /\ RecordStreamSource("Resynced", s)
  /\ UNCHANGED <<now, cb_pc, callbacks, skipped, udpVars, printVars, stateVars>>

\* publish, with the mutex missed
PublishMiss ==
  /\ cb_pc = "events" /\ state_lock # "none"
  /\ cb_pc' = "idle" /\ skipped' = skipped \cup {callbacks}
  /\ UNCHANGED <<now, sources, stream, received, callbacks, missed, udpVars,
                 printVars, stateVars>>

PublishLock ==
  /\ cb_pc = "events" /\ state_lock = "none"
  /\ cb_pc' = "publish" /\ state_lock' = "callback"
  /\ UNCHANGED <<now, sources, stream, received, callbacks, skipped, missed,
                 udpVars, printVars, snapshot, buffer_samples>>

BugPublishDelta == received - snapshot
PublishedMetrics == received

Publish ==
  /\ cb_pc = "publish"
  /\ IF Len(buffer_samples) < SampleCapacity
       THEN buffer_samples' = Append(buffer_samples, callbacks) /\ UNCHANGED skipped
       ELSE skipped' = skipped \cup {callbacks} /\ UNCHANGED buffer_samples
  /\ snapshot' = PublishedMetrics
  /\ state_lock' = "none" /\ cb_pc' = "idle"
  /\ UNCHANGED <<now, sources, stream, received, callbacks, missed, udpVars, printVars>>

-----------------------------------------------------------------------------
(* The main thread: maybe_print.  A report that finds the mutex of         *)
(* ReceiverState taken is put off (a stuttering step).                     *)

SnapshotLock ==
  /\ mp_pc = "sleep" /\ state_lock = "none"
  /\ mp_pc' = "snapshot" /\ state_lock' = "print"
  /\ UNCHANGED <<now, sources, udpVars, callbackVars, held, metrics, window,
                 last_metrics, reported, windows, snapshot, buffer_samples>>

BugSamplesStay == buffer_samples
SamplesAfterTaking == <<>>

TakeBufferSamples ==
  /\ mp_pc = "snapshot"
  /\ metrics' = snapshot /\ window' = buffer_samples
  /\ buffer_samples' = SamplesAfterTaking
  /\ state_lock' = "none" /\ mp_pc' = "sources"
  /\ UNCHANGED <<now, sources, udpVars, callbackVars, held, last_metrics, reported,
                 windows, snapshot>>

\* IngressMetrics::snapshot only reads, but it holds the mutex meanwhile.
LockFor(pc, mutex) ==
  /\ mp_pc = pc /\ mutex \notin held
  /\ held' = {mutex}
  /\ UNCHANGED <<now, sources, udpVars, callbackVars, mp_pc, metrics, window,
                 last_metrics, reported, windows, stateVars>>

SourcesLock == LockFor("sources", "sources")

CopySources ==
  /\ mp_pc = "sources" /\ "sources" \in held
  /\ held' = {} /\ mp_pc' = "timing"
  /\ UNCHANGED <<now, sources, udpVars, callbackVars, metrics, window, last_metrics,
                 reported, windows, stateVars>>

TimingLock == LockFor("timing", "timing")

\* The gaps start afresh, the arrival and the send time they are measured from
\* stay.
BugForgetArrival ==
  [timing EXCEPT !.gap_count = 0, !.gap_max = 0, !.send_count = 0, !.send_max = 0,
                 !.arrival = None]
TimingAfterTaking ==
  [timing EXCEPT !.gap_count = 0, !.gap_max = 0, !.send_count = 0, !.send_max = 0]

TakeTimingSnapshot ==
  /\ mp_pc = "timing" /\ "timing" \in held
  /\ timing' = TimingAfterTaking
  /\ reported' = Larger(reported, timing.gap_max)
  /\ held' = {} /\ mp_pc' = "print"
  /\ UNCHANGED <<now, sources, arrivals, last_arrival, longest, callbackVars,
                 metrics, window, last_metrics, windows, stateVars>>

\* The rates are differences to the last report.
PrintReport ==
  /\ mp_pc = "print"
  /\ windows' = windows \o window /\ window' = <<>>
  /\ last_metrics' = metrics
  /\ mp_pc' = "sleep"
  /\ UNCHANGED <<now, sources, udpVars, callbackVars, held, metrics, reported,
                 stateVars>>

Tick ==
  /\ now < MaxTime
  /\ now' = now + 1
  /\ UNCHANGED <<sources, udpVars, callbackVars, printVars, stateVars>>

-----------------------------------------------------------------------------
Next ==
  \/ \E s \in Senders, late \in 0 .. now : RecordPacketTiming(s, late)
  \/ CallbackStart \/ (\E s \in Senders : ProcessPacket(s))
  \/ PublishMiss \/ PublishLock \/ Publish
  \/ SnapshotLock \/ TakeBufferSamples \/ SourcesLock \/ CopySources \/ TimingLock
  \/ TakeTimingSnapshot \/ PrintReport
  \/ Tick

Spec == Init /\ [][Next]_vars

-----------------------------------------------------------------------------
(* Correctness. *)

\* The rates are computed with unchecked u64 subtractions, metrics - previous:
\* whatever the callback publishes while a report is under way, the snapshot
\* that is taken is never older than the one before it (main.rs:971).
RatesDoNotWrap == last_metrics <= metrics /\ metrics <= snapshot

\* Every callback's buffer level is in exactly one report, in order, unless a
\* lock miss or a full window left it out (main.rs:448-470).
Entries(s) == {s[i] : i \in 1 .. Len(s)}
Unpublished == IF cb_pc = "idle" THEN {} ELSE {callbacks}
SamplesAreReportedOnce ==
  LET all == windows \o window \o buffer_samples
  IN /\ \A i, j \in 1 .. Len(all) : i < j => all[i] < all[j]
     /\ Entries(all) = (1 .. callbacks) \ (skipped \cup Unpublished)

\* A stall in the arrivals is never hidden: the longest time between two packets
\* is covered by a gap that was reported, is about to be, or is being measured,
\* though arrivals are skipped when the report holds the mutex (main.rs:322-332).
StallIsSeen ==
  \/ longest <= Larger(reported, timing.gap_max)
  \/ timing.arrival # None /\ longest <= last_arrival - timing.arrival

\* A send gap is between two packets of one sender: the clocks of two senders
\* are never compared (main.rs:334).
SendGapIsOneSenders == timing.send_max <= MaxTime

\* The stream shown as active is the one that plays, if any is shown, and the one
\* shown as foreign is another, whichever records were skipped for want of the
\* mutex; only when the last change of stream was not recorded may the stream that
\* plays be shown as the foreign one (main.rs:362-383).
ForeignIsAnother ==
  ~missed => /\ sources.active \in {None, stream}
             /\ sources.foreign # None => sources.foreign # stream
=============================================================================

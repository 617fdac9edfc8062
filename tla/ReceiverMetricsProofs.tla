------------------------- MODULE ReceiverMetricsProofs -------------------------
(***************************************************************************)
(* Proofs about ReceiverMetrics, for any senders, clocks and numbers of    *)
(* packets and callbacks.                                                  *)
(***************************************************************************)
EXTENDS ReceiverMetrics, SharedLemmas

-----------------------------------------------------------------------------
(* The counters. *)

\* What is reported, published and counted, in this order, only grows.
RatesInv ==
  /\ received \in Nat /\ snapshot \in Nat /\ metrics \in Nat /\ last_metrics \in Nat
  /\ RatesDoNotWrap
  /\ snapshot <= received

\* Every step keeps the counters of a report behind the current ones.
LEMMA RatesStep == RatesInv /\ [Next]_vars => RatesInv'
<1> SUFFICES ASSUME RatesInv, [Next]_vars PROVE RatesInv'
  OBVIOUS
<1> USE DEF RatesInv, RatesDoNotWrap
<1>1. CASE UNCHANGED <<received, snapshot, metrics, last_metrics>>
  BY <1>1
<1>2. CASE \E s \in Senders, late \in 0 .. now : RecordPacketTiming(s, late)
  BY <1>1, <1>2 DEF RecordPacketTiming, callbackVars, printVars, stateVars
<1>3. ASSUME NEW s \in Senders, ProcessPacket(s) PROVE RatesInv'
  BY <1>3 DEF ProcessPacket, printVars, stateVars
<1>4. CASE CallbackStart \/ PublishMiss \/ PublishLock
  BY <1>1, <1>4 DEF CallbackStart, PublishMiss, PublishLock, printVars, stateVars
<1>5. CASE Publish
  BY <1>5 DEF Publish, PublishedMetrics, printVars
<1>6. CASE SnapshotLock \/ SourcesLock \/ CopySources \/ TimingLock \/ TakeTimingSnapshot
  BY <1>1, <1>6 DEF SnapshotLock, SourcesLock, CopySources, TimingLock, LockFor,
     TakeTimingSnapshot, callbackVars, stateVars
<1>7. CASE TakeBufferSamples
  BY <1>7 DEF TakeBufferSamples, callbackVars
<1>8. CASE PrintReport
  BY <1>8 DEF PrintReport, callbackVars, stateVars
<1>9. CASE Tick \/ UNCHANGED vars
  BY <1>1, <1>9 DEF Tick, vars, callbackVars, printVars, stateVars
<1> QED
  BY <1>2, <1>3, <1>4, <1>5, <1>6, <1>7, <1>8, <1>9 DEF Next

\* The differences maybe_print computes are of a later and an earlier value.
THEOREM RatesNeverWrap == Spec => []RatesDoNotWrap
<1>1. Init => RatesInv
  BY DEF Init, RatesInv, RatesDoNotWrap
<1>2. RatesInv => RatesDoNotWrap
  BY DEF RatesInv
<1> QED
  BY <1>1, <1>2, RatesStep, PTL DEF Spec

-----------------------------------------------------------------------------
(* The sources. *)

\* If the last change of stream was recorded the display fits the jitter buffer.
\* Nothing is shown as foreign before a stream plays, so that the first stream,
\* which does not clear the display, is not shown as foreign either.
SourcesInv ==
  /\ sources \in [active : Senders \cup {None}, foreign : Senders \cup {None}]
  /\ missed \in BOOLEAN
  /\ stream = None => sources.foreign = None
  /\ ForeignIsAnother

\* Every step keeps the display tied to the stream of the buffer.
LEMMA SourcesStep == SourcesInv /\ [Next]_vars => SourcesInv'
<1> SUFFICES ASSUME SourcesInv, [Next]_vars PROVE SourcesInv'
  OBVIOUS
<1> USE DEF SourcesInv, ForeignIsAnother
<1>1. CASE UNCHANGED <<sources, missed, stream>>
  BY <1>1
<1>2. CASE \E s \in Senders, late \in 0 .. now : RecordPacketTiming(s, late)
  BY <1>1, <1>2 DEF RecordPacketTiming, callbackVars
<1>3. ASSUME NEW s \in Senders, ProcessPacket(s) PROVE SourcesInv'
  <2>1. PICK outcome \in {"Accepted", "ForeignStream", "Resynced"} :
          /\ RecordStreamSource(outcome, s)
          /\ outcome = "Accepted" => stream \in {None, s} /\ stream' = s
          /\ outcome = "ForeignStream" => stream \notin {None, s} /\ stream' = stream
          /\ outcome = "Resynced" => stream \notin {None, s} /\ stream' = s
    BY <1>3 DEF ProcessPacket
  <2>2. missed' = IF outcome = "Resynced" THEN "sources" \in held ELSE missed
    BY <2>1 DEF RecordStreamSource
  <2>3. CASE "sources" \in held
    BY <2>1, <2>2, <2>3, MetricsAssumption DEF RecordStreamSource
  <2>4. CASE "sources" \notin held
    <3>1. sources' = SourcesAfter(outcome, s)
      BY <2>1, <2>4 DEF RecordStreamSource
    <3>2. CASE outcome = "Accepted"
      <4>1. sources' = [sources EXCEPT !.active = s]
        BY <3>1, <3>2 DEF SourcesAfter
      <4> QED
        BY <2>1, <2>2, <3>2, <4>1, MetricsAssumption
    <3>3. CASE outcome = "ForeignStream"
      <4>1. sources' = [sources EXCEPT !.foreign = s]
        BY <3>1, <3>3 DEF SourcesAfter
      <4> QED
        BY <2>1, <2>2, <3>3, <4>1, MetricsAssumption
    <3>4. CASE outcome = "Resynced"
      <4>1. sources' = [active |-> s, foreign |-> None]
        BY <3>1, <3>4 DEF SourcesAfter
      <4> QED
        BY <2>1, <2>2, <2>4, <3>4, <4>1, MetricsAssumption
    <3> QED
      BY <2>1, <3>2, <3>3, <3>4
  <2> QED
    BY <2>3, <2>4
<1>4. CASE CallbackStart \/ PublishMiss \/ PublishLock \/ Publish
  BY <1>1, <1>4 DEF CallbackStart, PublishMiss, PublishLock, Publish
<1>5. CASE SnapshotLock \/ SourcesLock \/ CopySources \/ TimingLock \/ TakeTimingSnapshot
  BY <1>1, <1>5 DEF SnapshotLock, SourcesLock, CopySources, TimingLock, LockFor,
     TakeTimingSnapshot, callbackVars
<1>6. CASE TakeBufferSamples \/ PrintReport \/ Tick
  BY <1>1, <1>6 DEF TakeBufferSamples, PrintReport, Tick, callbackVars
<1>7. CASE UNCHANGED vars
  BY <1>1, <1>7 DEF vars, callbackVars
<1> QED
  BY <1>2, <1>3, <1>4, <1>5, <1>6, <1>7 DEF Next

\* Only while the last change of stream is not recorded can the stream that plays
\* be shown as the foreign one; every other record may be skipped.
THEOREM ForeignStaysAnother == Spec => []ForeignIsAnother
<1>1. Init => SourcesInv
  <2> SUFFICES ASSUME Init PROVE SourcesInv
    OBVIOUS
  <2>1. sources = [active |-> None, foreign |-> None] /\ stream = None /\ missed = FALSE
    BY DEF Init
  <2> QED
    BY <2>1 DEF SourcesInv, ForeignIsAnother
<1>2. SourcesInv => ForeignIsAnother
  BY DEF SourcesInv
<1> QED
  BY <1>1, <1>2, SourcesStep, PTL DEF Spec

-----------------------------------------------------------------------------
(* The arrival gaps. *)

\* The gap being measured starts no later than the last arrival.
StallInv ==
  /\ now \in Nat /\ longest \in Nat /\ reported \in Nat /\ timing.gap_max \in Nat
  /\ timing.arrival = None <=> last_arrival = None
  /\ last_arrival = None => longest = 0
  /\ last_arrival # None => /\ last_arrival \in 0 .. now
                            /\ timing.arrival \in 0 .. last_arrival
  /\ {"arrival", "gap_max"} \subseteq DOMAIN timing
  /\ StallIsSeen

\* Every step keeps the order of the recorded and the last arrival.
LEMMA StallStep == StallInv /\ [Next]_vars => StallInv'
<1> SUFFICES ASSUME StallInv, [Next]_vars PROVE StallInv'
  OBVIOUS
<1> USE DEF StallInv
<1>1. CASE UNCHANGED <<timing, last_arrival, longest, reported>> /\ now' \in {now, now + 1}
  BY <1>1, MetricsAssumption DEF StallIsSeen, Larger
<1>2. ASSUME NEW s \in Senders, NEW late \in 0 .. now, RecordPacketTiming(s, late)
      PROVE  StallInv'
  <2>1. /\ now' = now /\ reported' = reported
        /\ last_arrival' = IF timing'.arrival = None THEN last_arrival ELSE now
        /\ longest' = IF last_arrival = None THEN 0 ELSE Larger(longest, now - last_arrival)
    BY <1>2 DEF RecordPacketTiming, printVars
  <2>2. CASE "timing" \in held
    <3>1. timing' = timing
      BY <1>2, <2>2 DEF RecordPacketTiming
    <3> QED
      BY <2>1, <3>1, MetricsAssumption DEF StallIsSeen, Larger
  <2>3. CASE "timing" \notin held
    <3>1. timing' = TimedSend(TimedArrival(timing), s, ClockOf[s] + now - late)
      BY <1>2, <2>3 DEF RecordPacketTiming
    <3>2. /\ timing'.arrival = now
          /\ timing'.gap_max = IF timing.arrival = None THEN timing.gap_max
                               ELSE Larger(timing.gap_max, now - timing.arrival)
          /\ DOMAIN timing' = DOMAIN timing
      BY <3>1 DEF TimedSend, TimedArrival
    <3> QED
      BY <2>1, <3>2, MetricsAssumption DEF StallIsSeen, Larger
  <2> QED
    BY <2>2, <2>3
<1>3. CASE CallbackStart \/ PublishMiss \/ PublishLock \/ Publish
  BY <1>1, <1>3 DEF CallbackStart, PublishMiss, PublishLock, Publish, udpVars, printVars
<1>4. CASE \E s \in Senders : ProcessPacket(s)
  BY <1>1, <1>4 DEF ProcessPacket, udpVars, printVars
<1>5. CASE SnapshotLock \/ TakeBufferSamples \/ SourcesLock \/ CopySources \/ TimingLock
  BY <1>1, <1>5 DEF SnapshotLock, TakeBufferSamples, SourcesLock, CopySources, TimingLock,
     LockFor, udpVars
<1>6. CASE TakeTimingSnapshot
  <2>1. /\ timing' = TimingAfterTaking
        /\ reported' = Larger(reported, timing.gap_max)
        /\ UNCHANGED <<now, last_arrival, longest>>
    BY <1>6 DEF TakeTimingSnapshot
  <2>2. /\ timing'.arrival = timing.arrival /\ timing'.gap_max = 0
        /\ DOMAIN timing' = DOMAIN timing
    BY <2>1 DEF TimingAfterTaking
  <2> QED
    BY <2>1, <2>2, MetricsAssumption DEF StallIsSeen, Larger
<1>7. CASE PrintReport \/ Tick \/ UNCHANGED vars
  BY <1>1, <1>7 DEF PrintReport, Tick, vars, udpVars, printVars
<1> QED
  BY <1>2, <1>3, <1>4, <1>5, <1>6, <1>7 DEF Next

\* No pause between two packets escapes the reports for good, however the reports
\* and the packets interleave.
THEOREM StallsAreSeen == Spec => []StallIsSeen
<1>1. Init => StallInv
  <2> SUFFICES ASSUME Init PROVE StallInv
    OBVIOUS
  <2> QED
    BY DEF Init, StallInv, StallIsSeen, Larger
<1>2. StallInv => StallIsSeen
  BY DEF StallInv
<1> QED
  BY <1>1, <1>2, StallStep, PTL DEF Spec
-----------------------------------------------------------------------------
(* The send gaps. *)

\* The inductive invariant: the send time that gaps are measured from was read
\* from the clock of the sender it is filed under, since the receiver's clock
\* showed 0, and no gap is longer than the time passed since then.
SendInv ==
  /\ now \in 0 .. MaxTime
  /\ {"sender", "send_time", "send_max"} \subseteq DOMAIN timing
  /\ timing.sender \in Senders \cup {None}
  /\ timing.sender # None =>
       timing.send_time \in ClockOf[timing.sender] .. ClockOf[timing.sender] + now
  /\ timing.send_max \in 0 .. now

\* Every step keeps the last send time one of the recorded sender's clock.
LEMMA SendStep == SendInv /\ [Next]_vars => SendInv'
<1> SUFFICES ASSUME SendInv, [Next]_vars PROVE SendInv'
  OBVIOUS
<1>0. /\ now \in Nat /\ MaxTime \in Nat
      /\ \A s \in Senders : ClockOf[s] \in Nat
      /\ None \notin Senders
  BY MetricsAssumption DEF SendInv
<1>1. CASE timing' = timing /\ now' \in {now, now + 1} /\ now' <= MaxTime
  BY <1>0, <1>1 DEF SendInv
<1>2. ASSUME NEW s \in Senders, NEW late \in 0 .. now, RecordPacketTiming(s, late)
      PROVE  SendInv'
  <2> DEFINE sent == ClockOf[s] + now - late
             t == TimedArrival(timing)
  <2>1. now' = now
    BY <1>2 DEF RecordPacketTiming
  <2>2. CASE "timing" \in held
    BY <1>0, <1>1, <1>2, <2>1, <2>2 DEF RecordPacketTiming, SendInv
  <2>3. CASE "timing" \notin held
    <3>1. timing' = TimedSend(t, s, sent)
      BY <1>2, <2>3 DEF RecordPacketTiming
    <3>2. /\ t.sender = timing.sender /\ t.send_time = timing.send_time
          /\ t.send_max = timing.send_max /\ DOMAIN t = DOMAIN timing
      BY DEF TimedArrival, SendInv
    <3>3. sent \in ClockOf[s] .. ClockOf[s] + now
      BY <1>0
    <3> HIDE DEF t, sent
    <3>4. CASE t.sender # s
      <4>1. timing' = [t EXCEPT !.sender = s, !.send_time = sent]
        BY <3>1, <3>4 DEF TimedSend, SameSender
      <4>2. /\ timing'.sender = s /\ timing'.send_time = sent
            /\ timing'.send_max = timing.send_max /\ DOMAIN timing' = DOMAIN timing
        BY <3>2, <4>1 DEF SendInv
      <4> QED BY <2>1, <3>3, <4>2 DEF SendInv
    <3>5. CASE t.sender = s /\ sent < t.send_time
      <4>1. timing' = t
        BY <3>1, <3>5 DEF TimedSend, SameSender
      <4> QED BY <2>1, <3>2, <4>1 DEF SendInv
    <3>6. CASE t.sender = s /\ ~(sent < t.send_time)
      <4>1. timing' = [t EXCEPT !.send_time = sent, !.send_count = @ + 1,
                                !.send_max = Larger(@, sent - t.send_time)]
        BY <3>1, <3>6 DEF TimedSend, SameSender
      <4>2. /\ timing'.sender = s /\ timing'.send_time = sent
            /\ timing'.send_max = Larger(timing.send_max, sent - timing.send_time)
            /\ DOMAIN timing' = DOMAIN timing
        BY <3>2, <3>6, <4>1 DEF SendInv
      <4>3. timing.send_time \in ClockOf[s] .. ClockOf[s] + now /\ timing.send_max \in 0 .. now
        BY <1>0, <3>2, <3>6 DEF SendInv
      <4>4. sent - timing.send_time \in 0 .. now
        BY <1>0, <3>2, <3>3, <3>6, <4>3
      <4>5. Larger(timing.send_max, sent - timing.send_time) \in 0 .. now
        BY <4>3, <4>4 DEF Larger
      <4> QED BY <2>1, <3>3, <4>2, <4>5 DEF SendInv
    <3> QED BY <3>4, <3>5, <3>6
  <2> QED BY <2>2, <2>3
<1>3. CASE CallbackStart \/ PublishMiss \/ PublishLock \/ Publish
  BY <1>0, <1>1, <1>3 DEF CallbackStart, PublishMiss, PublishLock, Publish, udpVars, SendInv
<1>4. CASE \E s \in Senders : ProcessPacket(s)
  BY <1>0, <1>1, <1>4 DEF ProcessPacket, udpVars, SendInv
<1>5. CASE SnapshotLock \/ TakeBufferSamples \/ SourcesLock \/ CopySources \/ TimingLock
  BY <1>0, <1>1, <1>5 DEF SnapshotLock, TakeBufferSamples, SourcesLock, CopySources,
     TimingLock, LockFor, udpVars, SendInv
<1>6. CASE TakeTimingSnapshot
  <2>1. timing' = TimingAfterTaking /\ now' = now
    BY <1>6 DEF TakeTimingSnapshot
  <2>2. /\ timing'.sender = timing.sender /\ timing'.send_time = timing.send_time
        /\ timing'.send_max = 0 /\ DOMAIN timing' = DOMAIN timing
    BY <2>1 DEF TimingAfterTaking, SendInv
  <2> QED BY <1>0, <2>1, <2>2 DEF SendInv
<1>7. CASE PrintReport \/ Tick \/ UNCHANGED vars
  BY <1>0, <1>1, <1>7 DEF PrintReport, Tick, vars, udpVars, SendInv
<1> QED BY <1>2, <1>3, <1>4, <1>5, <1>6, <1>7 DEF Next

\* Whatever the senders' clocks show and however their packets interleave, two
\* clocks are never compared: no send gap is longer than the receiver has run.
THEOREM SendGapsAreOneSenders == Spec => []SendGapIsOneSenders
<1>1. Init => SendInv
  BY MetricsAssumption DEF Init, SendInv
<1>2. SendInv => SendGapIsOneSenders
  BY MetricsAssumption DEF SendInv, SendGapIsOneSenders
<1> QED BY <1>1, <1>2, SendStep, PTL DEF Spec

-----------------------------------------------------------------------------
(* The buffer samples. *)

Reported == windows \o window \o buffer_samples

\* The inductive invariant: the report under way has its own window, which is
\* empty until it takes the samples, and the callback under way has left no trace.
SamplesInv ==
  /\ callbacks \in Nat
  /\ windows \in Seq(Nat) /\ window \in Seq(Nat) /\ buffer_samples \in Seq(Nat)
  /\ cb_pc # "idle" => callbacks > 0
  /\ skipped \subseteq (1 .. callbacks) \ Unpublished
  /\ mp_pc \in {"sleep", "snapshot"} => window = <<>>
  /\ SamplesAreReportedOnce

\* Every step keeps each buffer sample in one place.
LEMMA SamplesStep == SamplesInv /\ [Next]_vars => SamplesInv'
<1> SUFFICES ASSUME SamplesInv, [Next]_vars PROVE SamplesInv'
  OBVIOUS
<1> DEFINE Increasing(s) == \A i, j \in 1 .. Len(s) : i < j => s[i] < s[j]
<1>0. /\ callbacks \in Nat
      /\ windows \in Seq(Nat) /\ window \in Seq(Nat) /\ buffer_samples \in Seq(Nat)
      /\ cb_pc # "idle" => callbacks > 0
      /\ skipped \subseteq (1 .. callbacks) \ Unpublished
      /\ mp_pc \in {"sleep", "snapshot"} => window = <<>>
      /\ Reported \in Seq(Nat) /\ Increasing(Reported)
      /\ Entries(Reported) = (1 .. callbacks) \ (skipped \cup Unpublished)
  <2>1. Reported \in Seq(Nat)
    BY ConcatProperties DEF SamplesInv, Reported
  <2> QED BY <2>1 DEF SamplesInv, SamplesAreReportedOnce, Reported
<1>1. CASE /\ UNCHANGED <<callbacks, windows, window, buffer_samples, skipped>>
           /\ Unpublished' = Unpublished /\ (cb_pc' # "idle" => cb_pc # "idle")
           /\ mp_pc' \in {"sleep", "snapshot"} => mp_pc \in {"sleep", "snapshot"}
  BY <1>1 DEF SamplesInv, SamplesAreReportedOnce, Entries
<1>2. ASSUME Reported' = Reported, UNCHANGED <<callbacks, skipped, cb_pc>>,
             windows' \in Seq(Nat), window' \in Seq(Nat), buffer_samples' \in Seq(Nat),
             mp_pc' \in {"sleep", "snapshot"} => window' = <<>>
      PROVE  SamplesInv'
  <2>1. Unpublished' = Unpublished
    BY <1>2 DEF Unpublished
  <2>2. Increasing(Reported') /\ Entries(Reported') = Entries(Reported)
    BY <1>0, <1>2
  <2>3. SamplesAreReportedOnce'
    BY <1>0, <1>2, <2>1, <2>2 DEF SamplesAreReportedOnce, Reported
  <2> QED BY <1>0, <1>2, <2>1, <2>3 DEF SamplesInv
<1>3. ASSUME UNCHANGED <<windows, window, buffer_samples>>,
             mp_pc' = mp_pc, callbacks' \in Nat,
             cb_pc' # "idle" => callbacks' > 0,
             skipped' \subseteq (1 .. callbacks') \ Unpublished',
             (1 .. callbacks') \ (skipped' \cup Unpublished')
               = (1 .. callbacks) \ (skipped \cup Unpublished)
      PROVE  SamplesInv'
  <2>1. Reported' = Reported
    BY <1>3 DEF Reported
  <2>2. Increasing(Reported') /\ Entries(Reported') = Entries(Reported)
    BY <1>0, <2>1
  <2>3. SamplesAreReportedOnce'
    BY <1>0, <1>3, <2>2 DEF SamplesAreReportedOnce, Reported
  <2> QED BY <1>0, <1>3, <2>3 DEF SamplesInv
<1>4. CASE CallbackStart
  <2>1. /\ UNCHANGED <<windows, window, buffer_samples, mp_pc, skipped>>
        /\ callbacks' = callbacks + 1 /\ cb_pc = "idle" /\ cb_pc' = "events"
    BY <1>4 DEF CallbackStart, printVars, stateVars
  <2>2. Unpublished = {} /\ Unpublished' = {callbacks + 1}
    BY <2>1 DEF Unpublished
  <2>3. 1 .. callbacks + 1 = (1 .. callbacks) \cup {callbacks + 1}
        /\ callbacks + 1 \notin 1 .. callbacks /\ callbacks + 1 \in Nat /\ callbacks + 1 > 0
    BY <1>0
  <2> QED BY <1>0, <1>3, <2>1, <2>2, <2>3
<1>5. CASE PublishMiss
  <2>1. /\ UNCHANGED <<windows, window, buffer_samples, mp_pc, callbacks>>
        /\ skipped' = skipped \cup {callbacks} /\ cb_pc = "events" /\ cb_pc' = "idle"
    BY <1>5 DEF PublishMiss, printVars, stateVars
  <2>2. Unpublished = {callbacks} /\ Unpublished' = {}
    BY <2>1 DEF Unpublished
  <2>3. callbacks \in 1 .. callbacks
    BY <1>0, <2>1
  <2> QED BY <1>0, <1>3, <2>1, <2>2, <2>3
<1>6. CASE Publish
  <2>1. /\ UNCHANGED <<windows, window, mp_pc, callbacks>>
        /\ cb_pc = "publish" /\ cb_pc' = "idle"
    BY <1>6 DEF Publish, printVars
  <2>2. Unpublished = {callbacks} /\ Unpublished' = {}
    BY <2>1 DEF Unpublished
  <2>3. callbacks \in 1 .. callbacks
    BY <1>0, <2>1
  <2>4. CASE ~(Len(buffer_samples) < SampleCapacity)
    <3>1. skipped' = skipped \cup {callbacks} /\ buffer_samples' = buffer_samples
      BY <1>6, <2>4 DEF Publish
    <3> QED BY <1>0, <1>3, <2>1, <2>2, <2>3, <3>1
  <2>5. CASE Len(buffer_samples) < SampleCapacity
    <3>1. buffer_samples' = Append(buffer_samples, callbacks) /\ skipped' = skipped
      BY <1>6, <2>5 DEF Publish
    <3>2. buffer_samples' \in Seq(Nat)
      BY <1>0, <3>1, QueueLengths
    <3>3. Reported' = Append(Reported, callbacks)
      <4>1. windows \o window \in Seq(Nat) /\ <<callbacks>> \in Seq(Nat)
        BY <1>0, ConcatProperties
      <4>2. /\ Append(buffer_samples, callbacks) = buffer_samples \o <<callbacks>>
            /\ Append(Reported, callbacks) = Reported \o <<callbacks>>
        BY <1>0, AppendIsConcat
      <4>3. (windows \o window) \o (buffer_samples \o <<callbacks>>)
              = ((windows \o window) \o buffer_samples) \o <<callbacks>>
        <5> DEFINE r == windows \o window
        <5>1. r \in Seq(Nat) /\ buffer_samples \in Seq(Nat) /\ <<callbacks>> \in Seq(Nat)
          BY <1>0, <4>1
        <5> HIDE DEF r
        <5>2. (r \o buffer_samples) \o <<callbacks>> = r \o (buffer_samples \o <<callbacks>>)
          BY <5>1, ConcatAssociative
        <5> QED BY <5>2 DEF r
      <4>4. Reported' = (windows \o window) \o Append(buffer_samples, callbacks)
        BY <2>1, <3>1 DEF Reported
      <4> QED BY <4>2, <4>3, <4>4 DEF Reported
    <3>4. /\ Len(Reported) \in Nat /\ Len(Reported') = Len(Reported) + 1
          /\ Reported'[Len(Reported) + 1] = callbacks
          /\ \A i \in 1 .. Len(Reported) : Reported'[i] = Reported[i]
      BY <1>0, <3>3, AppendProperties, LenProperties
    <3>5. Entries(Reported') = Entries(Reported) \cup {callbacks}
      <4>1. Reported \in Seq(Nat) /\ callbacks \in Nat
        BY <1>0
      <4>2. Elements(Append(Reported, callbacks)) = Elements(Reported) \cup {callbacks}
        BY <4>1, ElementsOfAppend
      <4> QED BY <3>3, <4>2 DEF Entries, Elements
    <3>6. \A i \in 1 .. Len(Reported) : Reported[i] \in Nat /\ Reported[i] < callbacks
      <4> SUFFICES ASSUME NEW i \in 1 .. Len(Reported)
                   PROVE  Reported[i] \in Nat /\ Reported[i] < callbacks
        OBVIOUS
      <4>1. Reported[i] \in (1 .. callbacks) \ {callbacks}
        BY <1>0, <2>2 DEF Entries
      <4> QED BY <1>0, <4>1
    <3>7. Increasing(Reported')
      <4> SUFFICES ASSUME NEW i \in 1 .. Len(Reported'), NEW j \in 1 .. Len(Reported'), i < j
                   PROVE  Reported'[i] < Reported'[j]
        OBVIOUS
      <4>1. i \in 1 .. Len(Reported) /\ (j \in 1 .. Len(Reported) \/ j = Len(Reported) + 1)
        BY <3>4
      <4> QED BY <1>0, <3>4, <3>6, <4>1
    <3>8. Entries(Reported') = (1 .. callbacks) \ (skipped' \cup Unpublished')
      BY <1>0, <2>2, <2>3, <3>1, <3>5
    <3>9. SamplesAreReportedOnce'
      BY <2>1, <3>7, <3>8 DEF SamplesAreReportedOnce, Reported
    <3> QED BY <1>0, <2>1, <2>2, <3>1, <3>2, <3>9 DEF SamplesInv
  <2> QED BY <2>4, <2>5
<1>7. CASE TakeBufferSamples
  <2>1. /\ mp_pc = "snapshot" /\ window = <<>> /\ window' = buffer_samples
        /\ buffer_samples' = <<>> /\ windows' = windows /\ mp_pc' = "sources"
        /\ UNCHANGED <<callbacks, skipped, cb_pc>>
    BY <1>0, <1>7 DEF TakeBufferSamples, SamplesAfterTaking, callbackVars
  <2>2. Reported' = Reported
    <3>1. Reported = windows \o buffer_samples
      BY <1>0, <2>1, ConcatEmptySeq DEF Reported
    <3>2. Reported' = windows \o buffer_samples
      BY <1>0, <2>1, ConcatEmptySeq, ConcatProperties DEF Reported
    <3> QED BY <3>1, <3>2
  <2>3. buffer_samples' \in Seq(Nat)
    BY <2>1, EmptySeq
  <2> QED BY <1>0, <1>2, <2>1, <2>2, <2>3
<1>8. CASE PrintReport
  <2>1. /\ windows' = windows \o window /\ window' = <<>>
        /\ UNCHANGED <<callbacks, skipped, cb_pc, buffer_samples>>
    BY <1>8 DEF PrintReport, callbackVars, stateVars
  <2>2. windows' \in Seq(Nat) /\ window' \in Seq(Nat)
    BY <1>0, <2>1, ConcatProperties, EmptySeq
  <2>3. Reported' = Reported
    <3>1. windows' \o <<>> = windows'
      BY <2>2, ConcatEmptySeq
    <3> QED BY <2>1, <3>1 DEF Reported
  <2> QED BY <1>0, <1>2, <2>1, <2>2, <2>3
<1>9. CASE \/ (\E s \in Senders, late \in 0 .. now : RecordPacketTiming(s, late))
           \/ (\E s \in Senders : ProcessPacket(s)) \/ PublishLock \/ SnapshotLock
           \/ SourcesLock \/ CopySources \/ TimingLock \/ TakeTimingSnapshot \/ Tick
           \/ UNCHANGED vars
  BY <1>1, <1>9 DEF RecordPacketTiming, ProcessPacket, PublishLock, SnapshotLock,
     SourcesLock, CopySources, TimingLock, LockFor, TakeTimingSnapshot, Tick, vars,
     callbackVars, printVars, stateVars, Unpublished
<1> QED BY <1>4, <1>5, <1>6, <1>7, <1>8, <1>9 DEF Next

\* No interleaving of the audio callback and the main thread reports a buffer
\* level twice, out of order or not at all without having skipped it.
THEOREM SamplesReportedOnce == Spec => []SamplesAreReportedOnce
<1>1. Init => SamplesInv
  <2> SUFFICES ASSUME Init PROVE SamplesInv
    OBVIOUS
  <2>1. <<>> \in Seq(Nat) /\ Len(<<>>) = 0 /\ <<>> \o <<>> \o <<>> = <<>>
    BY EmptySeq, ConcatEmptySeq
  <2>2. /\ windows = <<>> /\ window = <<>> /\ buffer_samples = <<>> /\ callbacks = 0
        /\ skipped = {} /\ Unpublished = {} /\ cb_pc = "idle"
    BY DEF Init, Unpublished
  <2>3. 1 .. 0 = {}
    OBVIOUS
  <2>4. SamplesAreReportedOnce
    BY <2>1, <2>2, <2>3 DEF SamplesAreReportedOnce, Entries
  <2> QED BY <2>1, <2>2, <2>4 DEF SamplesInv
<1>2. SamplesInv => SamplesAreReportedOnce
  BY DEF SamplesInv
<1> QED BY <1>1, <1>2, SamplesStep, PTL DEF Spec
=============================================================================

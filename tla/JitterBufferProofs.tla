--------------------------- MODULE JitterBufferProofs ---------------------------
(***************************************************************************)
(* Proofs about JitterBuffer, for every value of its constants.            *)
(***************************************************************************)
EXTENDS JitterBuffer, FiniteSetTheorems, TLAPS

-----------------------------------------------------------------------------
(* Arithmetic of sub-frame positions. *)

\* Floor division by a positive number.
LEMMA DivFacts ==
  ASSUME NEW x \in Int, NEW d \in Nat \ {0}
  PROVE  /\ x \div d \in Int
         /\ d * (x \div d) <= x
         /\ x < d * (x \div d) + d
  OBVIOUS

\* A position below frame k has a frame number below k.
LEMMA FrameBelow ==
  ASSUME NEW x \in Int, NEW k \in Int, NEW d \in Nat \ {0}, x < k * d
  PROVE  x \div d < k
  BY DivFacts

\* A position at or above frame k has a frame number of at least k.
LEMMA FrameAtLeast ==
  ASSUME NEW x \in Int, NEW k \in Int, NEW d \in Nat \ {0}, k * d <= x
  PROVE  k <= x \div d
  BY DivFacts

\* Products keep the order.
LEMMA TimesMonotone ==
  ASSUME NEW a \in Int, NEW b \in Int, NEW k \in Nat, a <= b
  PROVE  /\ a * k <= b * k
         /\ k * a <= k * b
  OBVIOUS

\* A positive factor can be cancelled.
LEMMA TimesCancel ==
  ASSUME NEW a \in Int, NEW b \in Int, NEW k \in Nat \ {0}, a * k <= b * k
  PROVE  a <= b
  OBVIOUS

\* The reader's frame number brackets its position (read_pos_frame).
LEMMA ReadFrameFacts ==
  ASSUME NEW rp \in Nat
  PROVE  /\ ReadFrame(rp) \in Nat
         /\ ReadFrame(rp) * Sub <= rp + Eps
         /\ rp + Eps < (ReadFrame(rp) + 1) * Sub
         /\ rp < (ReadFrame(rp) + 1) * Sub
         /\ ReadFrame(rp) <= rp \div Sub + 1
<1> USE PositionAssumption DEF ReadFrame
<1>1. rp + Eps \in Nat /\ Sub \in Nat \ {0}
  OBVIOUS
<1>2. /\ ReadFrame(rp) \in Int
      /\ Sub * ReadFrame(rp) <= rp + Eps
      /\ rp + Eps < Sub * ReadFrame(rp) + Sub
  BY <1>1, DivFacts
<1>3. 0 <= ReadFrame(rp)
  BY <1>1, FrameAtLeast, 0 * Sub <= rp + Eps
<1>4. rp + Eps < (rp \div Sub + 2) * Sub
  <2>1. /\ rp \div Sub \in Int
        /\ rp < Sub * (rp \div Sub) + Sub
    BY <1>1, DivFacts
  <2> QED BY <2>1
<1>5. ReadFrame(rp) < rp \div Sub + 2
  <2>1. rp \div Sub \in Int
    BY <1>1, DivFacts
  <2> QED BY <1>1, <1>4, <2>1, FrameBelow
<1>6. rp \div Sub \in Int
  BY <1>1, DivFacts
<1> QED BY <1>2, <1>3, <1>5, <1>6

\* The span a callback of n frames renders is covered by the source frames
\* asked for (source_frames_for_output_frames rounds up).
LEMMA SourceFramesFacts ==
  ASSUME NEW n \in RenderSizes
  PROVE  /\ n \in Nat \ {0}
         /\ SourceFrames(n) \in Nat \ {0}
         /\ n * Step <= SourceFrames(n) * Sub
         /\ (SourceFrames(n) - 1) * Sub < n * Step
<1> USE SizeAssumption, PositionAssumption
<1>1. n \in Nat \ {0} /\ Sub \in Nat \ {0} /\ Step \in Nat \ {0}
  OBVIOUS
<1>2. n * Step \in Nat \ {0}
  BY <1>1
<1>3. n * Step + Sub - 1 \in Int
  BY <1>1, <1>2
<1>4. /\ SourceFrames(n) \in Int
      /\ n * Step + Sub - 1 < Sub * SourceFrames(n) + Sub
      /\ Sub * SourceFrames(n) <= n * Step + Sub - 1
  BY <1>1, <1>3, DivFacts DEF SourceFrames
<1>5. n * Step <= SourceFrames(n) * Sub /\ (SourceFrames(n) - 1) * Sub < n * Step
  BY <1>1, <1>2, <1>4
<1>6. 1 <= SourceFrames(n)
  <2>1. 1 * Sub <= n * Step + Sub - 1
    BY <1>1, <1>2
  <2> QED BY <1>1, <1>3, <2>1, FrameAtLeast DEF SourceFrames
<1> QED BY <1>1, <1>4, <1>5, <1>6

\* The starts of packets are frame positions and there are finitely many.
LEMMA StartsFacts ==
  /\ Starts \subseteq Nat
  /\ \A s \in Starts : s + PacketFrames <= LastEnd
  /\ LastEnd \in Nat /\ LastEnd < PosMod
  /\ IsFiniteSet(Starts)
<1> USE SizeAssumption, PositionAssumption DEF Starts, LastEnd
<1>1. ASSUME NEW k \in 0 .. MaxPacket
      PROVE  /\ k * PacketFrames \in Nat
             /\ k * PacketFrames + PacketFrames <= (MaxPacket + 1) * PacketFrames
  <2>1. k \in Nat /\ k + 1 <= MaxPacket + 1 /\ PacketFrames \in Nat
    OBVIOUS
  <2>2. (k + 1) * PacketFrames <= (MaxPacket + 1) * PacketFrames
    BY <2>1, TimesMonotone
  <2> QED BY <2>1, <2>2
<1>2. LastEnd \in Nat /\ LastEnd < PosMod
  OBVIOUS
<1>3. Starts \in SUBSET Nat /\ \A s \in Starts : s <= LastEnd
  BY <1>1
<1>4. IsFiniteSet(Starts)
  <2> HIDE DEF Starts, LastEnd
  <2> QED BY <1>2, <1>3, FS_BoundedSetOfNaturals
<1> QED BY <1>1, <1>2, <1>4

\* A packet's positions and sequence number.
LEMMA PacketFacts ==
  ASSUME NEW p \in Packet
  PROVE  /\ StartOf(p) \in Starts /\ StartOf(p) \in Nat
         /\ EndOf(p) = StartOf(p) + PacketFrames
         /\ EndOf(p) \in 0 .. LastEnd
         /\ SequenceOf(p) \in 0 .. SeqModulus - 1
         /\ NextSequence(p) \in 0 .. SeqModulus - 1
         /\ p.stream \in Streams
<1> USE SizeAssumption
<1>1. p.stream \in Streams /\ p.number \in 0 .. MaxPacket
  BY DEF Packet
<1>2. StartOf(p) \in Starts
  BY <1>1 DEF StartOf, Starts
<1>3. StartOf(p) \in Nat /\ EndOf(p) \in 0 .. LastEnd
  <2>1. /\ StartOf(p) \in Nat /\ LastEnd \in Nat
        /\ StartOf(p) + PacketFrames <= LastEnd
    BY <1>2, StartsFacts
  <2> QED BY <2>1 DEF EndOf
<1>4. SequenceOf(p) \in 0 .. SeqModulus - 1
  BY <1>1 DEF SequenceOf
<1>5. NextSequence(p) \in 0 .. SeqModulus - 1
  BY <1>4 DEF NextSequence
<1> QED BY <1>1, <1>2, <1>3, <1>4, <1>5 DEF EndOf

-----------------------------------------------------------------------------
(* What the helpers of the playout side return. *)

\* The frame number follows the position.
LEMMA ReadFrameMonotone ==
  ASSUME NEW rp \in Nat, NEW rq \in Nat, rp <= rq
  PROVE  ReadFrame(rp) <= ReadFrame(rq)
<1>1. /\ ReadFrame(rp) \in Nat
      /\ ReadFrame(rp) * Sub <= rp + Eps
  BY ReadFrameFacts
<1>2. Sub \in Nat \ {0} /\ rq + Eps \in Int /\ ReadFrame(rp) * Sub <= rq + Eps
  BY <1>1, PositionAssumption
<1> QED BY <1>1, <1>2, FrameAtLeast DEF ReadFrame

\* buffer_level_frames saturates at zero.
LEMMA LevelFacts ==
  ASSUME TypeOK, NEW rp \in Nat
  PROVE  /\ Level(rp) \in Nat
         /\ Level(rp) > 0 => ReadFrame(rp) = latest_received_end - Level(rp)
         /\ latest_received_end <= ReadFrame(rp) + Level(rp)
<1>1. ReadFrame(rp) \in Nat
  BY ReadFrameFacts
<1>2. latest_received_end \in Nat
  BY StartsFacts DEF TypeOK
<1> QED BY <1>1, <1>2 DEF Level, Larger

\* trim_to_buffer_depth, asked for no more than is buffered: the subtraction
\* does not wrap, the reader does not move back and ends depth frames from the
\* newest one.
LEMMA TrimFacts ==
  ASSUME TypeOK, NEW rp \in Nat, NEW depth \in Nat \ {0}, depth <= Level(rp)
  PROVE  /\ TrimTo(rp, depth) \in Nat
         /\ rp <= TrimTo(rp, depth)
         /\ (latest_received_end - depth) * Sub <= TrimTo(rp, depth)
         /\ TrimTo(rp, depth) < (latest_received_end - depth + 1) * Sub
         /\ TrimTo(rp, depth) + Eps < (latest_received_end - depth + 1) * Sub
<1> DEFINE target == latest_received_end - depth
<1>1. Sub \in Nat \ {0}
  BY PositionAssumption
<1>2. /\ latest_received_end \in Nat /\ latest_received_end < PosMod
      /\ PosMod \in Nat
  BY StartsFacts, PositionAssumption DEF TypeOK
<1>3. /\ ReadFrame(rp) \in Nat
      /\ rp + Eps < (ReadFrame(rp) + 1) * Sub
  BY ReadFrameFacts
<1>4. ReadFrame(rp) <= target
  BY <1>2, <1>3, LevelFacts
<1>5. target \in Nat /\ target < PosMod
  BY <1>2, <1>3, <1>4
<1>6. target % PosMod = target
  <2> HIDE DEF target
  <2> QED BY <1>2, <1>5
<1>7. TrimTo(rp, depth) = Larger(rp, target * Sub)
  BY <1>6 DEF TrimTo
<1> HIDE DEF target
<1>8. target * Sub \in Nat /\ target * Sub + Eps < (target + 1) * Sub /\ Eps \in Nat
  BY <1>1, <1>5, PositionAssumption
<1>9. (ReadFrame(rp) + 1) * Sub <= (target + 1) * Sub
  BY <1>1, <1>3, <1>4, <1>5, TimesMonotone
<1>10. (ReadFrame(rp) + 1) * Sub \in Nat /\ (target + 1) * Sub \in Nat
  BY <1>1, <1>3, <1>5
<1>11. rp + Eps < (target + 1) * Sub
  BY <1>3, <1>8, <1>9, <1>10
<1>12. /\ Larger(rp, target * Sub) \in Nat
       /\ rp <= Larger(rp, target * Sub)
       /\ target * Sub <= Larger(rp, target * Sub)
       /\ Larger(rp, target * Sub) < (target + 1) * Sub
       /\ Larger(rp, target * Sub) + Eps < (target + 1) * Sub
  BY <1>8, <1>10, <1>11 DEF Larger
<1> QED BY <1>7, <1>12 DEF target

\* sync_read_pos_to_playout_clock never moves the reader back, nor to within
\* two frames of the newest one.
LEMMA SyncFacts ==
  ASSUME TypeOK, NEW src \in Nat
  PROVE  /\ SyncedReadPos(src) \in Nat
         /\ read_pos <= SyncedReadPos(src)
<1> DEFINE safe == Larger(0, latest_received_end - 2) * Sub
<1>1. Sub \in Nat \ {0} /\ FixedDelay \in Nat /\ TickFrames \in Nat
  BY PositionAssumption, SizeAssumption
<1>2. read_pos \in Nat /\ latest_received_end \in Nat
  BY StartsFacts DEF TypeOK
<1>3. CASE ~(ClockSync /\ anchor # None)
  BY <1>2, <1>3 DEF SyncedReadPos
<1>4. CASE ClockSync /\ anchor # None
  <2>1. /\ anchor.position \in Nat /\ now - anchor.arrival \in Int
        /\ drift.sender \in Nat /\ drift.receiver \in Nat \ {0}
    <3>1. anchor \in [position : Starts, arrival : 0 .. now]
      BY <1>4 DEF TypeOK
    <3>2. now \in Nat
      BY SizeAssumption DEF TypeOK
    <3>3. anchor.position \in Starts /\ anchor.arrival \in 0 .. now
      BY <3>1
    <3>4. anchor.position \in Nat
      BY <3>3, StartsFacts
    <3> QED BY <3>2, <3>3, <3>4 DEF TypeOK
  <2>2. (now - anchor.arrival) * TickFrames * Sub * drift.sender \in Int
    BY <1>1, <2>1
  <2>3. ((now - anchor.arrival) * TickFrames * Sub * drift.sender)
           \div drift.receiver \in Int
    BY <2>1, <2>2, DivFacts
  <2>4. anchor.position * Sub \in Int /\ (FixedDelay + src) * Sub \in Int
    BY <1>1, <2>1
  <2>5. ClockTarget(src) \in Int
    BY <2>3, <2>4 DEF ClockTarget
  <2>6. safe \in Int
    BY <1>1, <1>2 DEF Larger
  <2>7. SyncedReadPos(src) = Larger(read_pos, Smaller(ClockTarget(src), safe))
    BY <1>4 DEF SyncedReadPos
  <2> QED BY <1>2, <2>5, <2>6, <2>7 DEF Larger, Smaller
<1> QED BY <1>3, <1>4

\* However much the rate is corrected, each output frame moves the reader by a
\* non-negative step, and a callback by no more than its source frames plus the
\* correction on each of them.
LEMMA AdvanceFacts ==
  ASSUME NEW n \in Nat \ {0}, NEW src \in Nat, n * Step <= src * Sub,
         NEW c \in Int, -Sub < c
  PROVE  /\ Advance(c) \in Nat
         /\ c <= 0 => n * Advance(c) <= src * Sub
         /\ c >= 0 => n * Advance(c) <= src * Sub + src * c
<1> DEFINE q == (Step * c) \div Sub
<1>1. Sub \in Nat \ {0} /\ Step \in Nat \ {0}
  BY PositionAssumption
<1>2. Step * c \in Int /\ -Step * Sub <= Step * c
  <2>1. Step * (-Sub) <= Step * c
    BY <1>1, TimesMonotone
  <2> QED BY <1>1, <2>1
<1>3. /\ q \in Int
      /\ Sub * q <= Step * c
  BY <1>1, <1>2, DivFacts
<1>4. -Step <= q
  <2>1. (-Step) * Sub <= Step * c /\ -Step \in Int
    BY <1>1, <1>2
  <2> QED BY <1>1, <1>2, <2>1, FrameAtLeast
<1>5. Advance(c) = Step + q
  BY DEF Advance
<1> HIDE DEF q
<1>6. Advance(c) \in Nat
  BY <1>1, <1>3, <1>4, <1>5
<1>7. n * Advance(c) = n * Step + n * q
  BY <1>1, <1>3, <1>5
<1>8. ASSUME c <= 0 PROVE n * Advance(c) <= src * Sub
  <2>1. Step * c <= 0
    BY <1>1, <1>8
  <2>2. q * Sub <= 0 * Sub
    BY <1>1, <1>2, <1>3, <2>1
  <2>3. q <= 0
    BY <1>1, <1>3, <2>2, TimesCancel
  <2>4. n * q <= 0
    BY <1>3, <2>3
  <2>5. n * q \in Int /\ n * Step \in Int /\ src * Sub \in Int
    BY <1>1, <1>3
  <2> QED BY <1>7, <2>4, <2>5
<1>9. ASSUME c >= 0 PROVE n * Advance(c) <= src * Sub + src * c
  <2>1. c \in Nat
    BY <1>9
  <2>2. n * (Sub * q) <= n * (Step * c)
    BY <1>1, <1>2, <1>3, TimesMonotone
  <2>3. (n * Step) * c <= (src * Sub) * c
    BY <1>1, <2>1, TimesMonotone
  <2>4. (n * q) * Sub = n * (Sub * q)
    BY <1>1, <1>3
  <2>5. n * (Step * c) = (n * Step) * c
    BY <1>1
  <2>6. (src * Sub) * c = (src * c) * Sub
    BY <1>1
  <2>7. n * q \in Int /\ src * c \in Int /\ n * Step \in Int /\ src * Sub \in Int
    BY <1>1, <1>3
  <2>8. (n * q) * Sub \in Int /\ (n * Step) * c \in Int /\ (src * c) * Sub \in Int
    BY <1>1, <2>7
  <2>9. (n * q) * Sub <= (src * c) * Sub
    BY <2>2, <2>3, <2>4, <2>5, <2>6, <2>8
  <2>10. n * q <= src * c
    BY <1>1, <2>7, <2>9, TimesCancel
  <2> QED BY <1>7, <2>7, <2>10
<1> QED BY <1>6, <1>8, <1>9

\* The correction has the sign of the error and is at most proportional to it.
LEMMA CorrectionFacts ==
  ASSUME TypeOK, NEW rp \in Nat, NEW src \in Nat
  PROVE  LET err == Level(rp) - (FixedDelay + src)
             c   == Correction(rp, src)
         IN  /\ c \in Int /\ -Sub < c
             /\ MustTrim(rp, src) => c = 0
             /\ err <= 0 => c <= 0 /\ err * CorrPerFrame <= c
             /\ err >= 0 => c >= 0 /\ c <= err * CorrPerFrame
<1> DEFINE err == Level(rp) - (FixedDelay + src)
           c   == Correction(rp, src)
<1>1. /\ CorrPerFrame \in Nat /\ CorrMax \in Nat /\ CorrMax < Sub
      /\ FixedDelay \in Nat /\ Sub \in Nat
  BY PositionAssumption, SizeAssumption
<1>2. err \in Int
  BY <1>1, LevelFacts
<1>3. c = IF MustTrim(rp, src) THEN 0 ELSE Clamp(err * CorrPerFrame, -CorrMax, CorrMax)
  BY DEF Correction
<1> HIDE DEF err, c
<1>4. err * CorrPerFrame \in Int
  BY <1>1, <1>2
<1>5. /\ err <= 0 => err * CorrPerFrame <= 0
      /\ err >= 0 => err * CorrPerFrame >= 0
  BY <1>1, <1>2
<1>6. /\ c \in Int /\ -Sub < c
      /\ MustTrim(rp, src) => c = 0
      /\ err <= 0 => c <= 0 /\ err * CorrPerFrame <= c
      /\ err >= 0 => c >= 0 /\ c <= err * CorrPerFrame
  BY <1>1, <1>3, <1>4, <1>5 DEF Clamp, Larger, Smaller
<1> QED BY <1>6 DEF err, c

\* A callback that renders starts from a reader no further back than before and
\* no further behind the newest frame than the delay allows, and leaves it less
\* than a frame past the newest one.
LEMMA RenderFacts ==
  ASSUME TypeOK, NEW rp \in Nat, NEW n \in RenderSizes,
         ~Starved(rp, SourceFrames(n))
  PROVE  LET from == PreparedReadPos(rp, SourceFrames(n))
             adv  == Advance(Correction(rp, SourceFrames(n)))
         IN  /\ from \in Nat /\ rp <= from
             /\ adv \in Nat
             /\ from + n * adv < (latest_received_end + 1) * Sub
             /\ latest_received_end - ReadFrame(from)
                  <= FixedDelay + SourceFrames(n) + Tolerance
<1> DEFINE src  == SourceFrames(n)
           need == FixedDelay + src
           from == PreparedReadPos(rp, src)
           c    == Correction(rp, src)
           adv  == Advance(c)
           lev  == Level(rp)
<1>1. n \in Nat \ {0} /\ src \in Nat \ {0} /\ n * Step <= src * Sub
  BY SourceFramesFacts
<1>2. /\ Sub \in Nat \ {0} /\ FixedDelay \in Nat \ {0} /\ Tolerance \in Nat
      /\ CorrPerFrame \in Nat /\ CorrPerFrame * src <= Sub
  BY PositionAssumption, SizeAssumption, GainAssumption
<1>3. latest_received_end \in Nat
  BY StartsFacts DEF TypeOK
<1>4. /\ lev \in Nat
      /\ lev > 0 => ReadFrame(rp) = latest_received_end - lev
  BY LevelFacts
<1>5. /\ ReadFrame(rp) \in Nat
      /\ rp < (ReadFrame(rp) + 1) * Sub
  BY ReadFrameFacts
<1>6. /\ c \in Int /\ -Sub < c
      /\ MustTrim(rp, src) => c = 0
      /\ lev - need <= 0 => c <= 0
      /\ lev - need >= 0 => c >= 0 /\ c <= (lev - need) * CorrPerFrame
  BY <1>1, CorrectionFacts
<1>7. /\ adv \in Nat
      /\ c <= 0 => n * adv <= src * Sub
      /\ c >= 0 => n * adv <= src * Sub + src * c
  BY <1>1, <1>6, AdvanceFacts
<1>8. need \in Nat \ {0} /\ n * adv \in Nat
  BY <1>1, <1>2, <1>7
<1>9. CASE MustTrim(rp, src)
  <2>1. need <= lev
    BY <1>2, <1>4, <1>8, <1>9 DEF MustTrim, Starved
  <2>2. from = TrimTo(rp, need)
    BY <1>9 DEF PreparedReadPos
  <2> HIDE DEF src, need, from, c, adv, lev
  <2>3. /\ from \in Nat /\ rp <= from
        /\ (latest_received_end - need) * Sub <= from
        /\ from < (latest_received_end - need + 1) * Sub
    BY <1>8, <2>1, <2>2, TrimFacts DEF lev
  <2>4. n * adv <= src * Sub
    BY <1>6, <1>7, <1>9
  <2>5. (latest_received_end - need + 1) * Sub + src * Sub
          <= (latest_received_end + 1) * Sub
    <3>1. latest_received_end - need + 1 + src <= latest_received_end + 1
      BY <1>1, <1>2, <1>3 DEF need
    <3>2. (latest_received_end - need + 1 + src) * Sub <= (latest_received_end + 1) * Sub
      BY <1>1, <1>2, <1>3, <1>8, <3>1, TimesMonotone
    <3> QED BY <1>1, <1>2, <1>3, <1>8, <3>2
  <2>6. from + n * adv < (latest_received_end + 1) * Sub
    <3>1. /\ (latest_received_end - need + 1) * Sub \in Int /\ src * Sub \in Int
          /\ (latest_received_end + 1) * Sub \in Int
      BY <1>1, <1>2, <1>3, <1>8
    <3> QED BY <1>8, <2>3, <2>4, <2>5, <3>1
  <2>7. latest_received_end - ReadFrame(from) <= need + Tolerance
    <3>1. /\ ReadFrame(from) \in Nat
          /\ from + Eps \in Int /\ Eps \in Nat
      BY <2>3, ReadFrameFacts, PositionAssumption
    <3>2. latest_received_end - need \in Int
      BY <1>3, <1>8
    <3>3. (latest_received_end - need) * Sub <= from + Eps
      BY <1>2, <2>3, <3>1, <3>2
    <3>4. latest_received_end - need <= ReadFrame(from)
      BY <1>2, <3>1, <3>2, <3>3, FrameAtLeast DEF ReadFrame
    <3> QED BY <1>2, <1>3, <1>8, <3>1, <3>4
  <2> QED BY <1>7, <2>3, <2>6, <2>7 DEF src, need, from, c, adv
<1>10. CASE ~MustTrim(rp, src)
  <2>1. from = rp
    BY <1>10 DEF PreparedReadPos
  <2>2. state = "Running" /\ lev - need <= Tolerance
    BY <1>2, <1>4, <1>8, <1>10 DEF MustTrim
  <2>3. src <= lev
    BY <1>1, <1>4, <2>2 DEF Starved
  <2> HIDE DEF src, need, from, c, adv, lev
  <2>4. ReadFrame(rp) = latest_received_end - lev
    BY <1>1, <1>4, <2>3
  <2>5. n * adv <= lev * Sub
    <3>1. CASE lev - need <= 0
      <4>1. n * adv <= src * Sub
        BY <1>6, <1>7, <3>1
      <4>2. src * Sub <= lev * Sub
        BY <1>1, <1>2, <1>4, <2>3, TimesMonotone
      <4>3. src * Sub \in Int /\ lev * Sub \in Int
        BY <1>1, <1>2, <1>4
      <4> QED BY <1>8, <4>1, <4>2, <4>3
    <3>2. CASE lev - need > 0
      <4> DEFINE err == lev - need
      <4>1. err \in Nat
        BY <1>4, <1>8, <3>2
      <4>2. c \in Nat /\ c <= err * CorrPerFrame
        BY <1>4, <1>6, <1>8, <3>2
      <4> HIDE DEF err
      <4>3. n * adv <= src * Sub + src * c
        BY <1>7, <4>2
      <4>4. src * c <= src * (err * CorrPerFrame)
        BY <1>1, <1>2, <4>1, <4>2, TimesMonotone
      <4>5. src * (err * CorrPerFrame) = (CorrPerFrame * src) * err
        BY <1>1, <1>2, <4>1
      <4>6. (CorrPerFrame * src) * err <= Sub * err
        BY <1>1, <1>2, <4>1, TimesMonotone
      <4>7. src * Sub + Sub * err = (src + err) * Sub
        BY <1>1, <1>2, <4>1
      <4>8. (src + err) * Sub <= lev * Sub
        <5>1. src + err <= lev /\ src + err \in Int
          BY <1>1, <1>2, <1>4, <4>1 DEF err, need
        <5> QED BY <1>2, <1>4, <5>1, TimesMonotone
      <4>9. /\ src * Sub \in Int /\ src * c \in Int /\ (CorrPerFrame * src) * err \in Int
            /\ Sub * err \in Int /\ (src + err) * Sub \in Int /\ lev * Sub \in Int
        BY <1>1, <1>2, <1>4, <4>1, <4>2
      <4> QED BY <1>8, <4>3, <4>4, <4>5, <4>6, <4>7, <4>8, <4>9
    <3> QED BY <1>4, <1>8, <3>1, <3>2
  <2>6. (ReadFrame(rp) + 1) * Sub + lev * Sub = (latest_received_end + 1) * Sub
    BY <1>2, <1>3, <1>4, <2>4
  <2>7. rp + n * adv < (latest_received_end + 1) * Sub
    <3>1. /\ (ReadFrame(rp) + 1) * Sub \in Int /\ lev * Sub \in Int
          /\ (latest_received_end + 1) * Sub \in Int
      BY <1>2, <1>3, <1>4, <1>5
    <3> QED BY <1>5, <1>8, <2>5, <2>6, <3>1
  <2>8. latest_received_end - ReadFrame(rp) <= need + Tolerance
    BY <1>2, <1>3, <1>4, <1>8, <2>2, <2>4
  <2> QED BY <1>7, <2>1, <2>7, <2>8 DEF src, need, from, c, adv
<1> QED BY <1>9, <1>10

-----------------------------------------------------------------------------
(* Type correctness. *)

\* Counter increments are naturals.
LEMMA CountFacts ==
  /\ \A S : Inc(S) \in [Counters -> Nat]
  /\ \A f \in [Counters -> Nat], c \in Counters, v \in Nat :
       [f EXCEPT ![c] = v] \in [Counters -> Nat]
  /\ TypeOK => \A q \in 0 .. SeqModulus - 1, f \in [Counters -> Nat] :
                 CountSequence(q, f) \in [Counters -> Nat]
<1>1. \A S : Inc(S) \in [Counters -> Nat]
  BY DEF Inc
<1>2. \A f \in [Counters -> Nat], c \in Counters, v \in Nat :
       [f EXCEPT ![c] = v] \in [Counters -> Nat]
  OBVIOUS
<1>3. ASSUME TypeOK, NEW q \in 0 .. SeqModulus - 1, NEW f \in [Counters -> Nat]
      PROVE  CountSequence(q, f) \in [Counters -> Nat]
  <2>1. IsGap(q) => Forward(q) \in Nat
    <3>1. ASSUME expected_sequence # None PROVE Forward(q) \in Nat
      BY <1>3, <3>1, SizeAssumption DEF TypeOK, Forward
    <3> QED BY <3>1 DEF IsGap
  <2>2. (IF IsGap(q) THEN Forward(q) ELSE 0) \in Nat
    BY <2>1
  <2>3. (IF IsBackward(q) THEN 1 ELSE 0) \in Nat
    OBVIOUS
  <2>4. "lost" \in Counters /\ "out_of_order" \in Counters
    BY DEF Counters
  <2> QED BY <2>2, <2>3, <2>4 DEF CountSequence
<1> QED BY <1>1, <1>2, <1>3

\* Any set of packets has a countable size.
LEMMA PacketSetFacts ==
  ASSUME NEW S \in SUBSET Starts
  PROVE  IsFiniteSet(S) /\ Cardinality(S) \in Nat
  BY StartsFacts, FS_Subset, FS_CardinalityType

\* A set of output frames of one callback has a countable size.
LEMMA OutputSetFacts ==
  ASSUME NEW n \in Nat, NEW S \in SUBSET (1 .. n)
  PROVE  IsFiniteSet(S) /\ Cardinality(S) \in Nat
<1>1. IsFiniteSet(1 .. n)
  BY FS_Interval
<1> QED BY <1>1, FS_Subset, FS_CardinalityType

\* Every step of the buffer keeps its state well typed.
LEMMA TypeStep == TypeOK /\ [Next]_vars => TypeOK'
<1> SUFFICES ASSUME TypeOK, [Next]_vars PROVE TypeOK'
  OBVIOUS
<1> USE SizeAssumption
<1>0. now \in Nat /\ Arrivals \subseteq 0 .. now
  BY DEF TypeOK, Arrivals
<1>1. ASSUME NEW p \in Packet, NEW t \in Arrivals, RejectForeign(p, t)
      PROVE  TypeOK'
  BY <1>1, CountFacts DEF TypeOK, RejectForeign, jbVars
<1>2. ASSUME NEW p \in Packet, NEW t \in Arrivals, StartStream(p, t)
      PROVE  TypeOK'
  <2>1. /\ StartOf(p) \in Starts /\ StartOf(p) \in Nat /\ p.stream \in Streams
        /\ NextSequence(p) \in 0 .. SeqModulus - 1 /\ EndOf(p) \in 0 .. LastEnd
    BY PacketFacts
  <2>2. StartOf(p) * Sub \in Nat
    BY <2>1, PositionAssumption
  <2>3. AnchorAt(p, t) \in [position : Starts, arrival : 0 .. now]
    BY <1>0, <2>1 DEF AnchorAt
  <2>4. Larger(ClearedEnd, EndOf(p)) \in 0 .. LastEnd
    BY <2>1, StartsFacts DEF ClearedEnd, Larger
  <2>5. packets' \subseteq Starts
    BY <1>2, <2>1 DEF StartStream, WithinCapacity, ClearedPackets
  <2> QED BY <1>0, <1>2, <2>1, <2>2, <2>3, <2>4, <2>5, CountFacts
          DEF TypeOK, StartStream, JitterState
<1>3. ASSUME NEW p \in Packet, RejectLate(p) PROVE TypeOK'
  <2>1. SequenceOf(p) \in 0 .. SeqModulus - 1 /\ NextSequence(p) \in 0 .. SeqModulus - 1
    BY PacketFacts
  <2> QED BY <1>3, <2>1, CountFacts DEF TypeOK, RejectLate
<1>4. ASSUME NEW p \in Packet, RejectDuplicate(p) PROVE TypeOK'
  <2>1. SequenceOf(p) \in 0 .. SeqModulus - 1 /\ NextSequence(p) \in 0 .. SeqModulus - 1
    BY PacketFacts
  <2> QED BY <1>4, <2>1, CountFacts DEF TypeOK, RejectDuplicate
<1>5. ASSUME NEW p \in Packet, NEW t \in Arrivals, AcceptPacket(p, t)
      PROVE  TypeOK'
  <2> DEFINE newest == Larger(latest_received_end, EndOf(p))
             held   == packets \cup {StartOf(p)}
             kept   == WithinCapacity(held, newest)
  <2>1. /\ StartOf(p) \in Starts /\ StartOf(p) \in Nat
        /\ SequenceOf(p) \in 0 .. SeqModulus - 1
        /\ NextSequence(p) \in 0 .. SeqModulus - 1 /\ EndOf(p) \in 0 .. LastEnd
    BY PacketFacts
  <2>2. held \subseteq Starts /\ kept \subseteq Starts /\ held \ kept \subseteq Starts
    BY <2>1 DEF TypeOK, WithinCapacity
  <2>3. newest \in 0 .. LastEnd
    BY <2>1, StartsFacts DEF TypeOK, Larger
  <2>4. (IF anchor = None THEN AnchorAt(p, t) ELSE anchor)
          \in [position : Starts, arrival : 0 .. now] \cup {None}
    BY <1>0, <2>1 DEF AnchorAt, TypeOK
  <2>5. DriftAfter(p, t) \in [sender : Nat, receiver : Nat \ {0}]
    <3>1. CASE anchor # None /\ t - anchor.arrival >= DriftTicks
      <4>1. anchor.position \in Starts /\ anchor.arrival \in 0 .. now
        BY <3>1 DEF TypeOK
      <4>2. anchor.position \in Nat
        BY <4>1, StartsFacts
      <4>3. Larger(0, StartOf(p) - anchor.position) \in Nat
        BY <2>1, <4>2 DEF Larger
      <4>4. t - anchor.arrival \in Nat \ {0}
        BY <1>0, <3>1, <4>1
      <4>5. (t - anchor.arrival) * TickFrames \in Nat \ {0}
        BY <4>4
      <4> QED BY <3>1, <4>3, <4>5 DEF DriftAfter
    <3>2. CASE ~(anchor # None /\ t - anchor.arrival >= DriftTicks)
      BY <3>2 DEF DriftAfter, TypeOK
    <3> QED BY <3>1, <3>2
  <2>6. counted' \in [Counters -> Nat]
    <3>1. Cardinality(held \ kept) \in Nat
      BY <2>2, PacketSetFacts
    <3>2. CountSequence(SequenceOf(p), Inc({"received", "accepted"}))
            \in [Counters -> Nat]
      BY <2>1, CountFacts
    <3>3. "late" \in Counters
      BY DEF Counters
    <3> HIDE DEF held, kept
    <3>4. counted' = [CountSequence(SequenceOf(p), Inc({"received", "accepted"}))
                        EXCEPT !["late"] = Cardinality(held \ kept)]
      BY <1>5 DEF AcceptPacket, held, kept
    <3> QED BY <3>1, <3>2, <3>3, <3>4, CountFacts
  <2>7. /\ packets' = kept /\ latest_received_end' = newest
        /\ anchor' = (IF anchor = None THEN AnchorAt(p, t) ELSE anchor)
        /\ drift' = DriftAfter(p, t) /\ expected_sequence' = NextSequence(p)
        /\ last_stream_arrival' = t /\ silent' = {}
        /\ delivered' = delivered \cup {StartOf(p)}
        /\ UNCHANGED <<state, stream_id, read_pos, consecutive_missing_frames, now>>
    BY <1>5 DEF AcceptPacket
  <2> HIDE DEF newest, held, kept
  <2> QED BY <1>0, <2>1, <2>2, <2>3, <2>4, <2>5, <2>6, <2>7 DEF TypeOK
<1>6. CASE RecordInvalidPacket
  BY <1>6, CountFacts DEF TypeOK, RecordInvalidPacket, jbVars
<1>7. CASE TrimToPlayoutBufferBudget
  <2>1. read_pos \in Nat /\ consecutive_missing_frames \in Nat
    BY DEF TypeOK
  <2>2. FixedDelay \in Nat \ {0} /\ FixedDelay <= Level(read_pos)
    BY <1>7, <2>1, LevelFacts DEF OverBudget, TrimToPlayoutBufferBudget
  <2>3. TrimTo(read_pos, FixedDelay) \in Nat
    BY <2>1, <2>2, TrimFacts
  <2> QED BY <1>7, <2>1, <2>3, CountFacts
          DEF TypeOK, OverBudget, TrimToPlayoutBufferBudget, MissingAfterMove
<1>8. ASSUME NEW n \in RenderSizes, PullSilence(n) PROVE TypeOK'
  <2>1. SyncedReadPos(SourceFrames(n)) \in Nat
    BY SourceFramesFacts, SyncFacts
  <2> QED BY <1>8, <2>1, CountFacts
          DEF TypeOK, PullSilence, MissingAfterMove, JitterState
<1>9. ASSUME NEW n \in RenderSizes, PullRender(n) PROVE TypeOK'
  <2> DEFINE src    == SourceFrames(n)
             synced == SyncedReadPos(src)
             from   == PreparedReadPos(synced, src)
             adv    == Advance(Correction(synced, src))
             quiet  == SilentOutputs(from, adv, n)
             moved  == MissingAfterMove(read_pos, from, consecutive_missing_frames)
             miss   == MissingRun(quiet, n, moved)
  <2>1. synced \in Nat
    BY SourceFramesFacts, SyncFacts
  <2>2. from \in Nat /\ adv \in Nat
    BY <1>9, <2>1, RenderFacts DEF PullRender
  <2>3. n \in Nat /\ from + n * adv \in Nat
    BY <2>2, SourceFramesFacts
  <2>4. quiet \subseteq 1 .. n
    BY DEF SilentOutputs
  <2>5. Cardinality(quiet) \in Nat
    BY <2>3, <2>4, OutputSetFacts
  <2>6. miss \in Nat
    <3>1. moved \in Nat
      BY DEF TypeOK, MissingAfterMove
    <3>2. Cardinality({i \in 1 .. n : i .. n \subseteq quiet}) \in Nat
      BY <2>3, OutputSetFacts
    <3> HIDE DEF moved, quiet
    <3> QED BY <3>1, <3>2 DEF MissingRun
  <2>7. {FrameUnder(from, adv, i) : i \in quiet} \subseteq Nat
    <3>1. ASSUME NEW i \in 1 .. n PROVE FrameUnder(from, adv, i) \in Nat
      <4>1. i - 1 \in Nat
        BY <2>3
      <4>2. from + (i - 1) * adv \in Nat
        BY <2>2, <4>1
      <4>3. FrameUnder(from, adv, i) \in Int
        BY <4>2, PositionAssumption, DivFacts DEF FrameUnder
      <4>4. 0 <= FrameUnder(from, adv, i)
        BY <4>2, PositionAssumption, FrameAtLeast, 0 * Sub <= from + (i - 1) * adv
           DEF FrameUnder
      <4> QED BY <4>3, <4>4
    <3> HIDE DEF from, adv, quiet
    <3> QED BY <2>4, <3>1
  <2>8. counted' \in [Counters -> Nat]
    <3>1. "missing_frames" \in Counters
      BY DEF Counters
    <3>2. PICK S : counted' = [Inc(S) EXCEPT !["missing_frames"] = Cardinality(quiet)]
      BY <1>9 DEF PullRender
    <3> HIDE DEF quiet
    <3> QED BY <2>5, <3>1, <3>2, CountFacts
  <2>9. /\ read_pos' = from + n * adv
        /\ silent' = {FrameUnder(from, adv, i) : i \in quiet}
        /\ UNCHANGED <<stream_id, drift, now>>
        /\ \/ /\ state' = "Resync" /\ packets' = {} /\ latest_received_end' = 0
              /\ expected_sequence' = None /\ anchor' = None
              /\ last_stream_arrival' = None
              /\ consecutive_missing_frames' = 0 /\ delivered' = {}
           \/ /\ state' = "Running" /\ packets' \subseteq packets
              /\ consecutive_missing_frames' = miss
              /\ UNCHANGED <<latest_received_end, expected_sequence, anchor,
                             last_stream_arrival, delivered>>
    BY <1>9 DEF PullRender, ClearedPackets, ClearedEnd, NotPlayed
  <2>10. 0 \in 0 .. LastEnd
    BY StartsFacts
  <2> HIDE DEF src, synced, from, adv, quiet, moved, miss
  <2> QED BY <2>3, <2>6, <2>7, <2>8, <2>9, <2>10 DEF TypeOK, JitterState
<1>10. CASE Tick
  <2>1. now' \in 0 .. MaxTime /\ 0 .. now \subseteq 0 .. now'
    BY <1>10 DEF Tick, TypeOK
  <2>2. anchor' \in [position : Starts, arrival : 0 .. now'] \cup {None}
    BY <1>10, <2>1 DEF Tick, TypeOK, jbVars
  <2> QED BY <1>10, <2>1, <2>2, CountFacts DEF Tick, TypeOK, jbVars
<1>11. CASE UNCHANGED vars
  BY <1>11 DEF TypeOK, vars, jbVars
<1> QED BY <1>1, <1>2, <1>3, <1>4, <1>5, <1>6, <1>7, <1>8, <1>9, <1>10, <1>11
        DEF Next, InsertPacket, Pull

\* The state of the buffer is well typed in every reachable state: positions are
\* naturals within the stream and no counter is ever decremented.
THEOREM TypeCorrect == Spec => []TypeOK
<1>1. Init => TypeOK
  BY SizeAssumption, StartsFacts, CountFacts DEF Init, TypeOK, JitterState
<1> QED BY <1>1, TypeStep, PTL DEF Spec

-----------------------------------------------------------------------------
(* Safety. *)

\* A callback that renders leaves the reader behind the newest frame.
LEMMA PullRenderReader ==
  ASSUME TypeOK, NEW n \in RenderSizes, PullRender(n)
  PROVE  /\ read_pos' \in Nat /\ read_pos <= read_pos'
         /\ read_pos' < (latest_received_end + 1) * Sub
<1> DEFINE src    == SourceFrames(n)
           synced == SyncedReadPos(src)
           from   == PreparedReadPos(synced, src)
           adv    == Advance(Correction(synced, src))
<1>1. synced \in Nat /\ read_pos <= synced
  BY SourceFramesFacts, SyncFacts
<1>2. /\ from \in Nat /\ synced <= from /\ adv \in Nat
      /\ from + n * adv < (latest_received_end + 1) * Sub
  BY <1>1, RenderFacts DEF PullRender
<1>3. read_pos' = from + n * adv
  BY DEF PullRender
<1> HIDE DEF src, synced, from, adv
<1>4. n * adv \in Nat
  BY <1>2, SourceFramesFacts
<1>5. read_pos \in Nat
  BY DEF TypeOK
<1> QED BY <1>1, <1>2, <1>3, <1>4, <1>5

\* A frame rendered as silence is not beyond the newest one.
LEMMA RenderStep ==
  TypeOK /\ [Next]_vars => [\A f \in silent' : f <= latest_received_end]_vars
<1> SUFFICES ASSUME TypeOK, Next, NEW f \in silent' PROVE f <= latest_received_end
  OBVIOUS
<1>1. PICK n \in RenderSizes : PullRender(n)
  BY DEF Next, InsertPacket, RejectForeign, StartStream, RejectLate, RejectDuplicate,
         AcceptPacket, RecordInvalidPacket, OverBudget, TrimToPlayoutBufferBudget, Pull,
         PullSilence, Tick
<1> DEFINE src    == SourceFrames(n)
           synced == SyncedReadPos(src)
           from   == PreparedReadPos(synced, src)
           adv    == Advance(Correction(synced, src))
<1>2. PICK i \in 1 .. n : f = FrameUnder(from, adv, i)
  BY <1>1 DEF PullRender, SilentOutputs
<1>3. synced \in Nat
  BY SourceFramesFacts, SyncFacts
<1>4. /\ from \in Nat /\ adv \in Nat
      /\ from + n * adv < (latest_received_end + 1) * Sub
  BY <1>1, <1>3, RenderFacts DEF PullRender
<1>5. n \in Nat \ {0} /\ Sub \in Nat \ {0} /\ latest_received_end \in Nat
  BY SourceFramesFacts, PositionAssumption, StartsFacts DEF TypeOK
<1> HIDE DEF src, synced, from, adv
<1>6. (i - 1) * adv <= n * adv /\ i - 1 \in Nat
  BY <1>4, <1>5, TimesMonotone
<1>7. (i - 1) * adv \in Nat /\ n * adv \in Nat /\ (latest_received_end + 1) * Sub \in Nat
  BY <1>4, <1>5, <1>6
<1> DEFINE pos  == from + (i - 1) * adv
           past == latest_received_end + 1
<1>8. pos \in Int /\ past \in Int /\ pos < past * Sub
  BY <1>4, <1>5, <1>6, <1>7
<1>9. f = pos \div Sub
  BY <1>2 DEF FrameUnder
<1> HIDE DEF pos
<1>10. f \in Int
  BY <1>5, <1>8, <1>9, DivFacts
<1>11. f < past
  <2> HIDE DEF past
  <2> QED BY <1>5, <1>8, <1>9, FrameBelow
<1> QED BY <1>5, <1>10, <1>11

\* A callback never renders past the newest frame received, for every delay,
\* tolerance, callback size, resampling ratio and correction gain the assumptions
\* allow.
THEOREM RendersWithinData == Spec => RendersBehindNewest
<1> QED BY TypeCorrect, RenderStep, PTL DEF Spec, RendersBehindNewest

\* Within a stream no step moves the reader back.
LEMMA BacktrackStep ==
  TypeOK /\ [Next]_vars => [stream_id' = stream_id => read_pos' >= read_pos]_vars
<1> SUFFICES ASSUME TypeOK, Next, stream_id' = stream_id
             PROVE  read_pos' >= read_pos
  OBVIOUS
<1>0. read_pos \in Nat
  BY DEF TypeOK
<1>1. ASSUME NEW p \in Packet, NEW t \in Arrivals, InsertPacket(p, t)
      PROVE  read_pos' >= read_pos
  BY <1>0, <1>1 DEF InsertPacket, RejectForeign, StartStream, RejectLate,
                    RejectDuplicate, AcceptPacket, jbVars
<1>2. CASE RecordInvalidPacket \/ Tick
  BY <1>0, <1>2 DEF RecordInvalidPacket, Tick, jbVars
<1>3. CASE TrimToPlayoutBufferBudget
  <2>1. FixedDelay \in Nat \ {0} /\ FixedDelay <= Level(read_pos)
    BY <1>0, <1>3, SizeAssumption, LevelFacts DEF OverBudget, TrimToPlayoutBufferBudget
  <2> QED BY <1>0, <1>3, <2>1, TrimFacts DEF OverBudget, TrimToPlayoutBufferBudget
<1>4. ASSUME NEW n \in RenderSizes, PullSilence(n) PROVE read_pos' >= read_pos
  BY <1>0, <1>4, SourceFramesFacts, SyncFacts DEF PullSilence
<1>5. ASSUME NEW n \in RenderSizes, PullRender(n) PROVE read_pos' >= read_pos
  BY <1>0, <1>5, PullRenderReader
<1> QED BY <1>1, <1>2, <1>3, <1>4, <1>5 DEF Next, Pull

\* Audio is never repeated: trims, the playout clock, starvation and underrun
\* resyncs leave the reader where it is or move it forward.
THEOREM ReaderMonotone == Spec => ReaderNeverBacktracks
<1> QED BY TypeCorrect, BacktrackStep, PTL DEF Spec, ReaderNeverBacktracks

\* Between calls the run of missing frames is within the half-second limit.
LEMMA SilenceStep ==
  TypeOK /\ SilenceRunBounded /\ [Next]_vars => SilenceRunBounded'
<1> SUFFICES ASSUME TypeOK, SilenceRunBounded, [Next]_vars
             PROVE  SilenceRunBounded'
  OBVIOUS
<1>0. MissLimit \in Nat /\ consecutive_missing_frames \in Nat
  BY SizeAssumption DEF TypeOK
<1>1. ASSUME NEW p \in Packet, NEW t \in Arrivals, InsertPacket(p, t)
      PROVE  SilenceRunBounded'
  BY <1>0, <1>1 DEF InsertPacket, RejectForeign, StartStream, RejectLate,
       RejectDuplicate, AcceptPacket, jbVars, SilenceRunBounded
<1>2. CASE RecordInvalidPacket \/ Tick \/ UNCHANGED vars
  BY <1>2 DEF RecordInvalidPacket, Tick, vars, jbVars, SilenceRunBounded
<1>3. CASE TrimToPlayoutBufferBudget
  BY <1>0, <1>3 DEF OverBudget, TrimToPlayoutBufferBudget, MissingAfterMove, SilenceRunBounded
<1>4. ASSUME NEW n \in RenderSizes, PullSilence(n) PROVE SilenceRunBounded'
  BY <1>0, <1>4 DEF PullSilence, MissingAfterMove, SilenceRunBounded
<1>5. ASSUME NEW n \in RenderSizes, PullRender(n) PROVE SilenceRunBounded'
  <2>1. PICK quiet, level, moved :
          LET missing == MissingRun(quiet, n, moved)
          IN  \/ consecutive_missing_frames' = 0
              \/ /\ ~NeedsResync(quiet, level, missing)
                 /\ consecutive_missing_frames' = missing
    BY <1>5 DEF PullRender
  <2>2. CASE consecutive_missing_frames' = 0
    BY <1>0, <2>2 DEF SilenceRunBounded
  <2>3. CASE quiet = {} /\ consecutive_missing_frames' = MissingRun(quiet, n, moved)
    <3>1. n \in Nat \ {0}
      BY SizeAssumption
    <3>2. \A i \in 1 .. n : n \in i .. n
      BY <3>1
    <3>3. {i \in 1 .. n : i .. n \subseteq quiet} = {} /\ quiet # 1 .. n
      BY <2>3, <3>1, <3>2
    <3>4. MissingRun(quiet, n, moved) = 0
      BY <3>3, FS_EmptySet DEF MissingRun
    <3> QED BY <1>0, <2>3, <3>4 DEF SilenceRunBounded
  <2>4. CASE /\ quiet # {}
             /\ ~NeedsResync(quiet, level, MissingRun(quiet, n, moved))
             /\ consecutive_missing_frames' = MissingRun(quiet, n, moved)
    <3>1. ~(consecutive_missing_frames' > MissLimit)
      BY <2>4 DEF NeedsResync
    <3>2. consecutive_missing_frames' \in Nat
      BY TypeStep DEF TypeOK
    <3> QED BY <1>0, <3>1, <3>2 DEF SilenceRunBounded
  <2> QED BY <2>1, <2>2, <2>3, <2>4
<1> QED BY <1>1, <1>2, <1>3, <1>4, <1>5 DEF Next, Pull

\* Playback never goes on past the half second of missing frames that forces a
\* resync.
THEOREM SilenceIsBounded == Spec => []SilenceRunBounded
<1>1. Init => SilenceRunBounded
  BY SizeAssumption DEF Init, SilenceRunBounded
<1> QED BY <1>1, TypeCorrect, SilenceStep, PTL DEF Spec

-----------------------------------------------------------------------------
(* Received audio is played. *)

\* What is buffered and the newest position come from the current stream.
LEMMA StreamStep ==
  TypeOK /\ BufferIsCurrentStream /\ [Next]_vars => BufferIsCurrentStream'
<1> SUFFICES ASSUME TypeOK, BufferIsCurrentStream, [Next]_vars
             PROVE  BufferIsCurrentStream'
  OBVIOUS
<1>0. /\ PacketFrames \in Nat \ {0} /\ latest_received_end \in Nat
      /\ \A s \in delivered : s \in Nat
  <2>1. delivered \subseteq Starts /\ latest_received_end \in 0 .. LastEnd
    BY DEF TypeOK
  <2> QED BY <2>1, SizeAssumption, StartsFacts
<1>1. ASSUME NEW p \in Packet, NEW t \in Arrivals, StartStream(p, t)
      PROVE  BufferIsCurrentStream'
  <2>1. /\ StartOf(p) \in Nat /\ EndOf(p) = StartOf(p) + PacketFrames
    BY PacketFacts
  <2>2. Larger(ClearedEnd, EndOf(p)) = EndOf(p)
    BY <1>0, <2>1 DEF Larger, ClearedEnd
  <2>3. /\ packets' \subseteq {StartOf(p)} /\ delivered' = {StartOf(p)}
        /\ latest_received_end' = EndOf(p)
    BY <1>1, <2>2 DEF StartStream, WithinCapacity, ClearedPackets
  <2>4. EndOf(p) - PacketFrames = StartOf(p)
    BY <1>0, <2>1
  <2>5. StartOf(p) + PacketFrames <= EndOf(p)
    BY <1>0, <2>1
  <2> QED BY <2>3, <2>4, <2>5 DEF BufferIsCurrentStream
<1>2. ASSUME NEW p \in Packet, NEW t \in Arrivals, AcceptPacket(p, t)
      PROVE  BufferIsCurrentStream'
  <2> DEFINE newest == Larger(latest_received_end, EndOf(p))
  <2>1. /\ StartOf(p) \in Nat /\ EndOf(p) = StartOf(p) + PacketFrames
    BY PacketFacts
  <2>2. /\ packets' \subseteq packets \cup {StartOf(p)}
        /\ delivered' = delivered \cup {StartOf(p)}
        /\ latest_received_end' = newest
    BY <1>2 DEF AcceptPacket, WithinCapacity
  <2>3. newest \in Nat /\ latest_received_end <= newest /\ EndOf(p) <= newest
    BY <1>0, <2>1 DEF Larger
  <2>4. newest - PacketFrames \in delivered \cup {StartOf(p)}
    <3>1. CASE newest = EndOf(p)
      BY <1>0, <2>1, <3>1
    <3>2. CASE newest # EndOf(p)
      <4>1. newest = latest_received_end /\ latest_received_end > EndOf(p)
        BY <1>0, <2>1, <3>2 DEF Larger
      <4>2. delivered # {}
        BY <1>0, <2>1, <4>1 DEF BufferIsCurrentStream
      <4> QED BY <4>1, <4>2 DEF BufferIsCurrentStream
    <3> QED BY <3>1, <3>2
  <2>5. \A s \in delivered \cup {StartOf(p)} : s + PacketFrames <= newest
    <3> HIDE DEF newest
    <3>1. ASSUME NEW s \in delivered PROVE s + PacketFrames <= newest
      BY <1>0, <2>3 DEF BufferIsCurrentStream
    <3>2. StartOf(p) + PacketFrames <= newest
      BY <2>1, <2>3
    <3> QED BY <3>1, <3>2
  <2>6. packets' \subseteq delivered' /\ delivered' # {}
    BY <2>2 DEF BufferIsCurrentStream
  <2> HIDE DEF newest
  <2> QED BY <2>2, <2>4, <2>5, <2>6 DEF BufferIsCurrentStream
<1>3. ASSUME NEW p \in Packet, NEW t \in Arrivals,
             RejectForeign(p, t) \/ RejectLate(p) \/ RejectDuplicate(p)
      PROVE  BufferIsCurrentStream'
  BY <1>3 DEF RejectForeign, RejectLate, RejectDuplicate, BufferIsCurrentStream, jbVars
<1>4. CASE RecordInvalidPacket \/ Tick \/ TrimToPlayoutBufferBudget \/ UNCHANGED vars
  BY <1>4 DEF RecordInvalidPacket, Tick, OverBudget, TrimToPlayoutBufferBudget,
              BufferIsCurrentStream, vars, jbVars
<1>5. ASSUME NEW n \in RenderSizes, PullSilence(n) PROVE BufferIsCurrentStream'
  BY <1>5 DEF PullSilence, BufferIsCurrentStream
<1>6. ASSUME NEW n \in RenderSizes, PullRender(n) PROVE BufferIsCurrentStream'
  <2>1. \/ packets' = {} /\ delivered' = {} /\ latest_received_end' = 0
        \/ /\ packets' \subseteq packets
           /\ UNCHANGED <<delivered, latest_received_end>>
    BY <1>6 DEF PullRender, ClearedPackets, ClearedEnd, NotPlayed
  <2> QED BY <2>1 DEF BufferIsCurrentStream
<1> QED BY <1>1, <1>2, <1>3, <1>4, <1>5, <1>6 DEF Next, InsertPacket, Pull

\* The buffer holds audio of one stream only, and measures its level from that
\* stream's newest frame, through stream changes and underrun resyncs alike.
THEOREM OneStreamAtATime == Spec => []BufferIsCurrentStream
<1>1. Init => BufferIsCurrentStream
  BY DEF Init, BufferIsCurrentStream
<1> QED BY <1>1, TypeCorrect, StreamStep, PTL DEF Spec

\* A packet leaves the buffer only behind the reader or beyond the capacity.
LEMMA AccountStep ==
  TypeOK /\ ReceivedIsAccountedFor /\ [Next]_vars => ReceivedIsAccountedFor'
<1> SUFFICES ASSUME TypeOK, ReceivedIsAccountedFor, [Next]_vars
             PROVE  ReceivedIsAccountedFor'
  OBVIOUS
<1>0. /\ PacketFrames \in Nat \ {0} /\ Capacity \in Nat
      /\ read_pos \in Nat /\ latest_received_end \in Nat
      /\ \A s \in delivered : s \in Nat
  BY SizeAssumption, StartsFacts DEF TypeOK
<1>1. ASSUME NEW rp \in Nat, read_pos <= rp, NEW s \in delivered,
             s + PacketFrames + 1 < ReadFrame(read_pos)
      PROVE  s + PacketFrames + 1 < ReadFrame(rp)
  <2>1. ReadFrame(read_pos) <= ReadFrame(rp)
    BY <1>0, <1>1, ReadFrameMonotone
  <2>2. ReadFrame(read_pos) \in Nat /\ ReadFrame(rp) \in Nat
    BY <1>0, <1>1, ReadFrameFacts
  <2> QED BY <1>0, <1>1, <2>1, <2>2
<1>2. ASSUME NEW p \in Packet, NEW t \in Arrivals, StartStream(p, t)
      PROVE  ReceivedIsAccountedFor'
  <2>1. StartOf(p) \in Nat /\ EndOf(p) \in Nat
    BY PacketFacts, SizeAssumption
  <2>2. Larger(ClearedEnd, EndOf(p)) \in Nat
    BY <2>1 DEF Larger, ClearedEnd
  <2>3. \/ StartOf(p) \in packets'
        \/ latest_received_end' - StartOf(p) > Capacity
    BY <1>0, <1>2, <2>1, <2>2 DEF StartStream, WithinCapacity
  <2>4. delivered' = {StartOf(p)}
    BY <1>2 DEF StartStream
  <2> QED BY <2>3, <2>4 DEF ReceivedIsAccountedFor
<1>3. ASSUME NEW p \in Packet, NEW t \in Arrivals, AcceptPacket(p, t)
      PROVE  ReceivedIsAccountedFor'
  <2>1. StartOf(p) \in Nat /\ EndOf(p) \in Nat
    BY PacketFacts, SizeAssumption
  <2>2. PICK newest \in Nat : /\ latest_received_end' = newest
                              /\ latest_received_end <= newest
                              /\ packets' = WithinCapacity(packets \cup {StartOf(p)}, newest)
    <3>1. /\ Larger(latest_received_end, EndOf(p)) \in Nat
          /\ latest_received_end <= Larger(latest_received_end, EndOf(p))
      BY <1>0, <2>1 DEF Larger
    <3>2. /\ latest_received_end' = Larger(latest_received_end, EndOf(p))
          /\ packets' = WithinCapacity(packets \cup {StartOf(p)},
                                       Larger(latest_received_end, EndOf(p)))
      BY <1>3 DEF AcceptPacket
    <3> QED BY <3>1, <3>2
  <2>3. delivered' = delivered \cup {StartOf(p)} /\ read_pos' = read_pos
    BY <1>3 DEF AcceptPacket
  <2>4. ASSUME NEW s \in packets \cup {StartOf(p)}, s \in Nat
        PROVE  s \in packets' \/ newest - s > Capacity
    BY <1>0, <2>2, <2>4 DEF WithinCapacity
  <2>5. ASSUME NEW s \in delivered \cup {StartOf(p)}
        PROVE  \/ s \in packets'
               \/ s + PacketFrames + 1 < ReadFrame(read_pos)
               \/ newest - s > Capacity
    <3>1. s \in Nat
      BY <1>0, <2>1
    <3>2. CASE s \in packets \cup {StartOf(p)}
      BY <2>4, <3>1, <3>2
    <3>3. CASE s \in delivered /\ s \notin packets
      BY <1>0, <2>2, <3>1, <3>3 DEF ReceivedIsAccountedFor
    <3> QED BY <3>2, <3>3
  <2>6. ReadFrame(read_pos)' = ReadFrame(read_pos)
    BY <2>3 DEF ReadFrame
  <2> QED BY <2>2, <2>3, <2>5, <2>6 DEF ReceivedIsAccountedFor
<1>4. ASSUME NEW p \in Packet, NEW t \in Arrivals,
             RejectForeign(p, t) \/ RejectLate(p) \/ RejectDuplicate(p)
      PROVE  ReceivedIsAccountedFor'
  BY <1>4 DEF RejectForeign, RejectLate, RejectDuplicate, ReceivedIsAccountedFor,
              ReadFrame, jbVars
<1>5. CASE RecordInvalidPacket \/ Tick \/ UNCHANGED vars
  BY <1>5 DEF RecordInvalidPacket, Tick, ReceivedIsAccountedFor, ReadFrame, vars, jbVars
<1>6. ASSUME NEW rp \in Nat, read_pos <= rp, read_pos' = rp,
             UNCHANGED <<packets, latest_received_end, delivered>>
      PROVE  ReceivedIsAccountedFor'
  <2>1. ReadFrame(read_pos)' = ReadFrame(rp)
    BY <1>6 DEF ReadFrame
  <2> QED BY <1>1, <1>6, <2>1 DEF ReceivedIsAccountedFor
<1>7. CASE TrimToPlayoutBufferBudget
  <2>1. FixedDelay \in Nat \ {0} /\ FixedDelay <= Level(read_pos)
    BY <1>0, <1>7, SizeAssumption, LevelFacts DEF OverBudget, TrimToPlayoutBufferBudget
  <2>2. /\ TrimTo(read_pos, FixedDelay) \in Nat
        /\ read_pos <= TrimTo(read_pos, FixedDelay)
    BY <1>0, <2>1, TrimFacts
  <2> QED BY <1>6, <1>7, <2>2 DEF OverBudget, TrimToPlayoutBufferBudget
<1>8. ASSUME NEW n \in RenderSizes, PullSilence(n) PROVE ReceivedIsAccountedFor'
  <2>1. /\ SyncedReadPos(SourceFrames(n)) \in Nat
        /\ read_pos <= SyncedReadPos(SourceFrames(n))
    BY SourceFramesFacts, SyncFacts
  <2> QED BY <1>6, <1>8, <2>1 DEF PullSilence
<1>9. ASSUME NEW n \in RenderSizes, PullRender(n) PROVE ReceivedIsAccountedFor'
  <2>1. PICK to \in Nat : read_pos' = to /\ read_pos <= to
    BY <1>9, PullRenderReader
  <2>2. \/ delivered' = {}
        \/ /\ packets' = NotPlayed(packets, read_pos')
           /\ UNCHANGED <<delivered, latest_received_end>>
    BY <1>9 DEF PullRender
  <2>3. ReadFrame(read_pos)' = ReadFrame(to) /\ ReadFrame(to) \in Nat
    BY <2>1, ReadFrameFacts DEF ReadFrame
  <2>4. ASSUME NEW s \in delivered, packets' = NotPlayed(packets, to)
        PROVE  \/ s \in packets'
               \/ s + PacketFrames + 1 < ReadFrame(to)
               \/ latest_received_end - s > Capacity
    <3>1. CASE s \in packets
      BY <1>0, <2>3, <2>4, <3>1 DEF NotPlayed
    <3>2. CASE s \notin packets
      BY <1>1, <2>1, <3>2 DEF ReceivedIsAccountedFor
    <3> QED BY <3>1, <3>2
  <2> QED BY <2>1, <2>2, <2>3, <2>4 DEF ReceivedIsAccountedFor
<1> QED BY <1>2, <1>3, <1>4, <1>5, <1>7, <1>8, <1>9 DEF Next, InsertPacket, Pull

\* Pruning and the capacity limit are the only ways a received packet is lost,
\* and neither takes one the reader has not passed within the capacity.
THEOREM ReceivedIsKept == Spec => []ReceivedIsAccountedFor
<1>1. Init => ReceivedIsAccountedFor
  BY DEF Init, ReceivedIsAccountedFor
<1> QED BY <1>1, TypeCorrect, AccountStep, PTL DEF Spec

\* A frame rendered as silence was not received.
LEMMA SilentStep ==
  TypeOK /\ ReceivedIsAccountedFor /\ Next =>
    \A f \in silent' : ~\E s \in delivered : s <= f /\ f < s + PacketFrames
<1> SUFFICES ASSUME TypeOK, ReceivedIsAccountedFor, Next,
                    NEW f \in silent', NEW s \in delivered,
                    s <= f, f < s + PacketFrames
             PROVE  FALSE
  OBVIOUS
<1>1. PICK n \in RenderSizes : PullRender(n)
  BY DEF Next, InsertPacket, RejectForeign, StartStream, RejectLate, RejectDuplicate,
         AcceptPacket, RecordInvalidPacket, OverBudget, TrimToPlayoutBufferBudget, Pull,
         PullSilence, Tick
<1> DEFINE src    == SourceFrames(n)
           synced == SyncedReadPos(src)
           from   == PreparedReadPos(synced, src)
           adv    == Advance(Correction(synced, src))
<1>2. PICK i \in 1 .. n : f = FrameUnder(from, adv, i) /\ ~Held(f)
  BY <1>1 DEF PullRender, SilentOutputs
<1>3. synced \in Nat /\ read_pos <= synced
  BY SourceFramesFacts, SyncFacts
<1>4. /\ from \in Nat /\ synced <= from /\ adv \in Nat
      /\ latest_received_end - ReadFrame(from) <= FixedDelay + src + Tolerance
  BY <1>1, <1>3, RenderFacts DEF PullRender
<1>5. /\ src \in Nat /\ n \in Nat
      /\ FixedDelay + Tolerance + src + PacketFrames <= Capacity
  BY SourceFramesFacts, CapacityAssumption
<1>6. /\ FixedDelay \in Nat /\ Tolerance \in Nat /\ Capacity \in Nat
      /\ PacketFrames \in Nat \ {0} /\ Sub \in Nat \ {0}
      /\ read_pos \in Nat /\ latest_received_end \in Nat /\ s \in Nat
  BY SizeAssumption, PositionAssumption, StartsFacts DEF TypeOK
<1> HIDE DEF src, synced, from, adv
<1>7. /\ ReadFrame(from) \in Nat /\ ReadFrame(read_pos) \in Nat
      /\ ReadFrame(from) <= from \div Sub + 1
      /\ ReadFrame(read_pos) <= ReadFrame(from)
  <2>1. read_pos <= from
    BY <1>3, <1>4, <1>6
  <2> QED BY <1>4, <1>6, <2>1, ReadFrameFacts, ReadFrameMonotone
<1>8. from \div Sub \in Int /\ f \in Int /\ from \div Sub <= f
  <2>1. i - 1 \in Nat
    BY <1>5
  <2>2. (i - 1) * adv \in Nat
    BY <1>4, <2>1
  <2>3. from + (i - 1) * adv \in Int
    BY <1>4, <2>2
  <2>4. f = (from + (i - 1) * adv) \div Sub
    BY <1>2 DEF FrameUnder
  <2>5. from \div Sub \in Int /\ (from \div Sub) * Sub <= from
    BY <1>4, <1>6, DivFacts
  <2>6. f \in Int
    BY <1>6, <2>3, <2>4, DivFacts
  <2>7. (from \div Sub) * Sub <= from + (i - 1) * adv
    <3>1. (from \div Sub) * Sub \in Int
      BY <1>6, <2>5
    <3> QED BY <1>4, <2>2, <2>5, <3>1
  <2>8. from \div Sub <= f
    BY <1>6, <2>3, <2>4, <2>5, <2>7, FrameAtLeast
  <2> QED BY <2>5, <2>6, <2>8
<1>9. s \notin packets
  BY <1>2 DEF Held
<1>10. s + PacketFrames + 1 < ReadFrame(read_pos) \/ latest_received_end - s > Capacity
  BY <1>9 DEF ReceivedIsAccountedFor
<1>11. s + PacketFrames + 1 >= ReadFrame(read_pos)
  BY <1>6, <1>7, <1>8
<1>12. latest_received_end - s <= Capacity
  BY <1>4, <1>5, <1>6, <1>7, <1>8
<1> QED BY <1>6, <1>7, <1>10, <1>11, <1>12

\* Whatever the network loses, repeats or reorders and however callbacks and
\* arrivals interleave, a frame that was received since the last resync and is
\* reached by the reader is heard, never replaced by silence.
THEOREM ReceivedIsHeard == Spec => ReceivedAudioIsPlayed
<1>1. TypeOK /\ ReceivedIsAccountedFor /\ [Next]_vars =>
        [\A f \in silent' : ~\E s \in delivered : s <= f /\ f < s + PacketFrames]_vars
  BY SilentStep
<1> QED BY <1>1, TypeCorrect, ReceivedIsKept, PTL DEF Spec, ReceivedAudioIsPlayed

\* A later position has a later frame.
LEMMA FrameMonotone ==
  ASSUME NEW x \in Int, NEW y \in Int, x <= y, NEW d \in Nat \ {0}
  PROVE  x \div d \in Int /\ y \div d \in Int /\ x \div d <= y \div d
<1>1. x \div d \in Int /\ y \div d \in Int /\ d * (x \div d) <= x
  BY DivFacts
<1>2. (x \div d) * d <= y
  BY <1>1
<1> QED BY <1>1, <1>2, FrameAtLeast

\* No callback renders a frame again that the reader has left behind.
LEMMA RendersAhead ==
  ASSUME TypeOK, NEW n \in RenderSizes, PullRender(n), NEW f \in silent'
  PROVE  f \in Int /\ read_pos \div Sub \in Int /\ read_pos \div Sub <= f
<1> DEFINE src    == SourceFrames(n)
           synced == SyncedReadPos(src)
           from   == PreparedReadPos(synced, src)
           adv    == Advance(Correction(synced, src))
<1>1. PICK i \in 1 .. n : f = FrameUnder(from, adv, i)
  BY DEF PullRender, SilentOutputs
<1>2. synced \in Nat /\ read_pos <= synced
  BY SourceFramesFacts, SyncFacts
<1>3. from \in Nat /\ synced <= from /\ adv \in Nat
  BY <1>2, RenderFacts DEF PullRender
<1>4. read_pos \in Nat /\ Sub \in Nat \ {0} /\ n \in Nat
  BY SourceFramesFacts, PositionAssumption DEF TypeOK
<1> HIDE DEF src, synced, from, adv
<1>5. (i - 1) * adv \in Nat
  BY <1>3, <1>4
<1> DEFINE pos == from + (i - 1) * adv
<1>6. pos \in Int /\ read_pos <= pos /\ f = pos \div Sub
  BY <1>1, <1>2, <1>3, <1>4, <1>5 DEF FrameUnder
<1> HIDE DEF pos
<1> QED BY <1>4, <1>6, FrameMonotone

-----------------------------------------------------------------------------
(* The delay. *)

\* A callback moves the reader by its source frames, less a frame of rounding,
\* less one frame for every frame the level is short by (and a frame of rounding
\* for the corrected advances).
LEMMA AdvanceAtLeast ==
  ASSUME NEW n \in Nat \ {0}, n <= Sub, NEW src \in Nat,
         n * Step <= src * Sub, (src - 1) * Sub < n * Step,
         CorrPerFrame * src <= Sub,
         NEW e \in Nat, NEW c \in Int, -Sub < c, -(e * CorrPerFrame) <= c
  PROVE  /\ c >= 0 => (src - 1) * Sub <= n * Advance(c)
         /\ c <= 0 => (src - 2 - e) * Sub <= n * Advance(c)
<1> DEFINE q == (Step * c) \div Sub
<1>1. Sub \in Nat \ {0} /\ Step \in Nat \ {0} /\ CorrPerFrame \in Nat
  BY PositionAssumption
<1>2. Step * c \in Int
  BY <1>1
<1>3. /\ q \in Int
      /\ Step * c < Sub * q + Sub
      /\ c >= 0 => 0 <= q
  <2>1. q \in Int /\ Step * c < Sub * q + Sub
    BY <1>1, <1>2, DivFacts
  <2>2. ASSUME c >= 0 PROVE 0 <= q
    <3>1. 0 * Sub <= Step * c
      BY <1>1, <2>2
    <3> QED BY <1>1, <1>2, <3>1, FrameAtLeast
  <2> QED BY <2>1, <2>2
<1>4. Advance(c) = Step + q
  BY DEF Advance
<1> HIDE DEF q
<1>5. n * Advance(c) = n * Step + n * q /\ n * Step \in Int /\ n * q \in Int
  BY <1>1, <1>3, <1>4
<1>6. (src - 1) * Sub \in Int /\ (src - 2 - e) * Sub \in Int
  BY <1>1
<1>7. ASSUME c >= 0 PROVE (src - 1) * Sub <= n * Advance(c)
  <2>1. n * q >= 0
    BY <1>3, <1>7
  <2> QED BY <1>5, <1>6, <2>1
<1>8. ASSUME c <= 0 PROVE (src - 2 - e) * Sub <= n * Advance(c)
  <2> DEFINE m == -c
  <2>1. m \in Nat /\ m <= e * CorrPerFrame
    BY <1>1, <1>8
  <2>2. Step * c = -(Step * m)
    BY <1>1
  <2> HIDE DEF m
  <2>3. (n * Step) * m <= (src * Sub) * m
    BY <1>1, <2>1, TimesMonotone
  <2>4. (src * Sub) * m <= (src * Sub) * (e * CorrPerFrame)
    BY <1>1, <2>1, TimesMonotone
  <2>5. (src * Sub) * (e * CorrPerFrame) = (CorrPerFrame * src) * (Sub * e)
    BY <1>1
  <2>6. (CorrPerFrame * src) * (Sub * e) <= Sub * (Sub * e)
    BY <1>1, TimesMonotone
  <2>7. n * (Step * m) <= Sub * (Sub * e)
    <3>1. n * (Step * m) = (n * Step) * m
      BY <1>1, <2>1
    <3>2. /\ (n * Step) * m \in Int /\ (src * Sub) * m \in Int
          /\ (src * Sub) * (e * CorrPerFrame) \in Int
          /\ (CorrPerFrame * src) * (Sub * e) \in Int /\ Sub * (Sub * e) \in Int
      BY <1>1, <2>1
    <3> QED BY <2>3, <2>4, <2>5, <2>6, <3>1, <3>2
  <2>8. n * (Step * m) + n * (Sub * q + Sub) >= 0
    <3>1. 0 <= Step * m + (Sub * q + Sub) /\ Step * m \in Int /\ Sub * q + Sub \in Int
      BY <1>1, <1>3, <2>1, <2>2
    <3>2. n * 0 <= n * (Step * m + (Sub * q + Sub))
      BY <3>1, TimesMonotone
    <3> QED BY <3>1, <3>2
  <2>9. n * (Sub * q + Sub) = Sub * (n * q + n)
    BY <1>1, <1>3
  <2>10. 0 <= Sub * (Sub * e) + Sub * (n * q + n)
    <3>1. /\ n * (Step * m) \in Int /\ Sub * (Sub * e) \in Int
          /\ Sub * (n * q + n) \in Int
      BY <1>1, <1>5, <2>1
    <3> QED BY <2>7, <2>8, <2>9, <3>1
  <2>11. 0 <= Sub * e + (n * q + n)
    <3> DEFINE z == Sub * e + (n * q + n)
    <3>1. z \in Int
      BY <1>1, <1>5
    <3>2. Sub * (Sub * e) + Sub * (n * q + n) = z * Sub
      BY <1>1, <1>5
    <3>3. 0 * Sub <= z * Sub
      BY <1>1, <2>10, <3>2
    <3> HIDE DEF z
    <3>4. 0 <= z
      BY <1>1, <3>1, <3>3, TimesCancel
    <3> QED BY <3>4 DEF z
  <2>12. (src - 2 - e) * Sub = (src - 1) * Sub - Sub * e - Sub
    BY <1>1
  <2> QED BY <1>1, <1>5, <1>6, <2>11, <2>12
<1> QED BY <1>7, <1>8

\* The frame of a reader between two frame boundaries.
LEMMA ReadFrameBetween ==
  ASSUME NEW rp \in Nat, NEW lo \in Int, lo * Sub <= rp + Eps
  PROVE  /\ lo <= ReadFrame(rp)
         /\ \A hi \in Int : rp + Eps < hi * Sub => ReadFrame(rp) < hi
<1>1. rp + Eps \in Int /\ Sub \in Nat \ {0}
  BY PositionAssumption
<1> QED BY <1>1, FrameAtLeast, FrameBelow DEF ReadFrame

\* A trim, asked for no more than is buffered, leaves the reader the depth asked
\* for from the newest frame, to the frame.
LEMMA TrimmedDepth ==
  ASSUME TypeOK, NEW rp \in Nat, NEW depth \in Nat \ {0}, depth <= Level(rp)
  PROVE  latest_received_end - ReadFrame(TrimTo(rp, depth)) = depth
<1> DEFINE to == TrimTo(rp, depth)
           k  == latest_received_end - depth
<1>1. /\ to \in Nat
      /\ k * Sub <= to
      /\ to + Eps < (k + 1) * Sub
  BY TrimFacts
<1>2. latest_received_end \in Nat
  BY StartsFacts DEF TypeOK
<1>3. k \in Int /\ k + 1 \in Int /\ Eps \in Nat /\ Sub \in Nat
  BY <1>2, PositionAssumption
<1>4. k * Sub <= to + Eps
  BY <1>1, <1>3
<1> HIDE DEF to, k
<1>5. k <= ReadFrame(to) /\ ReadFrame(to) < k + 1
  BY <1>1, <1>3, <1>4, ReadFrameBetween
<1>6. ReadFrame(to) = k
  BY SMTT(30), <1>1, <1>3, <1>5, ReadFrameFacts
<1> QED BY <1>2, <1>6 DEF to, k

\* A callback that renders leaves the reader within the delay and the tolerance;
\* one that starts playback or trims leaves it the delay from the newest frame.
LEMMA RenderedDepth ==
  ASSUME TypeOK, NEW rp \in Nat, NEW n \in RenderSizes,
         ~Starved(rp, SourceFrames(n))
  PROVE  LET src   == SourceFrames(n)
             to    == PreparedReadPos(rp, src) + n * Advance(Correction(rp, src))
             depth == latest_received_end - ReadFrame(to)
         IN  /\ depth <= FixedDelay + Tolerance + 1
             /\ MustTrim(rp, src) => depth \in FixedDelay .. FixedDelay + 1
<1> DEFINE src   == SourceFrames(n)
           need  == FixedDelay + src
           from  == PreparedReadPos(rp, src)
           c     == Correction(rp, src)
           adv   == Advance(c)
           lev   == Level(rp)
           to    == from + n * adv
           depth == latest_received_end - ReadFrame(to)
<1>1. /\ n \in Nat \ {0} /\ src \in Nat \ {0} /\ n * Step <= src * Sub
      /\ (src - 1) * Sub < n * Step /\ n <= Sub
  BY SourceFramesFacts, RoundingAssumption
<1>2. /\ Sub \in Nat \ {0} /\ FixedDelay \in Nat \ {0} /\ Tolerance \in Nat \ {0}
      /\ CorrPerFrame \in Nat /\ CorrPerFrame * src <= Sub /\ Eps \in Nat
  BY PositionAssumption, SizeAssumption, GainAssumption
<1>3. latest_received_end \in Nat
  BY StartsFacts DEF TypeOK
<1>4. /\ lev \in Nat
      /\ lev > 0 => ReadFrame(rp) = latest_received_end - lev
  BY LevelFacts
<1>5. /\ c \in Int /\ -Sub < c
      /\ MustTrim(rp, src) => c = 0
      /\ lev - need <= 0 => c <= 0 /\ (lev - need) * CorrPerFrame <= c
      /\ lev - need >= 0 => c >= 0
  BY <1>1, CorrectionFacts
<1>6. from \in Nat /\ adv \in Nat
  BY RenderFacts
<1>7. need \in Nat \ {0} /\ n * adv \in Nat
  BY <1>1, <1>2, <1>6
<1>8. to \in Nat
  BY <1>6, <1>7
<1>9. CASE MustTrim(rp, src)
  <2>1. need <= lev
    BY <1>2, <1>4, <1>7, <1>9 DEF MustTrim, Starved
  <2>2. from = TrimTo(rp, need)
    BY <1>9 DEF PreparedReadPos
  <2>3. adv = Step + (Step * 0) \div Sub
    BY <1>5, <1>9 DEF Advance
  <2>4. Step \in Nat /\ adv = Step
    <3>1. Step \in Nat /\ Step * 0 = 0 /\ 0 \div Sub = 0
      BY <1>2, PositionAssumption
    <3> QED BY <2>3, <3>1
  <2> DEFINE k == latest_received_end - need
  <2> HIDE DEF src, need, from, c, adv, lev
  <2>5. /\ k * Sub <= from
        /\ from + Eps < (k + 1) * Sub
    BY <1>7, <2>1, <2>2, TrimFacts DEF lev
  <2>6. k \in Int
    BY <1>3, <1>7
  <2> HIDE DEF k
  <2>7. (k + src - 1) * Sub <= to + Eps
    <3>1. (k + src - 1) * Sub = k * Sub + (src - 1) * Sub
      BY <1>1, <1>2, <2>6
    <3>2. k * Sub \in Int /\ (src - 1) * Sub \in Int /\ n * Step \in Int
      BY <1>1, <1>2, <2>4, <2>6
    <3> QED BY <1>1, <1>2, <1>6, <2>4, <2>5, <3>1, <3>2
  <2>8. to + Eps < (k + src + 1) * Sub
    <3>1. (k + src + 1) * Sub = (k + 1) * Sub + src * Sub
      BY <1>1, <1>2, <2>6
    <3>2. (k + 1) * Sub \in Int /\ src * Sub \in Int /\ n * Step \in Int
      BY <1>1, <1>2, <2>4, <2>6
    <3> QED BY <1>1, <1>2, <1>6, <2>4, <2>5, <3>1, <3>2
  <2> HIDE DEF to
  <2>9. k + src - 1 \in Int /\ k + src + 1 \in Int
    BY <1>1, <2>6
  <2>10. k + src - 1 <= ReadFrame(to) /\ ReadFrame(to) < k + src + 1
    BY <1>8, <2>7, <2>8, <2>9, ReadFrameBetween
  <2>11. ReadFrame(to) \in Nat
    BY <1>8, ReadFrameFacts
  <2>12. depth \in FixedDelay .. FixedDelay + 1
    BY <1>1, <1>2, <1>3, <2>6, <2>10, <2>11 DEF k, need
  <2>13. depth <= FixedDelay + Tolerance + 1
    BY <1>2, <2>12
  <2> QED BY <2>12, <2>13 DEF src, need, from, c, adv, lev, to
<1>10. CASE ~MustTrim(rp, src)
  <2>1. from = rp
    BY <1>10 DEF PreparedReadPos
  <2>2. state = "Running" /\ lev - need <= Tolerance
    BY <1>2, <1>4, <1>7, <1>10 DEF MustTrim
  <2>3. src <= lev
    BY <1>1, <1>4, <2>2 DEF Starved
  <2>4. ReadFrame(rp) = latest_received_end - lev
    BY <1>1, <1>4, <2>3
  <2>5. ReadFrame(rp) \in Nat /\ ReadFrame(rp) * Sub <= rp + Eps
    BY ReadFrameFacts
  <2> DEFINE r == ReadFrame(rp)
  <2>6. \E g \in Int : /\ g * Sub <= n * adv
                      /\ latest_received_end - r - g <= FixedDelay + Tolerance + 1
    <3>1. CASE lev - need >= 0
      <4>1. c >= 0 /\ -(0 * CorrPerFrame) <= c
        BY <1>2, <1>5, <3>1
      <4> HIDE DEF src, need, from, c, lev
      <4>2. (src - 1) * Sub <= n * Advance(c)
        BY <1>1, <1>2, <1>5, <4>1, AdvanceAtLeast
      <4>3. src - 1 \in Int /\ latest_received_end - r - (src - 1) <= FixedDelay + Tolerance + 1
        BY <1>1, <1>2, <1>3, <1>4, <2>2, <2>4 DEF need
      <4> QED BY <4>2, <4>3
    <3>2. CASE lev - need < 0
      <4> DEFINE e == need - lev
      <4>1. e \in Nat
        BY <1>4, <1>7, <3>2
      <4>2. c <= 0 /\ (lev - need) * CorrPerFrame <= c
        BY <1>4, <1>5, <1>7, <3>2
      <4> HIDE DEF src, need, from, c, lev
      <4>3. -(e * CorrPerFrame) <= c
        BY <1>2, <1>4, <1>7, <4>2
      <4> HIDE DEF e
      <4>4. (src - 2 - e) * Sub <= n * Advance(c)
        BY <1>1, <1>2, <1>5, <4>1, <4>2, <4>3, AdvanceAtLeast
      <4>5. src - 2 - e \in Int
        BY <1>1, <4>1
      <4>6. latest_received_end - r - (src - 2 - e) <= FixedDelay + Tolerance + 1
        BY <1>1, <1>2, <1>3, <1>4, <2>4 DEF need, e
      <4> QED BY <4>4, <4>5, <4>6
    <3> QED BY <1>4, <1>7, <3>1, <3>2
  <2>7. PICK g \in Int :
          g * Sub <= n * adv /\ latest_received_end - r - g <= FixedDelay + Tolerance + 1
    BY <2>6
  <2>8. (r + g) * Sub <= to + Eps
    <3> HIDE DEF src, need, c, adv, lev, r
    <3>1. r \in Nat /\ r * Sub <= rp + Eps
      BY <2>5 DEF r
    <3>2. (r + g) * Sub = r * Sub + g * Sub /\ r * Sub \in Int /\ g * Sub \in Int
      BY <1>2, <3>1
    <3> QED BY <1>2, <1>7, <2>1, <2>7, <3>1, <3>2
  <2> HIDE DEF src, need, from, c, adv, lev, to
  <2>9. r + g \in Int
    BY <2>5
  <2>10. r + g <= ReadFrame(to) /\ ReadFrame(to) \in Nat
    BY <1>8, <2>8, <2>9, ReadFrameBetween, ReadFrameFacts
  <2>11. depth <= FixedDelay + Tolerance + 1
    BY <1>2, <1>3, <2>5, <2>7, <2>10
  <2> QED BY <1>10, <2>11 DEF src, need, from, c, adv, lev, to
<1> QED BY <1>9, <1>10

\* A step that moves the playing reader holds the delay.
LEMMA DepthStep ==
  TypeOK /\ [Next]_vars =>
    [(state' = "Running" /\ read_pos' # read_pos) =>
       /\ Depth' <= FixedDelay + Tolerance + 1
       /\ state # "Running" => Depth' \in FixedDelay .. FixedDelay + 1]_vars
<1> SUFFICES ASSUME TypeOK, Next, state' = "Running", read_pos' # read_pos
             PROVE  /\ Depth' <= FixedDelay + Tolerance + 1
                    /\ state # "Running" => Depth' \in FixedDelay .. FixedDelay + 1
  OBVIOUS
<1>0. /\ read_pos \in Nat /\ FixedDelay \in Nat \ {0} /\ Tolerance \in Nat
  BY SizeAssumption DEF TypeOK
<1>1. CASE TrimToPlayoutBufferBudget
  <2>1. FixedDelay <= Level(read_pos)
    BY <1>0, <1>1, LevelFacts DEF OverBudget, TrimToPlayoutBufferBudget
  <2>2. latest_received_end - ReadFrame(TrimTo(read_pos, FixedDelay)) = FixedDelay
    BY <1>0, <2>1, TrimmedDepth
  <2>3. Depth' = latest_received_end - ReadFrame(TrimTo(read_pos, FixedDelay))
    BY <1>1 DEF TrimToPlayoutBufferBudget, Depth, ReadFrame
  <2> QED BY <1>0, <2>2, <2>3
<1>2. ASSUME NEW n \in RenderSizes, PullRender(n)
      PROVE  /\ Depth' <= FixedDelay + Tolerance + 1
             /\ state # "Running" => Depth' \in FixedDelay .. FixedDelay + 1
  <2> DEFINE src == SourceFrames(n)
             rp  == SyncedReadPos(src)
             to  == PreparedReadPos(rp, src) + n * Advance(Correction(rp, src))
  <2>1. rp \in Nat
    BY SourceFramesFacts, SyncFacts
  <2>2. ~Starved(rp, src) /\ read_pos' = to /\ latest_received_end' = latest_received_end
    BY <1>2 DEF PullRender
  <2>3. /\ latest_received_end - ReadFrame(to) <= FixedDelay + Tolerance + 1
        /\ MustTrim(rp, src) =>
             latest_received_end - ReadFrame(to) \in FixedDelay .. FixedDelay + 1
    BY <2>1, <2>2, RenderedDepth
  <2>4. state # "Running" => MustTrim(rp, src)
    BY DEF MustTrim
  <2> HIDE DEF to
  <2>5. Depth' = latest_received_end - ReadFrame(to)
    BY <2>2 DEF Depth, ReadFrame
  <2> QED BY <2>3, <2>4, <2>5
<1>3. CASE (\E p \in Packet, arrival \in Arrivals : InsertPacket(p, arrival))
           \/ RecordInvalidPacket \/ Tick \/ \E n \in RenderSizes : PullSilence(n)
  BY <1>3 DEF InsertPacket, RejectForeign, StartStream, RejectLate, RejectDuplicate,
              AcceptPacket, RecordInvalidPacket, Tick, PullSilence, jbVars
<1> QED BY <1>1, <1>2, <1>3 DEF Next, Pull

\* The playing reader is kept at the configured delay, for every delay, callback
\* size, resampling ratio and gain: starting and trimming put it there to the
\* frame, and between trims the rate correction, which may slow the reader down,
\* never lets the level drift past the tolerance by more than a frame of rounding.
THEOREM DelayIsKept == Spec => DelayIsHeld
<1> QED BY TypeCorrect, DepthStep, PTL DEF Spec, DelayIsHeld
=============================================================================

------------------------------ MODULE RateProofs ------------------------------
(***************************************************************************)
(* Proofs about rates: the sender's resampler (module Resampler) and the   *)
(* loop that sets its ratio (module Feedback).  Each theorem is about one  *)
(* of the two; they share no state.                                        *)
(*                                                                         *)
(* The resampler is taken for every resolution of the position, every      *)
(* chunk size and any sequence of ratios up to two input frames per output *)
(* frame: a capture device of at most twice the packet format's rate,      *)
(* corrections included.  Beyond that DrainInBounds fails (the run         *)
(* resampler_drain), so the bound is part of the theorems.                 *)
(***************************************************************************)
EXTENDS Resampler, Feedback, SharedLemmas

\* No output frame takes the reader more than two input frames on.
AtMostTwo == \A r \in Ratios : r <= 2 * Sub

\* The account behind the time line, and how far the reader can be past the
\* last frame it may interpolate from.
LeadIsHeld == lead = buffered * Sub - read_pos
IdleIsShort == push_pc = "idle" => buffered \in 0 .. 1 /\ read_pos < Sub
ReaderIsNear ==
  push_pc = "emit" => \/ read_pos < Sub
                      \/ read_pos + Sub < buffered * Sub + ratio
ResamplerInv == TypeOK /\ LeadIsHeld /\ IdleIsShort /\ ReaderIsNear

\* A product with a positive factor orders as the other factor does.
LEMMA FactorOrder ==
  ASSUME NEW s \in Nat \ {0}, NEW a \in Int, NEW b \in Int, a * s < b * s
  PROVE  a < b
<1> SUFFICES ASSUME a >= b PROVE a * s >= b * s
  OBVIOUS
<1>1. (a - b) * s >= 0
  OBVIOUS
<1>2. (a - b) * s = a * s - b * s
  OBVIOUS
<1> QED BY <1>1, <1>2

\* Whole frames and the fraction of a position.
LEMMA WholeFrames ==
  ASSUME NEW s \in Nat \ {0}, NEW p \in Nat
  PROVE  /\ p \div s \in Nat /\ (p \div s) * s <= p
         /\ p < ((p \div s) + 1) * s
         /\ p - (p \div s) * s \in 0 .. s - 1
OBVIOUS

\* The exit of push's loop: the frames dropped are there to be dropped, and at
\* most one stays.
LEMMA DropFacts ==
  ASSUME AtMostTwo, ResamplerInv, push_pc = "emit", ~CanInterpolate
  PROVE  /\ Behind \in Nat /\ Behind <= buffered /\ buffered <= Behind + 1
         /\ PosAfterDrop \in 0 .. Sub - 1
<1> USE ResamplerAssumption
<1> DEFINE q == read_pos \div Sub
<1>0. /\ read_pos \in Nat /\ buffered \in Nat /\ ratio \in Nat /\ ratio <= 2 * Sub
      /\ Sub \in Nat \ {0}
  BY DEF ResamplerInv, TypeOK, AtMostTwo
<1>1. q \in Nat /\ q * Sub <= read_pos /\ read_pos < (q + 1) * Sub
      /\ read_pos - q * Sub \in 0 .. Sub - 1
  BY <1>0, WholeFrames
<1> HIDE DEF q
<1>2. q <= buffered
  <2>1. CASE read_pos < Sub
    <3>1. q * Sub < 1 * Sub
      BY <1>0, <1>1, <2>1
    <3>2. q < 1
      BY <1>0, <1>1, <3>1, FactorOrder
    <3> QED BY <1>0, <1>1, <3>2
  <2>2. CASE read_pos + Sub < buffered * Sub + ratio
    <3>1. q * Sub < (buffered + 1) * Sub
      BY <1>0, <1>1, <2>2
    <3>2. q < buffered + 1
      BY <1>0, <1>1, <3>1, FactorOrder
    <3> QED BY <1>0, <1>1, <3>2
  <2> QED BY <2>1, <2>2 DEF ResamplerInv, ReaderIsNear
<1>3. buffered <= q + 1
  <2>1. buffered * Sub <= read_pos + Sub
    BY <1>0 DEF CanInterpolate
  <2>2. buffered * Sub < (q + 2) * Sub
    BY <1>0, <1>1, <2>1
  <2>3. buffered < q + 2
    BY <1>0, <1>1, <2>2, FactorOrder
  <2> QED BY <1>0, <1>1, <2>3
<1> QED BY <1>0, <1>1, <1>2, <1>3 DEF q, Behind, PosAfterDrop

\* Every step keeps the invariant.
LEMMA ResamplerStep == AtMostTwo /\ ResamplerInv /\ [Next]_vars => ResamplerInv'
<1> SUFFICES ASSUME AtMostTwo, ResamplerInv, [Next]_vars PROVE ResamplerInv'
  OBVIOUS
<1> USE ResamplerAssumption
<1>0. /\ read_pos \in Nat /\ buffered \in Nat /\ ratio \in Nat \ {0}
      /\ Sub \in Nat \ {0} /\ pushed \in Nat /\ produced \in Nat /\ lead \in Int
      /\ lead = buffered * Sub - read_pos /\ steady \in BOOLEAN
  BY DEF ResamplerInv, TypeOK, LeadIsHeld
<1>1. ASSUME NEW r \in Ratios, NEW n \in ChunkSizes, SetRatio(r, n),
             pushed + n <= MaxFrames
      PROVE  /\ ratio' \in Ratios /\ pushed' \in 0 .. MaxFrames
             /\ steady' \in BOOLEAN /\ n \in Nat
  <2>1. ratio' = r /\ pushed' = pushed + n /\ n \in Nat
    BY <1>1 DEF SetRatio
  <2>2. steady' \in BOOLEAN
    BY <1>1 DEF SetRatio
  <2>3. pushed + n \in 0 .. MaxFrames
    BY <1>0, <1>1, <2>1
  <2> QED BY <2>1, <2>2, <2>3
<1>2. ASSUME NEW r \in Ratios, NEW n \in ChunkSizes, Passthrough(r, n)
      PROVE  ResamplerInv'
  <2>1. /\ ratio' \in Ratios /\ pushed' \in 0 .. MaxFrames
        /\ steady' \in BOOLEAN /\ n \in Nat
    BY <1>1, <1>2 DEF Passthrough
  <2>2. /\ produced' = produced + n /\ push_pc = "idle"
        /\ UNCHANGED <<read_pos, buffered, push_pc, lead>>
    BY <1>2 DEF Passthrough
  <2>3. produced' \in Nat
    BY <1>0, <2>1, <2>2
  <2>4. TypeOK'
    BY <2>1, <2>2, <2>3 DEF ResamplerInv, TypeOK
  <2> QED BY <2>2, <2>4 DEF ResamplerInv, LeadIsHeld, IdleIsShort, ReaderIsNear
<1>3. ASSUME NEW r \in Ratios, NEW n \in ChunkSizes, Push(r, n)
      PROVE  ResamplerInv'
  <2>1. /\ ratio' \in Ratios /\ pushed' \in 0 .. MaxFrames
        /\ steady' \in BOOLEAN /\ n \in Nat
    BY <1>1, <1>3 DEF Push
  <2>2. /\ buffered' = buffered + n /\ lead' = lead + n * Sub
        /\ push_pc = "idle" /\ push_pc' = "emit" /\ UNCHANGED <<read_pos, produced>>
    BY <1>3 DEF Push
  <2>3. buffered' \in Nat /\ lead' \in Int
    BY <1>0, <2>1, <2>2
  <2>4. TypeOK'
    BY <2>1, <2>2, <2>3 DEF ResamplerInv, TypeOK
  <2>5. LeadIsHeld'
    BY <1>0, <2>1, <2>2 DEF LeadIsHeld
  <2>6. IdleIsShort' /\ ReaderIsNear'
    BY <2>2 DEF ResamplerInv, IdleIsShort, ReaderIsNear
  <2> QED BY <2>4, <2>5, <2>6 DEF ResamplerInv
<1>4. CASE Emit
  <2>1. /\ push_pc = "emit" /\ produced' = produced + 1
        /\ read_pos' = read_pos + ratio /\ lead' = lead - ratio
        /\ UNCHANGED <<ratio, buffered, push_pc, pushed, steady>>
        /\ read_pos + Sub < buffered * Sub
    BY <1>4 DEF Emit, CanInterpolate
  <2>2. read_pos' \in Nat /\ produced' \in Nat /\ lead' \in Int
    BY <1>0, <2>1
  <2>3. TypeOK'
    BY <2>1, <2>2 DEF ResamplerInv, TypeOK
  <2>4. LeadIsHeld'
    BY <1>0, <2>1 DEF LeadIsHeld
  <2>5. read_pos' + Sub < buffered' * Sub + ratio'
    BY <1>0, <2>1
  <2> QED BY <2>1, <2>3, <2>4, <2>5 DEF ResamplerInv, IdleIsShort, ReaderIsNear
<1>5. CASE PushEnd
  <2>1. /\ push_pc = "emit" /\ ~CanInterpolate /\ push_pc' = "idle"
        /\ buffered' = buffered - Behind /\ read_pos' = PosAfterDrop
        /\ UNCHANGED <<ratio, pushed, produced, lead, steady>>
    BY <1>5 DEF PushEnd
  <2>2. /\ Behind \in Nat /\ Behind <= buffered /\ buffered <= Behind + 1
        /\ PosAfterDrop \in 0 .. Sub - 1
    BY <2>1, DropFacts
  <2>3. buffered' \in 0 .. 1 /\ read_pos' \in Nat /\ read_pos' < Sub
    BY <1>0, <2>1, <2>2
  <2>4. TypeOK'
    BY <2>1, <2>3 DEF ResamplerInv, TypeOK
  <2>5. LeadIsHeld'
    BY <1>0, <2>1, <2>2 DEF LeadIsHeld, PosAfterDrop
  <2> QED BY <2>1, <2>3, <2>4, <2>5 DEF ResamplerInv, IdleIsShort, ReaderIsNear
<1>6. CASE UNCHANGED vars
  BY <1>6 DEF vars, ResamplerInv, TypeOK, LeadIsHeld, IdleIsShort, ReaderIsNear
<1> QED BY <1>2, <1>3, <1>4, <1>5, <1>6 DEF Next

\* The resampler's invariant holds from the start.
LEMMA ResamplerInvariant ==
  ASSUME AtMostTwo PROVE Spec => []ResamplerInv
<1>1. Init => ResamplerInv
  BY ResamplerAssumption
     DEF Init, ResamplerInv, TypeOK, LeadIsHeld, IdleIsShort, ReaderIsNear
<1>2. ResamplerInv /\ [Next]_vars => ResamplerInv'
  BY ResamplerStep
<1> QED BY <1>1, <1>2, PTL DEF Spec

\* Up to two input frames per output frame push never drains more than it holds.
THEOREM DrainStaysInBounds ==
  ASSUME AtMostTwo PROVE Spec => []DrainInBounds
<1>1. ResamplerInv => DrainInBounds
  BY DropFacts DEF DrainInBounds
<1> QED BY <1>1, ResamplerInvariant, PTL

\* Whatever the corrections and the chunks, the output keeps the input's time.
THEOREM TimelineStays ==
  ASSUME AtMostTwo PROVE Spec => []TimelineIsKept
<1>1. ResamplerInv => TimelineIsKept
  <2> SUFFICES ASSUME ResamplerInv, push_pc = "idle"
               PROVE  /\ buffered \in 0 .. 1 /\ read_pos < Sub
                      /\ -Sub < lead /\ lead <= Sub
    BY DEF TimelineIsKept
  <2>1. /\ buffered \in 0 .. 1 /\ read_pos < Sub /\ read_pos \in Nat
        /\ lead = buffered * Sub - read_pos /\ Sub \in Nat \ {0}
    BY ResamplerAssumption DEF ResamplerInv, IdleIsShort, LeadIsHeld, TypeOK
  <2>2. CASE buffered = 0
    BY <2>1, <2>2
  <2>3. CASE buffered = 1
    BY <2>1, <2>3
  <2> QED BY <2>1, <2>2, <2>3
<1> QED BY <1>1, ResamplerInvariant, PTL
-----------------------------------------------------------------------------
(* Chunks. *)

\* The inductive invariant behind the comparison with resample_linear: as long as
\* the ratio has not changed, the lead is what the two frame counts say, and the
\* last output frame had two input frames to lie between.  With equal rates no
\* frame is ever held back.
NothingPushed == pushed = 0 => steady /\ buffered = 0 /\ read_pos = 0 /\ produced = 0
EqualRates == steady /\ ratio = Sub => push_pc = "idle" /\ buffered = 0 /\ produced = pushed
CountsAgree ==
  steady /\ ratio # Sub =>
    /\ lead = pushed * Sub - produced * ratio
    /\ produced > 0 => (produced - 1) * ratio + Sub < pushed * Sub
ChunkInv == NothingPushed /\ EqualRates /\ CountsAgree

\* Every step keeps it.
LEMMA ChunkStep == ResamplerInv /\ ChunkInv /\ [Next]_vars => ChunkInv'
<1> SUFFICES ASSUME ResamplerInv, ChunkInv, [Next]_vars PROVE ChunkInv'
  OBVIOUS
<1> USE ResamplerAssumption
<1>0. /\ read_pos \in Nat /\ buffered \in Nat /\ ratio \in Nat \ {0}
      /\ Sub \in Nat \ {0} /\ pushed \in Nat /\ produced \in Nat /\ lead \in Int
      /\ lead = buffered * Sub - read_pos /\ steady \in BOOLEAN
      /\ NothingPushed /\ EqualRates /\ CountsAgree
  BY DEF ResamplerInv, TypeOK, LeadIsHeld, ChunkInv
<1>1. ASSUME NEW r \in Ratios, NEW n \in ChunkSizes, Passthrough(r, n)
      PROVE  ChunkInv'
  <2>1. /\ ratio' = Sub /\ r = Sub /\ pushed' = pushed + n /\ produced' = produced + n
        /\ buffered = 0 /\ push_pc = "idle" /\ n \in Nat
        /\ steady' = (pushed > 0 => steady /\ r = ratio)
        /\ UNCHANGED <<read_pos, buffered, push_pc, lead>>
    BY <1>1 DEF Passthrough, SetRatio
  <2>2. NothingPushed'
    BY <1>0, <2>1 DEF NothingPushed
  <2>3. ASSUME steady' PROVE produced' = pushed'
    <3>1. pushed > 0 => steady /\ Sub = ratio
      BY <2>1, <2>3
    <3>2. produced = pushed
      BY <1>0, <3>1 DEF NothingPushed, EqualRates
    <3> QED BY <2>1, <3>2
  <2> QED BY <2>1, <2>2, <2>3 DEF ChunkInv, EqualRates, CountsAgree
<1>2. ASSUME NEW r \in Ratios, NEW n \in ChunkSizes, Push(r, n)
      PROVE  ChunkInv'
  <2>1. /\ ratio' = r /\ pushed' = pushed + n /\ buffered' = buffered + n
        /\ lead' = lead + n * Sub /\ n \in Nat /\ r \in Nat \ {0}
        /\ steady' = (pushed > 0 => steady /\ r = ratio)
        /\ r # Sub \/ buffered > 0
        /\ UNCHANGED <<read_pos, produced>>
    BY <1>2 DEF Push, SetRatio
  <2>2. NothingPushed'
    BY <1>0, <2>1 DEF NothingPushed
  <2>3. ASSUME steady' PROVE ratio' # Sub
    <3>1. pushed > 0 => steady /\ r = ratio
      BY <2>1, <2>3
    <3>2. r = Sub => buffered = 0
      BY <1>0, <3>1 DEF NothingPushed, EqualRates
    <3> QED BY <1>0, <2>1, <3>2
  <2>4. ASSUME steady'
        PROVE  /\ lead' = pushed' * Sub - produced' * ratio'
               /\ produced' > 0 => (produced' - 1) * ratio' + Sub < pushed' * Sub
    <3>1. (pushed + n) * Sub = pushed * Sub + n * Sub /\ n * Sub >= 0
      BY <1>0, <2>1
    <3>2. CASE pushed = 0
      <4>1. produced = 0 /\ lead = 0 /\ produced * r = 0 /\ pushed * Sub = 0
        BY <1>0, <2>1, <3>2 DEF NothingPushed
      <4> QED BY <1>0, <2>1, <3>1, <4>1
    <3>3. CASE pushed > 0
      <4>1. steady /\ r = ratio /\ ratio # Sub
        BY <2>1, <2>3, <2>4, <3>3
      <4>2. /\ lead = pushed * Sub - produced * r
            /\ produced > 0 => (produced - 1) * r + Sub < pushed * Sub
        BY <1>0, <4>1 DEF CountsAgree
      <4> DEFINE a == pushed * Sub
                 b == produced * r
                 c == (produced - 1) * r
                 d == n * Sub
      <4>3. a \in Int /\ b \in Int /\ c \in Int /\ d \in Nat
        BY <1>0, <2>1
      <4>4. /\ lead = a - b /\ (produced > 0 => c + Sub < a)
            /\ lead' = lead + d /\ pushed' * Sub = a + d
            /\ produced' * ratio' = b /\ (produced' - 1) * ratio' = c
            /\ produced' = produced
        BY <2>1, <3>1, <4>2
      <4> HIDE DEF a, b, c, d
      <4> QED BY <1>0, <4>3, <4>4
    <3> QED BY <1>0, <3>2, <3>3
  <2> QED BY <2>2, <2>3, <2>4 DEF ChunkInv, EqualRates, CountsAgree
<1>3. CASE Emit
  <2>1. /\ push_pc = "emit" /\ produced' = produced + 1
        /\ read_pos' = read_pos + ratio /\ lead' = lead - ratio
        /\ UNCHANGED <<ratio, buffered, push_pc, pushed, steady>>
        /\ read_pos + Sub < buffered * Sub
    BY <1>3 DEF Emit, CanInterpolate
  <2>2. buffered # 0
    BY <1>0, <2>1
  <2>3. pushed # 0 /\ ~(steady /\ ratio = Sub)
    BY <1>0, <2>2 DEF NothingPushed, EqualRates
  <2>4. ASSUME steady
        PROVE  /\ lead' = pushed * Sub - (produced + 1) * ratio
               /\ ((produced + 1) - 1) * ratio + Sub < pushed * Sub
    <3>1. lead = pushed * Sub - produced * ratio
      BY <1>0, <2>3, <2>4 DEF CountsAgree
    <3>2. (produced + 1) * ratio = produced * ratio + ratio /\ (produced + 1) - 1 = produced
      BY <1>0
    <3> DEFINE a == pushed * Sub
               b == produced * ratio
               h == buffered * Sub
    <3>3. a \in Int /\ b \in Int /\ h \in Int
      BY <1>0
    <3>4. lead = a - b /\ lead = h - read_pos /\ read_pos + Sub < h
      BY <1>0, <2>1, <3>1
    <3> HIDE DEF a, b, h
    <3>5. lead - ratio = a - (b + ratio) /\ b + Sub < a
      BY <1>0, <3>3, <3>4
    <3> QED BY <2>1, <3>2, <3>5 DEF a, b
  <2> QED BY <1>0, <2>1, <2>3, <2>4 DEF ChunkInv, NothingPushed, EqualRates, CountsAgree
<1>4. CASE PushEnd
  <2>1. /\ push_pc = "emit" /\ buffered' = buffered - Behind /\ read_pos' = PosAfterDrop
        /\ UNCHANGED <<ratio, pushed, produced, lead, steady>>
    BY <1>4 DEF PushEnd
  <2>2. read_pos = 0 => Behind = 0 /\ PosAfterDrop = 0
    BY <1>0 DEF Behind, PosAfterDrop
  <2>3. NothingPushed'
    BY <1>0, <2>1, <2>2 DEF NothingPushed
  <2> QED BY <1>0, <2>1, <2>3 DEF ChunkInv, EqualRates, CountsAgree
<1>5. CASE UNCHANGED vars
  BY <1>0, <1>5 DEF vars, ChunkInv, NothingPushed, EqualRates, CountsAgree
<1> QED BY <1>1, <1>2, <1>3, <1>4, <1>5 DEF Next

\* Which output frames resample_linear computes, when it stops at the last one
\* that lies between two input frames.
LEMMA ReferenceFrames ==
  ASSUME NEW s \in Nat \ {0}, NEW r \in Nat \ {0}, NEW n \in Nat, n >= 2, NEW m \in Nat,
         m * r + s >= n * s,
         m > 0 => (m - 1) * r + s < n * s
  PROVE  {k \in 0 .. (n * s + r - 1) \div r - 1 : (k * r) \div s + 1 < n} = 0 .. m - 1
<1> DEFINE last == (n * s + r - 1) \div r
<1>1. \A k \in Nat : k < m => k * r < (n - 1) * s
  <2> SUFFICES ASSUME NEW k \in Nat, k < m PROVE k * r < (n - 1) * s
    OBVIOUS
  <2>1. k * r <= (m - 1) * r
    <3>1. ((m - 1) - k) * r >= 0
      OBVIOUS
    <3> QED BY <3>1
  <2>2. (n - 1) * s = n * s - s
    OBVIOUS
  <2> QED BY <2>1, <2>2
<1>2. \A k \in Nat : k >= m => k * r >= (n - 1) * s
  <2> SUFFICES ASSUME NEW k \in Nat, k >= m PROVE k * r >= (n - 1) * s
    OBVIOUS
  <2>1. k * r >= m * r
    <3>1. (k - m) * r >= 0
      OBVIOUS
    <3> QED BY <3>1
  <2>2. (n - 1) * s = n * s - s
    OBVIOUS
  <2> QED BY <2>1, <2>2
<1>3. \A k \in Nat : (k * r) \div s + 1 < n <=> k < m
  <2> SUFFICES ASSUME NEW k \in Nat PROVE (k * r) \div s + 1 < n <=> k < m
    OBVIOUS
  <2> DEFINE p == k * r
             q == p \div s
  <2>1. p \in Nat
    OBVIOUS
  <2> HIDE DEF p
  <2>2. q \in Nat /\ q * s <= p /\ p < (q + 1) * s
    BY <2>1, WholeFrames
  <2> HIDE DEF q
  <2>3. ASSUME k < m PROVE q + 1 < n
    <3>1. p < (n - 1) * s
      BY <1>1, <2>3 DEF p
    <3>2. q * s < (n - 1) * s
      BY <2>1, <2>2, <3>1
    <3>3. q < n - 1
      BY <2>2, <3>2, FactorOrder
    <3> QED BY <2>2, <3>3
  <2>4. ASSUME k >= m PROVE ~(q + 1 < n)
    <3>1. p >= (n - 1) * s
      BY <1>2, <2>4 DEF p
    <3>2. (n - 1) * s < (q + 1) * s
      BY <2>1, <2>2, <3>1
    <3>3. n - 1 < q + 1
      BY <2>2, <3>2, FactorOrder
    <3> QED BY <2>2, <3>3
  <2> QED BY <2>3, <2>4 DEF p, q
<1>4. \A k \in Nat : k < m => k <= last - 1
  <2> SUFFICES ASSUME NEW k \in Nat, k < m PROVE k <= last - 1
    OBVIOUS
  <2> DEFINE t == n * s + r - 1
  <2>1. t \in Nat
    OBVIOUS
  <2>2. k * r < (n - 1) * s /\ (n - 1) * s = n * s - s
    BY <1>1
  <2>3. (k + 1) * r <= t
    <3>1. (k + 1) * r = k * r + r
      OBVIOUS
    <3> QED BY <2>2, <3>1
  <2>4. last \in Nat /\ t < (last + 1) * r
    BY <2>1, WholeFrames
  <2> HIDE DEF last, t
  <2>5. (k + 1) * r < (last + 1) * r
    BY <2>1, <2>3, <2>4
  <2>6. k + 1 < last + 1
    BY <2>4, <2>5, FactorOrder
  <2> QED BY <2>4, <2>6
<1>5. last \in Nat
  BY WholeFrames
<1> HIDE DEF last
<1>6. {k \in 0 .. last - 1 : (k * r) \div s + 1 < n} = 0 .. m - 1
  <2>1. ASSUME NEW k \in 0 .. last - 1, (k * r) \div s + 1 < n PROVE k \in 0 .. m - 1
    BY <1>3, <1>5, <2>1
  <2>2. ASSUME NEW k \in 0 .. m - 1 PROVE k \in 0 .. last - 1 /\ (k * r) \div s + 1 < n
    BY <1>3, <1>4, <1>5, <2>2
  <2> QED BY <2>1, <2>2
<1> QED BY <1>6 DEF last

\* However the capture device cuts its frames, the chunks give together what
\* resample_linear gives for all frames at once, as long as the ratio stays.
THEOREM ChunkingStaysInvisible ==
  ASSUME AtMostTwo PROVE Spec => []ChunkingIsInvisible
<1>1. Init => ChunkInv
  <2> SUFFICES ASSUME Init PROVE ChunkInv
    OBVIOUS
  <2>1. /\ pushed = 0 /\ produced = 0 /\ lead = 0 /\ buffered = 0 /\ read_pos = 0
        /\ push_pc = "idle" /\ steady = TRUE /\ ratio \in Nat /\ Sub \in Nat
    BY ResamplerAssumption DEF Init
  <2> QED BY <2>1 DEF ChunkInv, NothingPushed, EqualRates, CountsAgree
<1>2. ResamplerInv /\ ChunkInv => ChunkingIsInvisible
  <2> SUFFICES ASSUME ResamplerInv, ChunkInv, push_pc = "idle", steady, pushed # 1
               PROVE  produced = ResampleLinear(pushed, ratio)
    BY DEF ChunkingIsInvisible
  <2>0. /\ pushed \in Nat /\ produced \in Nat /\ ratio \in Nat \ {0}
        /\ Sub \in Nat \ {0} /\ read_pos \in Nat /\ buffered \in 0 .. 1
        /\ lead = buffered * Sub - read_pos
    BY ResamplerAssumption DEF ResamplerInv, TypeOK, IdleIsShort, LeadIsHeld
  <2>1. CASE pushed = 0
    BY <2>1 DEF ResampleLinear, ChunkInv, NothingPushed
  <2>2. CASE pushed # 0 /\ ratio = Sub
    BY <2>2 DEF ResampleLinear, ChunkInv, EqualRates
  <2>3. CASE pushed # 0 /\ ratio # Sub
    <3>1. pushed >= 2
      BY <2>0, <2>3
    <3>2. /\ lead = pushed * Sub - produced * ratio
          /\ produced > 0 => (produced - 1) * ratio + Sub < pushed * Sub
      BY <2>3 DEF ChunkInv, CountsAgree
    <3>3. lead <= Sub
      <4>1. buffered * Sub <= Sub
        BY <2>0
      <4> QED BY <2>0, <4>1
    <3>4. produced * ratio + Sub >= pushed * Sub
      BY <2>0, <3>2, <3>3
    <3>5. {k \in 0 .. (pushed * Sub + ratio - 1) \div ratio - 1 :
             (k * ratio) \div Sub + 1 < pushed} = 0 .. produced - 1
      BY <2>0, <3>1, <3>2, <3>4, ReferenceFrames
    <3>6. Cardinality(0 .. produced - 1) = produced
      BY <2>0, FS_Interval
    <3> QED BY <2>0, <2>3, <3>1, <3>5, <3>6 DEF ResampleLinear
  <2> QED BY <2>1, <2>2, <2>3
<1>3. ResamplerInv /\ ChunkInv /\ [Next]_vars => ChunkInv'
  BY ChunkStep
<1> QED BY <1>1, <1>2, <1>3, ResamplerInvariant, PTL DEF Spec
-----------------------------------------------------------------------------
(* The control loop. *)

\* The tolerance is a number of frames.
LEMMA ToleranceIsNat == Tolerance \in Nat
<1>1. ASSUME NEW a \in Nat, NEW b \in Nat
      PROVE  Max({a, b}) \in Nat /\ Min({a, b}) \in Nat
  <2>1. \E x \in {a, b} : \A y \in {a, b} : x >= y
    OBVIOUS
  <2>2. \E x \in {a, b} : \A y \in {a, b} : x <= y
    OBVIOUS
  <2> QED BY <2>1, <2>2 DEF Max, Min
<1>2. SampleRate \div 100 \in Nat /\ SampleRate \div 20 \in Nat /\ FixedDelay \div 10 \in Nat
  BY FeedbackAssumption
<1>3. Max({SampleRate \div 100, 1}) \in Nat
  BY <1>1, <1>2
<1>4. /\ Max({SampleRate \div 20, Max({SampleRate \div 100, 1})}) \in Nat
      /\ Max({FixedDelay \div 10, Max({SampleRate \div 100, 1})}) \in Nat
  BY <1>1, <1>2, <1>3
<1> QED BY <1>1, <1>4 DEF Tolerance, hard_trim_tolerance_frames

\* What clamping keeps of a number.
LEMMA ClampFacts ==
  ASSUME NEW x \in Int, NEW max \in Nat
  PROVE  /\ clamp(x, max) \in -max .. max
         /\ x >= 0 => clamp(x, max) >= 0
         /\ x <= 0 => clamp(x, max) <= 0
         /\ \A b \in Nat : b <= max /\ b <= x => clamp(x, max) >= b
         /\ \A b \in Nat : b <= max /\ x <= -b => clamp(x, max) <= -b
BY DEF clamp

\* A larger factor gives a larger product.
LEMMA ProductOrder ==
  ASSUME NEW s \in Nat, NEW a \in Int, NEW b \in Int, a <= b
  PROVE  a * s <= b * s
<1>1. (b - a) * s >= 0
  OBVIOUS
<1> QED BY <1>1

\* One round of both controllers: from a level in the band, whatever the sender
\* does within its limits, to a level in the band.
LEMMA BandStep ==
  ASSUME NEW s \in Nat \ {0}, NEW delay \in Nat, NEW tol \in Nat, NEW room \in Nat,
         room <= tol, room <= delay,
         NEW gain \in Nat, NEW max \in Nat, NEW pull \in Nat,
         pull <= max, pull <= room * gain, pull <= s, pull + max <= room * s,
         NEW l \in Nat, NEW q \in Nat, q * s <= l, l < (q + 1) * s,
         q - delay >= -room, q - delay <= tol,
         NEW push \in -pull .. pull,
         NEW next, next = l + push - clamp((q - delay) * gain, max)
  PROVE  next \in Int /\ (delay - room) * s <= next /\ next < (delay + tol + 1) * s
<1> DEFINE e == q - delay
           r == clamp(e * gain, max)
<1>0. e \in Int /\ e * gain \in Int /\ q = delay + e /\ next = l + push - r
  OBVIOUS
<1>1. /\ r \in -max .. max
      /\ e * gain >= 0 => r >= 0
      /\ e * gain <= 0 => r <= 0
      /\ pull <= e * gain => r >= pull
      /\ e * gain <= -pull => r <= -pull
  BY <1>0, ClampFacts
<1>2. e >= 0 => r >= 0
  BY <1>0, <1>1
<1>3. e <= 0 => r <= 0
  BY <1>0, <1>1
<1>4. e = tol => r >= pull
  <2>1. room * gain <= tol * gain
    BY ProductOrder
  <2> QED BY <1>1, <2>1
<1>5. e = -room => r <= -pull
  BY <1>0, <1>1
<1> HIDE DEF r, e
<1>6. next \in Int
  BY <1>0, <1>1
<1>7. next < (delay + tol + 1) * s
  <2>0. e <= tol
    BY DEF e
  <2>1. CASE e = tol
    <3>1. q = delay + tol /\ next <= l
      BY <1>0, <1>1, <1>4, <2>1
    <3> QED BY <1>6, <3>1
  <2>2. CASE e >= 0 /\ e <= tol - 1
    <3>1. (q + 2) * s <= (delay + tol + 1) * s
      BY <1>0, <2>2, ProductOrder
    <3>2. (q + 2) * s = (q + 1) * s + s
      OBVIOUS
    <3>3. next <= l + s
      BY <1>0, <1>1, <1>2, <2>2
    <3> QED BY <1>6, <3>1, <3>2, <3>3
  <2>3. CASE e < 0
    <3>1. (q + 1) * s <= delay * s /\ room * s <= tol * s
      BY <1>0, <2>3, ProductOrder
    <3>2. (delay + tol + 1) * s = delay * s + tol * s + s
      OBVIOUS
    <3>3. next <= l + room * s
      BY <1>0, <1>1
    <3> DEFINE a == delay * s
               t == tol * s
               h == room * s
               u == (q + 1) * s
    <3>4. a \in Int /\ t \in Int /\ h \in Int /\ u \in Int
      OBVIOUS
    <3>5. u <= a /\ h <= t /\ l < u /\ next <= l + h /\ (delay + tol + 1) * s = a + t + s
      BY <3>1, <3>2, <3>3
    <3> HIDE DEF a, t, h, u
    <3> QED BY <1>6, <3>4, <3>5
  <2> QED BY <1>0, <2>0, <2>1, <2>2, <2>3
<1>8. (delay - room) * s <= next
  <2>0. e >= -room
    BY DEF e
  <2>1. CASE e = -room
    <3>1. q = delay - room /\ next >= l
      BY <1>0, <1>1, <1>5, <2>1
    <3> QED BY <1>6, <3>1
  <2>2. CASE e < 0 /\ e >= -room + 1
    <3>1. (delay - room) * s <= (q - 1) * s
      BY <1>0, <2>2, ProductOrder
    <3>2. (q - 1) * s = q * s - s
      OBVIOUS
    <3>3. next >= l - s
      BY <1>0, <1>1, <1>3, <2>2
    <3> QED BY <1>6, <3>1, <3>2, <3>3
  <2>3. CASE e >= 0
    <3>1. delay * s <= q * s
      BY <1>0, <2>3, ProductOrder
    <3>2. (delay - room) * s = delay * s - room * s
      OBVIOUS
    <3>3. next >= l - room * s
      BY <1>0, <1>1
    <3> DEFINE a == delay * s
               h == room * s
               u == q * s
    <3>4. a \in Int /\ h \in Int /\ u \in Int
      OBVIOUS
    <3>5. a <= u /\ u <= l /\ next >= l - h /\ (delay - room) * s = a - h
      BY <3>1, <3>2, <3>3
    <3> HIDE DEF a, h, u
    <3> QED BY <1>6, <3>4, <3>5
  <2> QED BY <1>0, <2>0, <2>1, <2>2, <2>3
<1> QED BY <1>6, <1>7, <1>8

\* The inductive invariant: the property and the types it needs.
LevelInv ==
  /\ drift \in Drifts /\ running \in BOOLEAN /\ level \in Nat
  /\ LevelStaysInBand

\* What the sender adds to a round is limited, whichever status it holds.
LEMMA SenderCorrectionIsLimited ==
  ASSUME HeldIsAStatus PROVE SenderCorrection \in -AsrcMax .. AsrcMax
<1> USE FeedbackAssumption
<1>1. CASE received # None \/ remote_status = None
  BY <1>1 DEF SenderCorrection
<1>2. CASE ~(received # None \/ remote_status = None)
  <2>1. PICK n \in Levels : remote_status = StatusOf(n)
    BY <1>2 DEF HeldIsAStatus
  <2>2. /\ remote_status.audio_latency_ms = frames_to_ms(n)
        /\ remote_status.target_ms = target_ms
    BY <2>1 DEF StatusOf
  <2>3. n \in Nat /\ target_ms \in Int /\ frames_to_ms(n) \in Int
    BY DEF Levels, target_ms, frames_to_ms_ceil, frames_to_ms
  <2> DEFINE x == -(((frames_to_ms(n) - target_ms * MsUnit) * AsrcKp) \div MsUnit)
  <2>4. x \in Int
    BY <2>3
  <2>5. SenderCorrection = clamp(x, AsrcMax)
    BY <1>2, <2>2, Zenon DEF SenderCorrection, Correction
  <2> HIDE DEF x
  <2> QED BY <2>4, <2>5, ClampFacts
<1> QED BY <1>1, <1>2

\* Every step keeps the level in the band.
LEMMA LevelStep ==
  ASSUME RatesFit, HeldIsAStatus, LevelInv, [FeedbackNext]_fbVars
  PROVE  LevelInv'
<1> USE FeedbackAssumption
<1>0. /\ drift \in Drifts /\ drift \in Int /\ running \in BOOLEAN /\ level \in Nat
      /\ Tolerance \in Nat /\ Room \in Nat /\ Room <= Tolerance /\ Room <= FixedDelay
  BY ToleranceIsNat DEF LevelInv, Room
<1>1. CASE UNCHANGED <<drift, running, level>>
  BY <1>1 DEF LevelInv, LevelStaysInBand, ErrorFrames
<1>2. CASE StartPlayout
  <2>1. running' = TRUE /\ level' = FixedDelay * Subframes /\ drift' = drift
    BY <1>2 DEF StartPlayout
  <2>2. /\ FixedDelay * Subframes \in Nat
        /\ (FixedDelay * Subframes) \div Subframes = FixedDelay
    <3> DEFINE p == FixedDelay * Subframes
               w == p \div Subframes
    <3>1. p \in Nat
      OBVIOUS
    <3>2. w \in Nat /\ w * Subframes <= p /\ p < (w + 1) * Subframes
      BY <3>1, WholeFrames
    <3> HIDE DEF w
    <3>3. w * Subframes < (FixedDelay + 1) * Subframes
          /\ FixedDelay * Subframes < (w + 1) * Subframes
      BY <3>2
    <3>4. w < FixedDelay + 1 /\ FixedDelay < w + 1
      BY <3>2, <3>3, FactorOrder
    <3>5. w = FixedDelay
      BY <3>2, <3>4
    <3> QED BY <3>1, <3>5 DEF w
  <2>3. level' \in Nat /\ level' >= 0 /\ ErrorFrames' = 0
    BY <2>1, <2>2 DEF ErrorFrames
  <2> QED BY <1>0, <2>1, <2>3 DEF LevelInv, LevelStaysInBand
<1>3. CASE Round
  <2>1. /\ UNCHANGED <<drift, running>>
        /\ level' = IF running THEN level + drift + SenderCorrection - ReceiverCorrection
                    ELSE level
    BY <1>3 DEF Round
  <2>2. CASE ~running
    BY <1>1, <2>1, <2>2
  <2>3. CASE running
    <3> DEFINE q == level \div Subframes
               push == drift + SenderCorrection
               next == level + push - clamp((q - FixedDelay) * CorrPerFrame, CorrMax)
    <3>1. q \in Nat /\ q * Subframes <= level /\ level < (q + 1) * Subframes
      BY <1>0, WholeFrames
    <3>2. q - FixedDelay >= -Room /\ q - FixedDelay <= Tolerance
      BY <1>0, <2>3, <3>1 DEF LevelInv, LevelStaysInBand, ErrorFrames, Room
    <3>3. /\ Pull(drift) \in Nat /\ Pull(drift) <= CorrMax
          /\ Pull(drift) <= Room * CorrPerFrame
          /\ Pull(drift) <= Subframes /\ Pull(drift) + CorrMax <= Room * Subframes
      BY <1>0 DEF RatesFit, Pull, Abs
    <3>4. push \in -Pull(drift) .. Pull(drift)
      BY <1>0, SenderCorrectionIsLimited DEF Pull, Abs
    <3>5. level' = next
      <4>1. ReceiverCorrection = clamp((q - FixedDelay) * CorrPerFrame, CorrMax)
        BY DEF ReceiverCorrection, ErrorFrames
      <4>2. SenderCorrection \in Int
        BY SenderCorrectionIsLimited
      <4>3. clamp((q - FixedDelay) * CorrPerFrame, CorrMax) \in Int
        BY <3>1, ClampFacts
      <4> QED BY SMTT(30), <1>0, <2>1, <2>3, <4>1, <4>2, <4>3
    <3> HIDE DEF q, push
    <3>6. /\ next \in Int /\ (FixedDelay - Room) * Subframes <= next
          /\ next < (FixedDelay + Tolerance + 1) * Subframes
      <4> DEFINE pull == Pull(drift)
      <4>1. /\ Subframes \in Nat \ {0} /\ FixedDelay \in Nat /\ CorrPerFrame \in Nat
            /\ CorrMax \in Nat
        OBVIOUS
      <4>2. /\ pull \in Nat /\ pull <= CorrMax /\ pull <= Room * CorrPerFrame
            /\ pull <= Subframes /\ pull + CorrMax <= Room * Subframes
            /\ push \in -pull .. pull
        BY <3>3, <3>4
      <4> HIDE DEF pull
      <4>3. next = level + push - clamp((q - FixedDelay) * CorrPerFrame, CorrMax)
        OBVIOUS
      <4> HIDE FeedbackAssumption
      <4> HIDE DEF next
      <4> QED BY <1>0, <3>1, <3>2, <4>1, <4>2, <4>3, BandStep, Zenon
    <3> HIDE DEF next
    <3>7. next \in Nat
      <4>1. (FixedDelay - Room) * Subframes >= 0
        BY <1>0
      <4> QED BY <1>0, <3>6, <4>1
    <3> DEFINE p == next \div Subframes
    <3>8. p \in Nat /\ p * Subframes <= next /\ next < (p + 1) * Subframes
      BY <3>7, WholeFrames
    <3> HIDE DEF p
    <3>9. p < FixedDelay + Tolerance + 1 /\ FixedDelay - Room < p + 1
      <4> DEFINE a == p * Subframes
                 b == (p + 1) * Subframes
                 lo == (FixedDelay - Room) * Subframes
                 hi == (FixedDelay + Tolerance + 1) * Subframes
      <4>0. a \in Int /\ b \in Int /\ lo \in Int /\ hi \in Int
        BY <1>0, <3>8
      <4>1. a < hi /\ lo < b
        <5>1. lo <= next /\ next < hi /\ a <= next /\ next < b
          BY <3>6, <3>8
        <5> HIDE DEF a, b, lo, hi
        <5> QED BY <3>7, <4>0, <5>1
      <4> QED BY <1>0, <3>8, <4>1, FactorOrder
    <3>10. p - FixedDelay \in -Tolerance .. Tolerance
      BY <1>0, <3>8, <3>9
    <3>11. ErrorFrames' \in -Tolerance .. Tolerance
      BY <3>5, <3>10 DEF p, ErrorFrames
    <3>12. level' \in Nat /\ level' >= 0
      BY <3>5, <3>7
    <3> QED BY <1>0, <2>1, <3>11, <3>12 DEF LevelInv, LevelStaysInBand
  <2> QED BY <1>0, <2>2, <2>3
<1>4. CASE StoreStatus \/ UNCHANGED fbVars
  BY <1>1, <1>4 DEF StoreStatus, fbVars
<1>5. CASE \E copies \in 0 .. 2 : Report(copies)
  BY <1>1, <1>5 DEF Report
<1>6. CASE (\E d \in network : ReceiveStatus(d)) \/ (\E bytes \in Strays : ReceiveStray(bytes))
  BY <1>1, <1>6 DEF ReceiveStatus, ReceiveStray, Listen
<1> QED BY <1>2, <1>3, <1>4, <1>5, <1>6 DEF FeedbackNext

\* The codec does its part: a status comes back from the wire.
LEMMA StatusIsParsed == ASSUME NEW n \in Levels PROVE ParsedStatus[n] = Ok(StatusOf(n))
<1> DEFINE status == StatusOf(n)
           bytes == StatusBytes(status)
<1>1. IsReceiverStatus(status)
  <2>1. status = [f \in StatusNames \ {"reserved"} |-> status[f]]
    BY DEF StatusOf, StatusNames
  <2>2. FieldsFit(StatusWritten, Padded(status))
    BY StatusAssumption
  <2> QED BY <2>1, <2>2 DEF IsReceiverStatus
<1> HIDE DEF status
<1>2. SubSeq(bytes, 1, 168) = bytes
  <2>1. HasLen(bytes, 168)
    BY StatusLayout DEF IsStatus
  <2> HIDE DEF bytes
  <2>2. /\ HasLen(SubSeq(bytes, 1, 168), 168)
        /\ \A i \in 1 .. 168 : SubSeq(bytes, 1, 168)[i] = bytes[i]
    BY <2>1, 168 \in 0 .. 168, FrontAt
  <2> QED BY <2>1, <2>2, SameElements
<1>3. StatusFromBytes(SubSeq(bytes, 1, 168)) = Ok(status)
  BY <1>1, 168 \in 0 .. 168, StatusComesBack
<1>4. ParsedStatus[n] = StatusFromBytes(bytes)
  BY DEF ParsedStatus, status
<1> QED BY <1>2, <1>3, <1>4 DEF status

\* Anything else is refused.
LEMMA StrayIsRefused == ASSUME NEW bytes \in Strays PROVE ParsedStray[bytes] = Err
<1>1. SubSeq(bytes, 1, 4) # STATUS_MAGIC
  BY StraysAssumption
<1>2. ParsedStray[bytes] = StatusFromBytes(bytes)
  BY DEF ParsedStray
<1> QED BY <1>1, <1>2 DEF StatusFromBytes

\* The inductive invariant for what the sender holds: what is under way was the
\* level of a buffer, and what the listener is about to store is a status.
IsOfReceiver(status) == \E n \in Levels : status = StatusOf(n)
HeldInv ==
  /\ \A d \in network : d[1] \in Levels
  /\ received # None => IsOfReceiver(received)
  /\ HeldIsAStatus

\* The level that is reported is one of Levels.
LEMMA ReportedLevel == ASSUME LevelInv PROVE BufferLevelFrames \in Levels
<1> USE FeedbackAssumption
<1>1. Tolerance \in Nat /\ level \div Subframes \in Nat
  BY ToleranceIsNat, WholeFrames DEF LevelInv
<1>2. running => level \div Subframes - FixedDelay <= Tolerance
  BY <1>1 DEF LevelInv, LevelStaysInBand, ErrorFrames
<1> QED BY <1>1, <1>2 DEF BufferLevelFrames, Levels

\* Neither the network nor the listener makes up a status.
LEMMA HeldStep ==
  ASSUME LevelInv, HeldInv, [FeedbackNext]_fbVars
  PROVE  HeldInv'
<1>1. ASSUME NEW status, Listen(status), network' \subseteq network,
             status = Err \/ \E n \in Levels : status = Ok(StatusOf(n))
      PROVE  HeldInv'
  <2>1. /\ received' = IF status.ok THEN status.value ELSE None
        /\ remote_status' = remote_status
    BY <1>1 DEF Listen
  <2>2. received' # None => IsOfReceiver(received')
    BY <1>1, <2>1 DEF Err, Ok, IsOfReceiver
  <2> QED BY <1>1, <2>1, <2>2 DEF HeldInv, HeldIsAStatus, IsOfReceiver
<1>2. CASE \E d \in network : ReceiveStatus(d)
  <2>1. PICK d \in network : ReceiveStatus(d)
    BY <1>2
  <2>2. ParsedStatus[d[1]] = Ok(StatusOf(d[1])) /\ d[1] \in Levels
    BY StatusIsParsed DEF HeldInv
  <2> QED BY <1>1, <2>1, <2>2 DEF ReceiveStatus
<1>3. CASE \E bytes \in Strays : ReceiveStray(bytes)
  BY <1>1, <1>3, StrayIsRefused DEF ReceiveStray
<1>4. CASE \E copies \in 0 .. 2 : Report(copies)
  <2>1. PICK copies \in 0 .. 2 : Report(copies)
    BY <1>4
  <2>2. /\ network' = network \cup {<<BufferLevelFrames, c>> : c \in 1 .. copies}
        /\ UNCHANGED <<received, remote_status>>
    BY <2>1 DEF Report
  <2>3. \A d \in network' : d[1] \in Levels
    BY <2>2, ReportedLevel DEF HeldInv
  <2> QED BY <2>2, <2>3 DEF HeldInv, HeldIsAStatus, IsOfReceiver
<1>5. CASE StoreStatus
  BY <1>5 DEF StoreStatus, HeldInv, HeldIsAStatus, IsOfReceiver
<1>6. CASE Round
  BY <1>6 DEF Round, HeldInv, HeldIsAStatus, IsOfReceiver
<1>7. CASE StartPlayout \/ UNCHANGED fbVars
  BY <1>7 DEF StartPlayout, fbVars, HeldInv, HeldIsAStatus, IsOfReceiver
<1> QED BY <1>2, <1>3, <1>4, <1>5, <1>6, <1>7 DEF FeedbackNext

\* Level and status, together: a level in the band is reported as it is, and a
\* status keeps the level in the band.
LEMMA FeedbackInvariant == ASSUME RatesFit PROVE FeedbackSpec => [](LevelInv /\ HeldInv)
<1>1. FeedbackInit => LevelInv /\ HeldInv
  <2> SUFFICES ASSUME FeedbackInit PROVE LevelInv /\ HeldInv
    OBVIOUS
  <2>1. /\ drift \in Drifts /\ running = FALSE /\ level = 0
        /\ network = {} /\ received = None /\ remote_status = None
    BY DEF FeedbackInit
  <2> QED BY <2>1 DEF LevelInv, LevelStaysInBand, HeldInv, HeldIsAStatus
<1>2. LevelInv /\ HeldInv /\ [FeedbackNext]_fbVars => LevelInv' /\ HeldInv'
  <2>1. HeldInv => HeldIsAStatus
    BY DEF HeldInv
  <2> QED BY <2>1, LevelStep, HeldStep
<1> QED BY <1>1, <1>2, PTL DEF FeedbackSpec

\* The sender only ever acts on a status as a receiver builds it, whatever the
\* network loses, repeats and delays and whatever else is sent to the port.
THEOREM SenderHoldsStatus == ASSUME RatesFit PROVE FeedbackSpec => []HeldIsAStatus
<1>1. LevelInv /\ HeldInv => HeldIsAStatus
  BY DEF HeldInv
<1> QED BY <1>1, FeedbackInvariant, PTL

\* Rate control never drives the level to where audio is interrupted, for any
\* drift, gain and delay that fit, whatever becomes of the status datagrams.
THEOREM LevelKeepsToBand == ASSUME RatesFit PROVE FeedbackSpec => []LevelStaysInBand
<1>1. LevelInv /\ HeldInv => LevelStaysInBand
  BY DEF LevelInv
<1> QED BY <1>1, FeedbackInvariant, PTL
=============================================================================

-------------------------- MODULE CaptureSenderProofs --------------------------
(***************************************************************************)
(* Proofs about CaptureSender, for every packet and chunk size, catch-up   *)
(* limit, burst limit and set of intervals, paced or not.                  *)
(***************************************************************************)
EXTENDS CaptureSender, SharedLemmas

\* The types the argument needs.
SenderTypes ==
  /\ pending \in Nat /\ sample_position \in Nat
  /\ pacing_dropped_frames \in Nat /\ captured \in Nat

\* The inductive invariant: frames are only moved from one account to another,
\* and every exit of the send loops leaves fewer of them pending.
SenderInv == SenderTypes /\ FramesAreAccountedFor /\ BacklogIsBounded

\* What a trim leaves is part of what was pending.
LEMMA TrimFacts ==
  ASSUME SenderTypes
  PROVE  TrimmedPending \in Nat /\ TrimmedPending <= pending
<1>1. CatchUp * PacketFrames \in Nat
  BY SenderAssumption
<1> QED BY <1>1 DEF SenderTypes, TrimmedPending, Smaller

\* A trim moves frames from pending to dropped.
LEMMA TrimKeepsAccounts ==
  ASSUME SenderInv, pc # "stopped", Trim, UNCHANGED <<sample_position, captured>>
  PROVE  SenderInv'
<1> DEFINE left == TrimmedPending
<1>1. left \in Nat /\ left <= pending
  BY TrimFacts DEF SenderInv
<1>2. pending' = left /\ pacing_dropped_frames' = pacing_dropped_frames + (pending - left)
  BY DEF Trim
<1> HIDE DEF left
<1>3. pacing_dropped_frames + (pending - left) \in Nat
  BY <1>1 DEF SenderInv, SenderTypes
<1>4. SenderTypes'
  BY <1>1, <1>2, <1>3 DEF SenderInv, SenderTypes
<1>5. captured = left + sample_position + (pacing_dropped_frames + (pending - left))
  BY <1>1 DEF SenderInv, SenderTypes, FramesAreAccountedFor
<1>6. FramesAreAccountedFor'
  BY <1>2, <1>5 DEF FramesAreAccountedFor
<1>7. left < PacketFrames + MaxChunk
  BY <1>1, SenderAssumption DEF SenderInv, SenderTypes, BacklogIsBounded
<1>8. BacklogIsBounded'
  BY <1>2, <1>7 DEF BacklogIsBounded
<1> QED BY <1>4, <1>6, <1>8 DEF SenderInv

\* A packet moves frames from pending to the stream.
LEMMA SendKeepsAccounts ==
  ASSUME SenderInv, pc # "stopped", SendPacket
  PROVE  SenderInv'
<1>1. /\ pending' = pending - PacketFrames
      /\ sample_position' = sample_position + PacketFrames
      /\ UNCHANGED <<pacing_dropped_frames, captured>>
      /\ pending >= PacketFrames
  BY DEF SendPacket, NextPosition, Ready
<1>2. pending - PacketFrames \in Nat /\ sample_position + PacketFrames \in Nat
  BY <1>1, SenderAssumption DEF SenderInv, SenderTypes
<1>3. SenderTypes'
  BY <1>1, <1>2 DEF SenderInv, SenderTypes
<1>4. captured = (pending - PacketFrames) + (sample_position + PacketFrames)
                   + pacing_dropped_frames
  BY SenderAssumption DEF SenderInv, SenderTypes, FramesAreAccountedFor
<1>5. FramesAreAccountedFor'
  BY <1>1, <1>4 DEF FramesAreAccountedFor
<1>6. pending - PacketFrames < PacketFrames + MaxChunk
  BY SenderAssumption DEF SenderInv, SenderTypes, BacklogIsBounded
<1>7. BacklogIsBounded'
  BY <1>1, <1>6 DEF BacklogIsBounded
<1> QED BY <1>3, <1>5, <1>7 DEF SenderInv

\* Every step keeps the accounts.
LEMMA SenderStep == SenderInv /\ [Next]_vars => SenderInv'
<1> SUFFICES ASSUME SenderInv, [Next]_vars PROVE SenderInv'
  OBVIOUS
<1>1. ASSUME UNCHANGED <<pending, packetVars, pacing_dropped_frames, captured>>,
             pc # "stopped" \/ pc' = pc
      PROVE  SenderInv'
  BY <1>1 DEF packetVars, SenderInv, SenderTypes, FramesAreAccountedFor, BacklogIsBounded
<1>2. CASE PacedRound
  <2>1. CASE UNCHANGED <<pending, pacing_dropped_frames, lag>>
    BY <1>1, <1>2, <2>1 DEF PacedRound
  <2>2. CASE Trim
    BY <1>2, <2>2, TrimKeepsAccounts DEF PacedRound, packetVars
  <2> QED BY <1>2, <2>1, <2>2 DEF PacedRound
<1>3. CASE PacedLimit
  <2>1. CASE UNCHANGED <<pending, pacing_dropped_frames, lag>>
    BY <1>1, <1>3, <2>1 DEF PacedLimit
  <2>2. CASE Trim
    BY <1>3, <2>2, TrimKeepsAccounts DEF PacedLimit, packetVars
  <2> QED BY <1>3, <2>1, <2>2 DEF PacedLimit
<1>4. CASE PacedSend \/ UnpacedSend
  BY <1>4, SendKeepsAccounts DEF PacedSend, UnpacedSend
<1>5. CASE PacedEnd \/ WaitUntilPacketDeadline \/ UnpacedRound \/ UnpacedEnd \/ Stop \/ Tick
  BY <1>1, <1>5 DEF PacedEnd, WaitUntilPacketDeadline, UnpacedRound, UnpacedEnd, Stop, Tick
<1>6. CASE SendFails
  <2>1. /\ pc' = "stopped" /\ UNCHANGED <<pending, pacing_dropped_frames, captured>>
        /\ sample_position' = sample_position + PacketFrames
    BY <1>6 DEF SendFails, NextPosition
  <2>2. sample_position + PacketFrames \in Nat
    BY SenderAssumption DEF SenderInv, SenderTypes
  <2> QED BY <2>1, <2>2 DEF SenderInv, SenderTypes, FramesAreAccountedFor, BacklogIsBounded
<1>7. ASSUME NEW n \in ChunkSizes, RecvChunk(n) PROVE SenderInv'
  <2>1. /\ pc = "top" /\ pc' = pc /\ ~(pending >= PacketFrames)
        /\ pending' = pending + n /\ captured' = captured + n
        /\ UNCHANGED <<sample_position, pacing_dropped_frames>>
    BY <1>7 DEF RecvChunk, MayReceive, Ready, packetVars
  <2>2. n \in Nat /\ n <= MaxChunk /\ PacketFrames \in Nat /\ MaxChunk \in Nat
    BY SenderAssumption
  <2>3. pending + n \in Nat /\ captured + n \in Nat
    BY <2>2 DEF SenderInv, SenderTypes
  <2>4. SenderTypes'
    BY <2>1, <2>3 DEF SenderInv, SenderTypes
  <2>5. captured + n = (pending + n) + sample_position + pacing_dropped_frames
    BY <2>1, <2>2 DEF SenderInv, SenderTypes, FramesAreAccountedFor
  <2>6. FramesAreAccountedFor'
    BY <2>1, <2>5 DEF FramesAreAccountedFor
  <2>7. pending + n < PacketFrames + MaxChunk
    BY <2>1, <2>2 DEF SenderInv, SenderTypes
  <2>8. BacklogIsBounded'
    BY <2>1, <2>7 DEF BacklogIsBounded
  <2> QED BY <2>4, <2>6, <2>8 DEF SenderInv
<1>8. CASE UNCHANGED vars
  BY <1>1, <1>8 DEF vars, packetVars
<1> QED BY <1>2, <1>3, <1>4, <1>5, <1>6, <1>7, <1>8 DEF Next, SendStep

\* The sender's invariant holds from the start.
LEMMA SenderInvariant == Spec => []SenderInv
<1>1. Init => SenderInv
  BY SenderAssumption DEF Init, SenderInv, SenderTypes, FramesAreAccountedFor,
     BacklogIsBounded
<1> QED BY <1>1, SenderStep, PTL DEF Spec

\* No frame is lost or repeated between the capture queue and the socket.
THEOREM NoFrameIsLost == Spec => []FramesAreAccountedFor
<1>1. SenderInv => FramesAreAccountedFor
  BY DEF SenderInv
<1> QED BY <1>1, SenderInvariant, PTL

\* The packet thread never holds back more than a packet and a chunk.
THEOREM BacklogStaysBounded == Spec => []BacklogIsBounded
<1>1. SenderInv => BacklogIsBounded
  BY DEF SenderInv
<1> QED BY <1>1, SenderInvariant, PTL

-----------------------------------------------------------------------------
(* The shape of the stream. *)

\* A packet, sent or failed, is the next one of the stream.
LEMMA NextPacketIsRegular ==
  ASSUME SenderTypes, StreamIsRegular,
         sequence' = NextSequence, sample_position' = NextPosition
  PROVE  StreamIsRegular'
<1> DEFINE k == sample_position \div PacketFrames
<1>1. sample_position \in Nat /\ PacketFrames \in Nat \ {0} /\ SeqModulus \in Nat \ {0}
  BY SenderAssumption DEF SenderTypes
<1>2. /\ (sample_position + PacketFrames) % PacketFrames = 0
      /\ (sample_position + PacketFrames) \div PacketFrames = k + 1
  BY <1>1, NextMultiple DEF StreamIsRegular
<1>3. k \in Nat
  BY <1>1
<1>4. ((k % SeqModulus) + 1) % SeqModulus = (k + 1) % SeqModulus
  BY <1>1, <1>3, WrappedSuccessor
<1>5. sequence = k % SeqModulus
  BY DEF StreamIsRegular
<1>6. sequence' = (k + 1) % SeqModulus
  BY <1>4, <1>5 DEF NextSequence
<1>7. sample_position' = sample_position + PacketFrames
  BY DEF NextPosition
<1> QED
  BY <1>2, <1>6, <1>7 DEF StreamIsRegular

\* Every step, sending a packet above all, keeps numbers and positions in line.
LEMMA RegularStep ==
  SenderTypes /\ StreamIsRegular /\ [Next]_vars => StreamIsRegular'
<1> SUFFICES ASSUME SenderTypes, StreamIsRegular, [Next]_vars PROVE StreamIsRegular'
  OBVIOUS
<1>1. CASE UNCHANGED packetVars
  BY <1>1 DEF packetVars, StreamIsRegular
<1>2. CASE sequence' = NextSequence /\ sample_position' = NextPosition
  BY <1>2, NextPacketIsRegular
<1>3. CASE PacedSend \/ UnpacedSend \/ SendFails
  BY <1>2, <1>3 DEF PacedSend, UnpacedSend, SendFails, SendPacket
<1>4. CASE PacedRound \/ PacedLimit \/ PacedEnd \/ WaitUntilPacketDeadline \/ Stop \/ Tick
  BY <1>1, <1>4 DEF PacedRound, PacedLimit, PacedEnd, WaitUntilPacketDeadline, Stop, Tick
<1>5. CASE UnpacedRound \/ UnpacedEnd \/ \E n \in ChunkSizes : RecvChunk(n)
  BY <1>1, <1>5 DEF UnpacedRound, UnpacedEnd, RecvChunk
<1>6. CASE UNCHANGED vars
  BY <1>1, <1>6 DEF vars, packetVars
<1> QED
  BY <1>3, <1>4, <1>5, <1>6 DEF Next, SendStep

\* Packet number k starts at frame k * PacketFrames and carries the number k,
\* wrapped (PacketSender::send_frames).
THEOREM StreamStaysRegular == Spec => []StreamIsRegular
<1>1. Init => StreamIsRegular
  <2>1. /\ PacketFrames \in Nat \ {0} /\ 0 = PacketFrames * 0 + 0
        /\ SeqModulus \in Nat \ {0} /\ 0 = SeqModulus * 0 + 0
    BY SenderAssumption
  <2>2. 0 % PacketFrames = 0 /\ 0 \div PacketFrames = 0 /\ 0 % SeqModulus = 0
    BY <2>1
  <2> QED
    BY <2>2 DEF Init, StreamIsRegular
<1>2. SenderInv => SenderTypes
  BY DEF SenderInv
<1> QED BY <1>1, <1>2, RegularStep, SenderInvariant, PTL DEF Spec
=============================================================================

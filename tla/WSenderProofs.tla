------------------------------ MODULE WSenderProofs ------------------------------
(***************************************************************************)
(* Proofs about WSender, for every packet size and sequence modulus.       *)
(***************************************************************************)
EXTENDS WSender, SharedLemmas

-----------------------------------------------------------------------------
\* The event is not lost: no other fact about the state is needed.
LEMMA EventStep == NoLostEvent /\ [Next]_vars => NoLostEvent'
<1> SUFFICES ASSUME NoLostEvent, [Next]_vars PROVE NoLostEvent'
  OBVIOUS
<1> USE DEF NoLostEvent
<1>1. CASE Device
  BY <1>1 DEF Device, DeviceSignals, DeviceCaptures, workerVars
<1>2. CASE CheckStop \/ WaitTimeout \/ WaitSignalled \/ CallFails
  BY <1>2 DEF CheckStop, WaitTimeout, WaitSignalled, CallFails, deviceVars
<1>3. CASE GetNextPacketSize \/ GetBuffer \/ GetBufferEmpty \/ GetBufferNull
  BY <1>3 DEF GetNextPacketSize, GetBuffer, GetBufferEmpty, GetBufferNull, deviceVars
<1>4. CASE SendPacket \/ SendWouldBlock \/ SendError
  BY <1>4 DEF SendPacket, SendWouldBlock, SendError, SendAs, deviceVars
<1>5. CASE ReadFails \/ ReleaseAndFail \/ ReleaseBuffer \/ ReleaseFails
  BY <1>5 DEF ReadFails, ReleaseAndFail, ReleaseBuffer, ReleaseFails, AfterReadError,
     AfterRelease, deviceVars
<1>6. CASE Main
  BY <1>6 DEF Main, DurationElapsed, SeesWorkerFinished, Join, deviceVars, workerVars
<1>7. CASE UNCHANGED vars
  BY <1>7 DEF vars, deviceVars, workerVars
<1> QED
  BY <1>1, <1>2, <1>3, <1>4, <1>5, <1>6, <1>7 DEF Next, Worker

\* The capture thread never waits over captured audio whose event is gone
\* (capture_loop, drain_capture).
THEOREM EventsAreNotLost == Spec => []NoLostEvent
<1>1. Init => NoLostEvent
  BY DEF Init, NoLostEvent
<1> QED
  BY <1>1, EventStep, PTL DEF Spec

\* Holding a buffer is a matter of the program counter.
LEMMA BufferStep == BufferIsReturned /\ [Next]_vars => BufferIsReturned'
<1> SUFFICES ASSUME BufferIsReturned, [Next]_vars PROVE BufferIsReturned'
  OBVIOUS
<1> USE DEF BufferIsReturned
<1>1. CASE Device \/ Main
  BY <1>1 DEF Device, DeviceSignals, DeviceCaptures, Main, DurationElapsed,
     SeesWorkerFinished, Join, workerVars, bufferVars
<1>2. CASE CheckStop \/ WaitTimeout \/ WaitSignalled \/ CallFails
  BY <1>2 DEF CheckStop, WaitTimeout, WaitSignalled, CallFails, bufferVars
<1>3. CASE GetNextPacketSize \/ GetBuffer \/ GetBufferEmpty \/ GetBufferNull
  BY <1>3 DEF GetNextPacketSize, GetBuffer, GetBufferEmpty, GetBufferNull,
     bufferVars
<1>4. CASE SendPacket \/ SendWouldBlock \/ SendError
  BY <1>4 DEF SendPacket, SendWouldBlock, SendError, SendAs
<1>5. CASE ReadFails \/ ReleaseAndFail \/ ReleaseBuffer \/ ReleaseFails
  BY <1>5 DEF ReadFails, ReleaseAndFail, ReleaseBuffer, ReleaseFails, AfterReadError,
     AfterRelease, bufferVars
<1>6. CASE UNCHANGED vars
  BY <1>6 DEF vars, workerVars, bufferVars
<1> QED
  BY <1>1, <1>2, <1>3, <1>4, <1>5, <1>6 DEF Next, Worker

\* Every path through drain_capture gives the device its buffer back.
THEOREM BuffersAreReturned == Spec => []BufferIsReturned
<1>1. Init => BufferIsReturned
  BY DEF Init, BufferIsReturned
<1> QED
  BY <1>1, BufferStep, PTL DEF Spec

-----------------------------------------------------------------------------
(* The stream. *)

\* The head of a queue is one of its entries.
LEMMA QueueHead ==
  ASSUME NEW S, NEW s \in Seq(S), s # <<>>
  PROVE  Head(s) \in S /\ Tail(s) \in Seq(S)
OBVIOUS

\* The types the accounts need.
StreamTypes ==
  /\ device \in Seq(CaptureSizes)
  /\ wk_pc \in {"get", "packetize", "release"} => device # <<>>
  /\ chunk \in Nat /\ base_frame \in 0 .. chunk
  /\ sample_position \in Nat /\ event_frames \in Nat
  /\ packets \in Nat /\ send_would_block \in Nat /\ send_errors \in Nat
  /\ sequence \in Nat

\* While a buffer is held its remaining frames are owed; between buffers none are.
StreamInv == StreamTypes /\ BufferIsReturned /\ PositionsFollowCapture

\* A packet of the chunk has at least one frame and no more than are left.
LEMMA PacketFramesFacts ==
  ASSUME StreamTypes, base_frame < chunk
  PROVE  PacketFrames \in 1 .. chunk - base_frame
  BY WSenderAssumption DEF StreamTypes, PacketFrames

\* Sending one packet keeps the accounts, whatever the socket answers.
LEMMA SendKeepsAccounts ==
  ASSUME StreamInv, SendPacket \/ SendWouldBlock \/ SendError
  PROVE  StreamTypes' /\ PositionsFollowCapture'
<1> DEFINE n == packets + send_would_block + send_errors
<1>1. /\ wk_pc = "packetize" /\ base_frame < chunk /\ held
      /\ UNCHANGED <<device, wk_pc, held, chunk, event_frames>>
      /\ base_frame' = base_frame + PacketFrames
      /\ sample_position' = sample_position + PacketFrames
      /\ sequence' = (sequence + 1) % SeqModulus
  BY DEF SendPacket, SendWouldBlock, SendError, SendAs, deviceVars, NextPosition,
     NextSequence, StreamInv, BufferIsReturned
<1>2. /\ packets' \in Nat /\ send_would_block' \in Nat /\ send_errors' \in Nat
      /\ n' = n + 1 /\ n \in Nat
  <2>1. packets \in Nat /\ send_would_block \in Nat /\ send_errors \in Nat
    BY DEF StreamInv, StreamTypes
  <2>2. CASE SendPacket
    BY <2>1, <2>2 DEF SendPacket, SendAs
  <2>3. CASE SendWouldBlock
    BY <2>1, <2>3 DEF SendWouldBlock, SendAs
  <2>4. CASE SendError
    BY <2>1, <2>4 DEF SendError, SendAs
  <2> QED
    BY <2>2, <2>3, <2>4
<1>3. PacketFrames \in 1 .. chunk - base_frame
  BY <1>1, PacketFramesFacts DEF StreamInv
<1>4. /\ event_frames = sample_position + (chunk - base_frame)
      /\ sequence = n % SeqModulus
  BY <1>1 DEF StreamInv, PositionsFollowCapture
<1>5. sequence' = n' % SeqModulus
  BY <1>1, <1>2, <1>4, WrappedSuccessor, WSenderAssumption
<1>6. /\ event_frames' = sample_position' + (chunk' - base_frame')
      /\ base_frame' \in 0 .. chunk' /\ sample_position' \in Nat
  BY <1>1, <1>3, <1>4 DEF StreamInv, StreamTypes
<1>7. sequence' \in Nat
  BY <1>1, WSenderAssumption DEF StreamInv, StreamTypes
<1>8. PositionsFollowCapture'
  BY <1>1, <1>5, <1>6 DEF PositionsFollowCapture
<1>9. StreamTypes'
  BY <1>1, <1>2, <1>6, <1>7 DEF StreamTypes, StreamInv
<1> QED
  BY <1>8, <1>9

\* Every step of the capture thread keeps the positions at what was captured.
LEMMA StreamStep == StreamInv /\ [Next]_vars => StreamInv'
<1> SUFFICES ASSUME StreamInv, [Next]_vars PROVE StreamInv'
  OBVIOUS
<1>0. BufferIsReturned'
  BY BufferStep DEF StreamInv
<1> SUFFICES StreamTypes' /\ PositionsFollowCapture'
  BY <1>0 DEF StreamInv
<1> USE DEF StreamInv, StreamTypes, PositionsFollowCapture, BufferIsReturned
<1>1. CASE Device
  <2>1. /\ UNCHANGED <<wk_pc, held, chunk, base_frame, sample_position, event_frames,
                      packets, send_would_block, send_errors, sequence>>
        /\ device' = device \/ \E n \in CaptureSizes : device' = Append(device, n)
    BY <1>1 DEF Device, DeviceSignals, DeviceCaptures, workerVars, bufferVars, streamVars
  <2>2. device' \in Seq(CaptureSizes) /\ (device # <<>> => device' # <<>>)
    BY <2>1
  <2> QED
    BY <2>1, <2>2
<1>2. CASE CheckStop \/ WaitTimeout \/ WaitSignalled \/ CallFails
  BY <1>2, SMTT(30) DEF CheckStop, WaitTimeout, WaitSignalled, CallFails, deviceVars, bufferVars,
     streamVars
<1>3. CASE GetNextPacketSize \/ GetBufferEmpty
  BY <1>3, SMTT(30) DEF GetNextPacketSize, GetBufferEmpty, deviceVars, bufferVars, streamVars
<1>4. CASE GetBuffer \/ GetBufferNull
  <2>1. device # <<>> /\ wk_pc # "done" /\ ~held
    BY <1>4 DEF GetBuffer, GetBufferNull
  <2>2. Head(device) \in CaptureSizes /\ Tail(device) \in Seq(CaptureSizes)
    BY <2>1, QueueHead
  <2>5. Head(device) \in Nat
    BY <2>2, WSenderAssumption
  <2>3. CASE GetBuffer
    BY <2>1, <2>5, <2>3 DEF GetBuffer, RecordEvent, deviceVars, streamVars
  <2>4. CASE GetBufferNull
    BY <2>1, <2>2, <2>5, <2>4 DEF GetBufferNull, RecordEvent, streamVars
  <2> QED
    BY <1>4, <2>3, <2>4
<1>5. CASE SendPacket \/ SendWouldBlock \/ SendError
  BY <1>5, SendKeepsAccounts
<1>6. CASE ReadFails
  BY <1>6 DEF ReadFails, AfterReadError, deviceVars, bufferVars, streamVars
<1>7. CASE ReleaseAndFail \/ ReleaseBuffer \/ ReleaseFails
  <2>1. device # <<>>
    BY <1>7 DEF ReleaseAndFail, ReleaseBuffer, ReleaseFails
  <2>2. device' \in Seq(CaptureSizes)
    BY <1>7, <2>1, SMTT(30) DEF ReleaseAndFail, ReleaseBuffer, ReleaseFails, deviceVars
  <2> QED
    BY <1>7, <2>2, SMTT(30) DEF ReleaseAndFail, ReleaseBuffer, ReleaseFails, AfterRelease, streamVars
<1>8. CASE Main
  BY <1>8, SMTT(30) DEF Main, DurationElapsed, SeesWorkerFinished, Join, deviceVars, workerVars,
     bufferVars, streamVars
<1>9. CASE UNCHANGED vars
  BY <1>9 DEF vars, deviceVars, workerVars, bufferVars, streamVars
<1> QED
  BY <1>1, <1>2, <1>3, <1>4, <1>5, <1>6, <1>7, <1>8, <1>9 DEF Next, Worker

\* The packets carry every captured frame at its place in the stream
\* (Packetizer::packetize_capture_chunk).
THEOREM StreamFollowsCapture == Spec => []PositionsFollowCapture
<1>1. Init => StreamInv
  BY WSenderAssumption, RemainderIsUnique
     DEF Init, StreamInv, StreamTypes, BufferIsReturned, PositionsFollowCapture
<1>2. StreamInv => PositionsFollowCapture
  BY DEF StreamInv
<1> QED
  BY <1>1, <1>2, StreamStep, PTL DEF Spec
=============================================================================

--------------------------------- MODULE WSender ---------------------------------
(***************************************************************************)
(* The Windows sender: the capture thread (capture_loop and drain_capture  *)
(* of w-sender/src/wasapi.rs, Packetizer of w-sender/src/packetizer.rs)    *)
(* and the main thread (w-sender/src/main.rs) that prints metrics and ends *)
(* the program.  WASAPI is external: it queues packets of captured frames  *)
(* and sets an auto-reset event after each, and any call to it may fail.   *)
(*                                                                         *)
(* Audio is left out: a captured packet is its number of frames.           *)
(***************************************************************************)
EXTENDS Integers, Sequences

CONSTANTS
  CaptureSizes,     \* frames in a packet of the device
  MaxPacketFrames,  \* --max-packet-frames
  SeqModulus,       \* the sequence number's modulus, 2^32
  MaxCaptures       \* bound: packets the device captures

ASSUME WSenderAssumption ==
  /\ CaptureSizes \subseteq Nat \ {0}
  /\ MaxPacketFrames \in Nat \ {0}      \* checked in Args::validate
  /\ SeqModulus \in Nat \ {0}
  /\ MaxCaptures \in Nat

VARIABLES
  device,       \* the device's queue, oldest first
  signalled,    \* the event object
  unsignalled,  \* a packet was queued and its event is still to be set
  captures,     \* packets captured so far
  wk_pc,        \* the capture thread
  held,         \* it has a buffer of the device to release
  chunk, base_frame,          \* frames in that buffer, and how many are packetized
  sequence, sample_position,  \* Packetizer
  event_frames, packets, send_would_block, send_errors,   \* Metrics
  stop,         \* the shared flag
  main_pc       \* the main thread

deviceVars == <<device, signalled, unsignalled, captures>>
bufferVars == <<held, chunk, base_frame>>
streamVars == <<sequence, sample_position, packets, send_would_block, send_errors>>
workerVars == <<wk_pc, bufferVars, streamVars, event_frames>>
mainVars == <<stop, main_pc>>
vars == <<deviceVars, workerVars, mainVars>>

TypeOK ==
  /\ device \in Seq(CaptureSizes) /\ Len(device) <= MaxCaptures
  /\ signalled \in BOOLEAN /\ unsignalled \in BOOLEAN
  /\ captures \in 0 .. MaxCaptures
  /\ wk_pc \in {"check", "wait", "size", "get", "packetize", "release", "done"}
  /\ held \in BOOLEAN /\ chunk \in Nat /\ base_frame \in 0 .. chunk
  /\ sequence \in 0 .. SeqModulus - 1 /\ sample_position \in Nat
  /\ event_frames \in Nat /\ packets \in Nat
  /\ send_would_block \in Nat /\ send_errors \in Nat
  /\ stop \in BOOLEAN /\ main_pc \in {"loop", "join", "exit"}

Init ==
  /\ device = <<>> /\ signalled = FALSE /\ unsignalled = FALSE /\ captures = 0
  /\ wk_pc = "check" /\ held = FALSE /\ chunk = 0 /\ base_frame = 0
  /\ sequence = 0 /\ sample_position = 0
  /\ event_frames = 0 /\ packets = 0 /\ send_would_block = 0 /\ send_errors = 0
  /\ stop = FALSE /\ main_pc = "loop"

-----------------------------------------------------------------------------
(* WASAPI *)

DeviceCaptures(n) ==
  /\ captures < MaxCaptures /\ ~unsignalled
  /\ captures' = captures + 1
  /\ device' = Append(device, n) /\ unsignalled' = TRUE
  /\ UNCHANGED <<signalled, workerVars, mainVars>>

DeviceSignals ==
  /\ unsignalled
  /\ unsignalled' = FALSE /\ signalled' = TRUE
  /\ UNCHANGED <<device, captures, workerVars, mainVars>>

-----------------------------------------------------------------------------
(* capture_loop *)

CheckStop ==
  /\ wk_pc = "check"
  /\ wk_pc' = IF stop THEN "done" ELSE "wait"
  /\ UNCHANGED <<deviceVars, bufferVars, streamVars, event_frames, mainVars>>

WaitSignalled ==
  /\ wk_pc = "wait" /\ signalled
  /\ signalled' = FALSE /\ wk_pc' = "size"
  /\ UNCHANGED <<device, unsignalled, captures, bufferVars, streamVars, event_frames,
                 mainVars>>

WaitTimeout ==
  /\ wk_pc = "wait" /\ ~signalled
  /\ wk_pc' = "check"
  /\ UNCHANGED <<deviceVars, bufferVars, streamVars, event_frames, mainVars>>

\* WaitForSingleObject, GetNextPacketSize or GetBuffer fails: the thread returns
\* the error.
CallFails ==
  /\ wk_pc \in {"wait", "size", "get"}
  /\ wk_pc' = "done"
  /\ UNCHANGED <<deviceVars, bufferVars, streamVars, event_frames, mainVars>>

-----------------------------------------------------------------------------
(* drain_capture *)

GetNextPacketSize ==
  /\ wk_pc = "size"
  /\ wk_pc' = IF device = <<>> THEN "check" ELSE "get"
  /\ UNCHANGED <<deviceVars, bufferVars, streamVars, event_frames, mainVars>>

\* Metrics::record_event
RecordEvent == event_frames' = event_frames + Head(device)

GetBuffer ==
  /\ wk_pc = "get"
  /\ held' = TRUE /\ chunk' = Head(device) /\ base_frame' = 0
  /\ RecordEvent
  /\ wk_pc' = "packetize"
  /\ UNCHANGED <<deviceVars, streamVars, mainVars>>

\* AUDCLNT_S_BUFFER_EMPTY
GetBufferEmpty ==
  /\ wk_pc = "get"
  /\ wk_pc' = "size"
  /\ UNCHANGED <<deviceVars, bufferVars, streamVars, event_frames, mainVars>>

\* A null buffer that is not marked silent is released at once.
GetBufferNull ==
  /\ wk_pc = "get"
  /\ held' = FALSE /\ device' = Tail(device)
  /\ RecordEvent
  /\ wk_pc' = "done"
  /\ UNCHANGED <<signalled, unsignalled, captures, chunk, base_frame, streamVars,
                 mainVars>>

-----------------------------------------------------------------------------
(* packetize_capture_chunk, one packet at a time, and the closure that     *)
(* sends it.                                                               *)

PacketFrames ==
  IF chunk - base_frame <= MaxPacketFrames THEN chunk - base_frame ELSE MaxPacketFrames

\* A packet the socket refuses takes its number and its frames with it.
BugCountSent(sent) == IF sent THEN (sequence + 1) % SeqModulus ELSE sequence
NextSequence(sent) == (sequence + 1) % SeqModulus

NextPosition == sample_position + PacketFrames

SendAs(sent, counter) ==
  /\ wk_pc = "packetize" /\ base_frame < chunk
  /\ counter
  /\ sequence' = NextSequence(sent)
  /\ sample_position' = NextPosition
  /\ base_frame' = base_frame + PacketFrames
  /\ UNCHANGED <<deviceVars, wk_pc, held, chunk, event_frames, mainVars>>

SendPacket ==
  SendAs(TRUE, packets' = packets + 1 /\ UNCHANGED <<send_would_block, send_errors>>)
SendWouldBlock ==
  SendAs(FALSE,
         send_would_block' = send_would_block + 1 /\ UNCHANGED <<packets, send_errors>>)
SendError ==
  SendAs(FALSE,
         send_errors' = send_errors + 1 /\ UNCHANGED <<packets, send_would_block>>)

\* Samples that cannot be read end the packetizing; the buffer is released before
\* the error is returned.
BugReturnEarly == "done"
AfterReadError == "release"

ReadFails ==
  /\ wk_pc = "packetize" /\ base_frame < chunk
  /\ wk_pc' = AfterReadError
  /\ UNCHANGED <<deviceVars, bufferVars, streamVars, event_frames, mainVars>>

ReleaseAndFail ==
  /\ wk_pc = "release"
  /\ held' = FALSE /\ device' = Tail(device)
  /\ wk_pc' = "done"
  /\ UNCHANGED <<signalled, unsignalled, captures, chunk, base_frame, streamVars,
                 event_frames, mainVars>>

\* The loop goes on until the device has nothing left.
BugOnePerEvent == "check"
AfterRelease == "size"

ReleaseBuffer ==
  /\ wk_pc = "packetize" /\ base_frame = chunk
  /\ held' = FALSE /\ device' = Tail(device)
  /\ wk_pc' = AfterRelease
  /\ UNCHANGED <<signalled, unsignalled, captures, chunk, base_frame, streamVars,
                 event_frames, mainVars>>

\* The device refuses the buffer it is given back: the thread returns the error.
ReleaseFails ==
  /\ wk_pc = "release" \/ (wk_pc = "packetize" /\ base_frame = chunk)
  /\ held' = FALSE
  /\ wk_pc' = "done"
  /\ UNCHANGED <<deviceVars, chunk, base_frame, streamVars, event_frames, mainVars>>

-----------------------------------------------------------------------------
(* The main thread: every 50 ms it looks at the clock and at the worker.   *)

\* --duration-sec is over,
DurationElapsed ==
  /\ main_pc = "loop"
  /\ stop' = TRUE /\ main_pc' = "join"
  /\ UNCHANGED <<deviceVars, workerVars>>

\* or the worker has returned.
BugIgnoreWorker == FALSE
WorkerIsFinished == wk_pc = "done"

SeesWorkerFinished ==
  /\ main_pc = "loop" /\ WorkerIsFinished
  /\ stop' = TRUE /\ main_pc' = "join"
  /\ UNCHANGED <<deviceVars, workerVars>>

Join ==
  /\ main_pc = "join" /\ wk_pc = "done"
  /\ main_pc' = "exit"
  /\ UNCHANGED <<deviceVars, workerVars, stop>>

-----------------------------------------------------------------------------
Device == DeviceSignals \/ \E n \in CaptureSizes : DeviceCaptures(n)
Worker ==
  \/ CheckStop \/ WaitSignalled \/ WaitTimeout \/ CallFails
  \/ GetNextPacketSize \/ GetBuffer \/ GetBufferEmpty \/ GetBufferNull
  \/ SendPacket \/ SendWouldBlock \/ SendError \/ ReadFails
  \/ ReleaseAndFail \/ ReleaseBuffer \/ ReleaseFails
Main == DurationElapsed \/ SeesWorkerFinished \/ Join

Next == Device \/ Worker \/ Main

Spec == Init /\ [][Next]_vars

\* The threads keep running, the device sets its event, and a device that has a
\* packet does not answer for ever that it has none.
FairSpec ==
  /\ Spec
  /\ WF_vars(DeviceSignals) /\ WF_vars(Worker)
  /\ SF_vars(GetBuffer)
  /\ WF_vars(SeesWorkerFinished) /\ WF_vars(Join)

-----------------------------------------------------------------------------
(* Correctness. *)

\* The capture thread does not wait over captured audio: a packet the device has
\* queued since the drain found it empty still has its event, set or to be set
\* (a timed-out wait does not drain; wasapi.rs:171-192).
NoLostEvent ==
  (wk_pc \in {"check", "wait"} /\ device # <<>>) => signalled \/ unsignalled

\* Stream positions follow the capture: every frame read from the device is in a
\* packet, in its place, or still to be packetized, whether packets were sent or
\* refused, and packet numbers count all of them (packetizer.rs:103-128).
PositionsFollowCapture ==
  wk_pc # "done" =>
    /\ event_frames = sample_position + IF held THEN chunk - base_frame ELSE 0
    /\ sequence = (packets + send_would_block + send_errors) % SeqModulus

\* On every path, those of the errors included, the device is given its buffer back:
\* the thread holds one exactly while it packetizes (wasapi.rs:233-255).
BufferIsReturned == held <=> wk_pc \in {"packetize", "release"}

\* Captured audio is sent on: the device gets back every packet it captured, or
\* the thread ends.
Released == captures - Len(device)
CaptureIsDrained ==
  \A k \in 1 .. MaxCaptures :
    (captures >= k) ~> (Released >= k \/ wk_pc = "done")

\* The program ends when its time is over or its capture thread has failed.
ShutdownCompletes == (stop \/ wk_pc = "done") ~> (main_pc = "exit")
=============================================================================

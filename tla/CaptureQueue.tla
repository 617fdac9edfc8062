------------------------------ MODULE CaptureQueue ------------------------------
(***************************************************************************)
(* The queue between the sender's capture callback and its packet thread:  *)
(* CaptureQueue and CaptureChunk of sender/src/main.rs.  The callback must *)
(* not block: it only tries the mutex, and throws the chunk away when the  *)
(* packet thread holds it.  The packet thread waits on a condition         *)
(* variable, takes a chunk, uses it, and gives its buffer back to the pool *)
(* when the chunk is dropped.                                              *)
(*                                                                         *)
(* A chunk is the number of the callback that captured it; the buffers of  *)
(* the pool are interchangeable, so `free' is how many there are.          *)
(***************************************************************************)
EXTENDS Integers, Sequences, FiniteSets

CONSTANTS
  QueueCapacity,  \* capacity
  Spare,          \* CAPTURE_POOL_SPARE_CHUNKS
  MaxCallbacks    \* bound: number of capture callbacks

ASSUME QueueAssumption ==
  /\ QueueCapacity \in Nat \ {0}         \* asserted in CaptureQueue::new
  /\ Spare \in Nat \ {0}
  /\ MaxCallbacks \in Nat

VARIABLES
  mode,      \* CaptureQueueMode, as given on the command line
  lock,      \* who holds the mutex
  chunks,    \* state.chunks
  free,      \* state.free.len()
  cb_pc,     \* the capture callback
  sn_pc,     \* the packet thread, inside recv_timeout and CaptureChunk::drop
  notified,  \* the packet thread's wait was notified
  captured,  \* callbacks so far; the callback under way has this number
  dropped,   \* chunks recorded by record_dropped_chunk_len
  taken      \* chunks recv_timeout returned, in order

vars == <<mode, lock, chunks, free, cb_pc, sn_pc, notified, captured, dropped, taken>>

PoolCapacity == QueueCapacity + Spare

TypeOK ==
  /\ mode \in {"latest", "fifo"}
  /\ lock \in {"none", "callback", "sender"}
  /\ chunks \in Seq(1 .. MaxCallbacks) /\ taken \in Seq(1 .. MaxCallbacks)
  /\ free \in Nat
  /\ cb_pc \in {"idle", "push"}
  /\ sn_pc \in {"idle", "check", "wait", "relock", "pop", "use", "return"}
  /\ notified \in BOOLEAN
  /\ captured \in 0 .. MaxCallbacks
  /\ dropped \in SUBSET (1 .. MaxCallbacks)

Init ==
  /\ mode \in {"latest", "fifo"}
  /\ lock = "none" /\ chunks = <<>> /\ free = PoolCapacity
  /\ cb_pc = "idle" /\ sn_pc = "idle" /\ notified = FALSE
  /\ captured = 0 /\ dropped = {} /\ taken = <<>>

-----------------------------------------------------------------------------
(* push_input_realtime *)

\* More frames than a pool buffer holds: dropped before the mutex is tried.
CallbackOversize ==
  /\ cb_pc = "idle" /\ captured < MaxCallbacks
  /\ captured' = captured + 1
  /\ dropped' = dropped \cup {captured + 1}
  /\ UNCHANGED <<mode, lock, chunks, free, cb_pc, sn_pc, notified, taken>>

\* try_lock fails: a lock miss.
CallbackLockMiss ==
  /\ cb_pc = "idle" /\ captured < MaxCallbacks /\ lock # "none"
  /\ captured' = captured + 1
  /\ dropped' = dropped \cup {captured + 1}
  /\ UNCHANGED <<mode, lock, chunks, free, cb_pc, sn_pc, notified, taken>>

CallbackLock ==
  /\ cb_pc = "idle" /\ captured < MaxCallbacks /\ lock = "none"
  /\ lock' = "callback" /\ cb_pc' = "push" /\ captured' = captured + 1
  /\ UNCHANGED <<mode, chunks, free, sn_pc, notified, dropped, taken>>

\* The rest of the callback, under the mutex.  A full queue gives up its oldest
\* chunk and reuses its buffer (Latest) or refuses the new one (Fifo).
QueueIsFull == Len(chunks) >= QueueCapacity

BugNoNotify == notified
AfterNotify == notified \/ sn_pc = "wait"     \* ready.notify_one()

EnqueueAs(queue, buffers, lost) ==
  /\ chunks' = Append(queue, captured)
  /\ free' = buffers
  /\ dropped' = dropped \cup lost
  /\ notified' = AfterNotify

BugReplaceUncounted == EnqueueAs(Tail(chunks), free, {})
ReplaceOldest == EnqueueAs(Tail(chunks), free, {Head(chunks)})

RefuseChunk ==
  dropped' = dropped \cup {captured} /\ UNCHANGED <<chunks, free, notified>>

CallbackPush ==
  /\ cb_pc = "push"
  /\ \/ QueueIsFull /\ mode = "latest" /\ ReplaceOldest
     \/ (IF QueueIsFull THEN mode = "fifo" ELSE free = 0) /\ RefuseChunk
     \/ ~QueueIsFull /\ free > 0 /\ EnqueueAs(chunks, free - 1, {})
  /\ lock' = "none" /\ cb_pc' = "idle"
  /\ UNCHANGED <<mode, sn_pc, captured, taken>>

-----------------------------------------------------------------------------
(* recv_timeout *)

Acquire(from, to) ==
  /\ sn_pc = from /\ lock = "none"
  /\ lock' = "sender" /\ sn_pc' = to
  /\ UNCHANGED <<mode, chunks, free, cb_pc, notified, captured, dropped, taken>>

BugTakeNewest ==
  /\ chunks # <<>>
  /\ chunks' = SubSeq(chunks, 1, Len(chunks) - 1)
  /\ taken' = Append(taken, chunks[Len(chunks)])
  /\ lock' = "none" /\ sn_pc' = "use"
  /\ UNCHANGED <<mode, free, cb_pc, notified, captured, dropped>>
TakeOldest ==
  /\ chunks # <<>>
  /\ chunks' = Tail(chunks) /\ taken' = Append(taken, Head(chunks))
  /\ lock' = "none" /\ sn_pc' = "use"
  /\ UNCHANGED <<mode, free, cb_pc, notified, captured, dropped>>

RecvLock == Acquire("idle", "check")

\* Nothing queued: wait_timeout releases the mutex.
RecvWait ==
  /\ sn_pc = "check" /\ chunks = <<>>
  /\ lock' = "none" /\ sn_pc' = "wait" /\ notified' = FALSE
  /\ UNCHANGED <<mode, chunks, free, cb_pc, captured, dropped, taken>>

RecvReady == sn_pc = "check" /\ TakeOldest

\* Notified, timed out after 100 ms or woken for no reason.
RecvWake ==
  /\ sn_pc = "wait"
  /\ sn_pc' = "relock"
  /\ UNCHANGED <<mode, lock, chunks, free, cb_pc, notified, captured, dropped, taken>>

RecvRelock == Acquire("relock", "pop")

RecvPop == sn_pc = "pop" /\ TakeOldest

\* Still nothing: recv_timeout returns None and the loop comes round again.
RecvNone ==
  /\ sn_pc = "pop" /\ chunks = <<>>
  /\ lock' = "none" /\ sn_pc' = "idle"
  /\ UNCHANGED <<mode, chunks, free, cb_pc, notified, captured, dropped, taken>>

(* CaptureChunk::drop, when the packet thread is done with the chunk. *)

DropLock == Acquire("use", "return")

BugBufferLost == free
FreeAfterReturn == IF free < PoolCapacity THEN free + 1 ELSE free

BugReturnKeepsLock ==
  /\ sn_pc = "return"
  /\ free' = FreeAfterReturn /\ sn_pc' = "idle"
  /\ UNCHANGED <<mode, lock, chunks, cb_pc, notified, captured, dropped, taken>>
DropReturn ==
  /\ sn_pc = "return"
  /\ free' = FreeAfterReturn
  /\ lock' = "none" /\ sn_pc' = "idle"
  /\ UNCHANGED <<mode, chunks, cb_pc, notified, captured, dropped, taken>>

-----------------------------------------------------------------------------
CallbackNext == CallbackOversize \/ CallbackLockMiss \/ CallbackLock \/ CallbackPush
SenderNext ==
  \/ RecvLock \/ RecvWait \/ RecvReady \/ RecvWake \/ RecvRelock \/ RecvPop
  \/ RecvNone \/ DropLock \/ DropReturn

Next == CallbackNext \/ SenderNext

Spec == Init /\ [][Next]_vars

\* The packet thread keeps running and the callback finishes once it has the
\* mutex; a blocking Mutex::lock returns when the mutex keeps becoming free.
Fairness ==
  /\ WF_vars(CallbackPush)
  /\ WF_vars(RecvWait \/ RecvReady \/ RecvWake \/ RecvPop \/ RecvNone \/ DropReturn)
  /\ SF_vars(RecvLock \/ RecvRelock \/ DropLock)

FairSpec == Spec /\ Fairness

-----------------------------------------------------------------------------
(* Correctness. *)

Held == IF sn_pc \in {"use", "return"} THEN 1 ELSE 0

\* No buffer of the pool is lost or made up: they are free, queued or with the
\* packet thread (main.rs:381-424, 547-563).
PoolIsConserved == free + Len(chunks) + Held = PoolCapacity

\* The callback never finds the pool dry, so a chunk is refused only by a full
\* queue, an oversized callback or a lock miss (main.rs:398).
PoolNeverDry == ~QueueIsFull => free > 0

\* Every chunk captured is queued, taken, counted as dropped or in the hands of
\* the callback, and is only one of these: the drop counter is exact.
Entries(s) == {s[i] : i \in 1 .. Len(s)}
InCallback == IF cb_pc = "push" THEN {captured} ELSE {}
EveryChunkIsAccountedFor ==
  /\ Entries(chunks) \cup Entries(taken) \cup dropped \cup InCallback = 1 .. captured
  /\ Len(chunks) + Len(taken) + Cardinality(dropped) + Cardinality(InCallback) = captured

\* The packet thread does not sleep over a queued chunk: if it waits with
\* something in the queue, it has been notified (main.rs:423, 473).
NoLostWakeup == (sn_pc = "wait" /\ chunks # <<>>) => notified

\* The queue loses chunks but keeps the order of the rest.
Fifo == INSTANCE LossyFifo WITH
  Bound   <- QueueCapacity,
  offered <- IF cb_pc = "push" THEN captured - 1 ELSE captured,
  queue   <- chunks,
  taken   <- taken
IsLossyFifo == Fifo!FifoSpec

\* Every queued chunk is sent on or given up for a newer one.
QueuedIsHandled ==
  \A c \in 1 .. MaxCallbacks :
    (c \in Entries(chunks)) ~> (c \notin Entries(chunks))
=============================================================================

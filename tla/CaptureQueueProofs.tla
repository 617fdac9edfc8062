--------------------------- MODULE CaptureQueueProofs ---------------------------
(***************************************************************************)
(* Proofs about CaptureQueue, for every capacity, pool size and number of  *)
(* callbacks and for both overflow modes.                                  *)
(***************************************************************************)
EXTENDS CaptureQueue, SharedLemmas

\* The queue never grows past its capacity.
QueueIsBounded == Len(chunks) <= QueueCapacity

\* The callback under way has captured something.
PushHasChunk == cb_pc = "push" => captured > 0

\* The inductive invariant: the number of free buffers can only be told from the
\* queue's length and from whether the packet thread holds a chunk, and the
\* queue's bound is what leaves a buffer over.
PoolInv == TypeOK /\ PushHasChunk /\ QueueIsBounded /\ PoolIsConserved

\* Every step of either thread keeps the pool's accounts.
LEMMA PoolStep == PoolInv /\ [Next]_vars => PoolInv'
<1> SUFFICES ASSUME PoolInv, [Next]_vars PROVE PoolInv'
  OBVIOUS
<1> USE QueueAssumption
<1>0. /\ TypeOK /\ PushHasChunk /\ QueueIsBounded /\ PoolIsConserved
      /\ Len(chunks) \in Nat /\ free \in Nat /\ captured \in Nat
      /\ PoolCapacity \in Nat
  BY QueueLengths DEF PoolInv, TypeOK, PoolCapacity
<1> DEFINE Item == 1 .. MaxCallbacks
<1>1. CASE CallbackOversize \/ CallbackLockMiss
  <2>1. /\ UNCHANGED <<mode, lock, chunks, free, cb_pc, sn_pc, notified, taken>>
        /\ captured < MaxCallbacks /\ captured' = captured + 1 /\ cb_pc = "idle"
        /\ dropped' = dropped \cup {captured + 1}
    BY <1>1 DEF CallbackOversize, CallbackLockMiss
  <2>2. captured + 1 \in Item /\ captured + 1 \in 0 .. MaxCallbacks
    BY <1>0, <2>1
  <2>3. dropped' \in SUBSET Item
    BY <1>0, <2>1, <2>2 DEF TypeOK
  <2>4. captured' \in 0 .. MaxCallbacks
    BY <2>1, <2>2
  <2>5. TypeOK'
    BY <1>0, <2>1, <2>3, <2>4 DEF TypeOK
  <2>6. PushHasChunk' /\ QueueIsBounded' /\ PoolIsConserved'
    BY <1>0, <2>1 DEF PushHasChunk, QueueIsBounded, PoolIsConserved, Held
  <2> QED BY <2>5, <2>6 DEF PoolInv
<1>2. CASE CallbackLock
  BY <1>0, <1>2 DEF PoolInv, TypeOK, PushHasChunk, QueueIsBounded, PoolIsConserved,
                    Held, CallbackLock
<1>3. CASE CallbackPush
  <2>1. /\ UNCHANGED <<mode, sn_pc, captured, taken>> /\ lock' = "none" /\ cb_pc' = "idle"
        /\ captured \in Item
    BY <1>0, <1>3 DEF CallbackPush, TypeOK, PushHasChunk
  <2>2. ASSUME NEW q \in Seq(Item), NEW b \in Nat, NEW lost \in SUBSET Item,
               EnqueueAs(q, b, lost),
               Len(q) + 1 <= QueueCapacity,
               b + Len(q) + 1 = free + Len(chunks)
        PROVE  PoolInv'
    <3>1. /\ Len(q) \in Nat
          /\ Append(q, captured) \in Seq(Item)
          /\ Len(Append(q, captured)) = Len(q) + 1
      BY <2>1, QueueLengths
    <3>2. /\ chunks' = Append(q, captured) /\ free' = b
          /\ dropped' = dropped \cup lost /\ notified' \in BOOLEAN
      BY <2>2 DEF EnqueueAs, AfterNotify
    <3>3. TypeOK' /\ PushHasChunk'
      <4>1. chunks' \in Seq(Item) /\ free' \in Nat /\ dropped' \in SUBSET Item
        BY <1>0, <2>2, <3>1, <3>2 DEF TypeOK
      <4> QED BY <1>0, <2>1, <3>2, <4>1 DEF TypeOK, PushHasChunk
    <3>4. QueueIsBounded' /\ PoolIsConserved'
      <4>1. Len(chunks') = Len(q) + 1 /\ Held' = Held /\ Held \in Nat
        BY <2>1, <3>1, <3>2 DEF Held
      <4>2. free' + Len(chunks') + Held' = b + (Len(q) + 1) + Held
        BY <3>2, <4>1
      <4> QED BY <1>0, <2>2, <3>1, <4>1, <4>2 DEF QueueIsBounded, PoolIsConserved
    <3> QED BY <3>3, <3>4 DEF PoolInv
  <2>3. CASE QueueIsFull /\ ReplaceOldest
    <3>1. chunks # <<>> /\ chunks \in Seq(Item)
      BY <1>0, <2>3, EmptySeq DEF QueueIsFull, TypeOK
    <3>2. /\ Tail(chunks) \in Seq(Item) /\ Len(Tail(chunks)) = Len(chunks) - 1
          /\ {Head(chunks)} \in SUBSET Item
      BY <3>1, QueueLengths
    <3>3. EnqueueAs(Tail(chunks), free, {Head(chunks)})
      BY <2>3 DEF ReplaceOldest
    <3>4. /\ Len(Tail(chunks)) + 1 <= QueueCapacity
          /\ free + Len(Tail(chunks)) + 1 = free + Len(chunks)
      BY <1>0, <3>2 DEF QueueIsBounded
    <3> QED BY <1>0, <2>2, <3>2, <3>3, <3>4
  <2>4. CASE RefuseChunk
    BY <1>0, <2>1, <2>4 DEF RefuseChunk, PoolInv, TypeOK, PushHasChunk,
                            QueueIsBounded, PoolIsConserved, Held
  <2>5. CASE ~QueueIsFull /\ free > 0 /\ EnqueueAs(chunks, free - 1, {})
    <3>1. chunks \in Seq(Item) /\ free - 1 \in Nat /\ Len(chunks) + 1 <= QueueCapacity
      BY <1>0, <2>5 DEF QueueIsFull, TypeOK
    <3>2. (free - 1) + Len(chunks) + 1 = free + Len(chunks)
      BY <1>0
    <3> QED BY <2>2, <2>5, <3>1, <3>2
  <2> QED BY <1>3, <2>3, <2>4, <2>5 DEF CallbackPush
<1>4. CASE RecvLock \/ RecvRelock \/ DropLock
  BY <1>0, <1>4 DEF RecvLock, RecvRelock, DropLock, Acquire, PoolInv, TypeOK,
                    PushHasChunk, QueueIsBounded, PoolIsConserved, Held
<1>5. CASE RecvWait \/ RecvWake \/ RecvNone
  BY <1>0, <1>5 DEF RecvWait, RecvWake, RecvNone, PoolInv, TypeOK,
                    PushHasChunk, QueueIsBounded, PoolIsConserved, Held
<1>6. CASE RecvReady \/ RecvPop
  <2>1. TakeOldest /\ sn_pc \in {"check", "pop"}
    BY <1>6 DEF RecvReady, RecvPop
  <2>2. /\ chunks' = Tail(chunks) /\ taken' = Append(taken, Head(chunks))
        /\ Len(Tail(chunks)) = Len(chunks) - 1
        /\ Tail(chunks) \in Seq(Item) /\ Append(taken, Head(chunks)) \in Seq(Item)
    <3>1. chunks # <<>> /\ chunks \in Seq(Item) /\ taken \in Seq(Item)
      BY <1>0, <2>1 DEF TakeOldest, TypeOK
    <3>2. Head(chunks) \in Item
      BY <3>1, QueueLengths
    <3> QED BY <2>1, <3>1, <3>2, QueueLengths DEF TakeOldest
  <2>3. TypeOK' /\ PushHasChunk'
    <3>1. chunks' \in Seq(Item) /\ taken' \in Seq(Item)
      BY <2>2
    <3> QED BY <1>0, <2>1, <3>1 DEF TakeOldest, TypeOK, PushHasChunk
  <2>4. QueueIsBounded' /\ PoolIsConserved'
    <3>1. Len(chunks') = Len(chunks) - 1 /\ free' = free /\ Held = 0 /\ Held' = 1
      BY <2>1, <2>2 DEF TakeOldest, Held
    <3>2. free' + Len(chunks') + Held' = free + (Len(chunks) - 1) + 1
      BY <3>1
    <3> QED BY <1>0, <3>1, <3>2 DEF QueueIsBounded, PoolIsConserved
  <2> QED BY <2>3, <2>4 DEF PoolInv
<1>7. CASE DropReturn
  <2>1. free < PoolCapacity
    BY <1>0, <1>7 DEF DropReturn, PoolIsConserved, Held
  <2> QED BY <1>0, <1>7, <2>1 DEF DropReturn, FreeAfterReturn, PoolInv, TypeOK,
                    PushHasChunk, QueueIsBounded, PoolIsConserved, Held
<1>8. CASE UNCHANGED vars
  BY <1>0, <1>8 DEF vars, PoolInv, TypeOK, PushHasChunk, QueueIsBounded,
                    PoolIsConserved, Held
<1> QED BY <1>1, <1>2, <1>3, <1>4, <1>5, <1>6, <1>7, <1>8
        DEF Next, CallbackNext, SenderNext

\* The pool's invariant holds from the start.
LEMMA PoolInvariant == Spec => []PoolInv
<1>1. Init => PoolInv
  <2> SUFFICES ASSUME Init PROVE PoolInv
    OBVIOUS
  <2>1. TypeOK
    <3>1. <<>> \in Seq(1 .. MaxCallbacks)
      BY EmptySeq
    <3>2. PoolCapacity \in Nat /\ 0 \in 0 .. MaxCallbacks
      BY QueueAssumption DEF PoolCapacity
    <3> QED BY <3>1, <3>2 DEF Init, TypeOK
  <2>2. PushHasChunk /\ QueueIsBounded /\ PoolIsConserved
    BY QueueAssumption, EmptySeq DEF Init, PushHasChunk, QueueIsBounded,
       PoolIsConserved, Held, PoolCapacity
  <2> QED BY <2>1, <2>2 DEF PoolInv
<1> QED BY <1>1, PoolStep, PTL DEF Spec

\* No interleaving of the capture callback and the packet thread loses a buffer.
THEOREM PoolConserved == Spec => []PoolIsConserved
<1>1. PoolInv => PoolIsConserved
  BY DEF PoolInv
<1> QED BY <1>1, PoolInvariant, PTL

\* The callback always finds a free buffer when the queue has room: one spare
\* buffer is enough, the code keeps two.
THEOREM PoolIsNeverDry == Spec => []PoolNeverDry
<1>1. PoolInv => PoolNeverDry
  BY QueueAssumption, QueueLengths
     DEF PoolInv, PoolNeverDry, PoolIsConserved, Held, QueueIsFull, PoolCapacity, TypeOK
<1> QED BY <1>1, PoolInvariant, PTL

-----------------------------------------------------------------------------
\* The packet thread never sleeps over a queued chunk without a wake-up on its
\* way: every push happens under the mutex the thread gives up when it waits.
THEOREM WakeupsAreNotLost == Spec => []NoLostWakeup
<1>1. Init => NoLostWakeup
  BY DEF Init, NoLostWakeup
<1>2. NoLostWakeup /\ [Next]_vars => NoLostWakeup'
  <2> SUFFICES ASSUME NoLostWakeup, [Next]_vars PROVE NoLostWakeup'
    OBVIOUS
  <2>1. CASE CallbackPush
    <3>1. CASE RefuseChunk
      BY <2>1, <3>1 DEF NoLostWakeup, CallbackPush, RefuseChunk
    <3>2. ASSUME NEW q, NEW b, NEW lost, EnqueueAs(q, b, lost)
          PROVE  NoLostWakeup'
      BY <2>1, <3>2 DEF NoLostWakeup, CallbackPush, EnqueueAs, AfterNotify
    <3> QED BY <2>1, <3>1, <3>2 DEF CallbackPush, ReplaceOldest
  <2>2. CASE CallbackOversize \/ CallbackLockMiss \/ CallbackLock
    BY <2>2 DEF NoLostWakeup, CallbackOversize, CallbackLockMiss, CallbackLock
  <2>3. CASE RecvLock \/ RecvRelock \/ DropLock
    BY <2>3 DEF NoLostWakeup, RecvLock, RecvRelock, DropLock, Acquire
  <2>4. CASE RecvWait \/ RecvWake \/ RecvNone \/ DropReturn
    BY <2>4 DEF NoLostWakeup, RecvWait, RecvWake, RecvNone, DropReturn
  <2>5. CASE RecvReady \/ RecvPop
    BY <2>5 DEF NoLostWakeup, RecvReady, RecvPop, TakeOldest
  <2>6. CASE UNCHANGED vars
    BY <2>6 DEF NoLostWakeup, vars
  <2> QED BY <2>1, <2>2, <2>3, <2>4, <2>5, <2>6 DEF Next, CallbackNext, SenderNext
<1> QED BY <1>1, <1>2, PTL DEF Spec

-----------------------------------------------------------------------------
\* The chunks whose fate is settled: all but the one the callback is pushing.
Settled == IF cb_pc = "push" THEN captured - 1 ELSE captured

\* The inductive invariant behind the drop counter: a chunk that is evicted must
\* not have been counted before, so the queue may hold no chunk twice and none
\* that was dropped.
ChunkAccounts == Accounts(chunks, Entries(taken), Len(taken), dropped, Settled)

\* Every step of either thread keeps the accounts.
LEMMA ChunkStep == PoolInv /\ ChunkAccounts /\ [Next]_vars => ChunkAccounts'
<1> SUFFICES ASSUME PoolInv, ChunkAccounts, [Next]_vars PROVE ChunkAccounts'
  OBVIOUS
<1> DEFINE Item == 1 .. MaxCallbacks
<1>0. /\ chunks \in Seq(Item) /\ taken \in Seq(Item) /\ captured \in Nat
      /\ Len(taken) \in Nat /\ Settled \in Nat
      /\ cb_pc = "push" => Settled + 1 = captured /\ captured \in Item
      /\ cb_pc = "idle" => Settled = captured
      /\ Accounts(chunks, Entries(taken), Len(taken), dropped, Settled)
  BY QueueLengths, QueueAssumption
     DEF PoolInv, TypeOK, PushHasChunk, Settled, ChunkAccounts
<1> HIDE DEF Item
<1>1. CASE CallbackOversize \/ CallbackLockMiss
  <2>1. /\ UNCHANGED <<chunks, taken>> /\ dropped' = dropped \cup {Settled + 1}
        /\ Settled' = Settled + 1
    BY <1>0, <1>1 DEF CallbackOversize, CallbackLockMiss, Settled
  <2>2. Accounts(chunks, Entries(taken), Len(taken), dropped \cup {Settled + 1}, Settled + 1)
    BY <1>0, AccountsRefuse
  <2> QED BY <2>1, <2>2 DEF ChunkAccounts
<1>2. CASE CallbackPush
  <2>1. cb_pc = "push" /\ captured = Settled + 1 /\ Settled' = captured /\ taken' = taken
        /\ Settled + 1 \in Item
    BY <1>0, <1>2 DEF CallbackPush, Settled
  <2>2. CASE QueueIsFull /\ ReplaceOldest
    <3>1. chunks # <<>>
      BY <2>2, QueueAssumption, EmptySeq DEF QueueIsFull
    <3>2. /\ chunks' = Append(Tail(chunks), Settled + 1)
          /\ dropped' = dropped \cup {Head(chunks)}
      BY <2>1, <2>2 DEF ReplaceOldest, EnqueueAs
    <3>3. /\ Tail(chunks) \in Seq(Item)
          /\ Accounts(Tail(chunks), Entries(taken), Len(taken),
                      dropped \cup {Head(chunks)}, Settled)
      BY <1>0, <3>1, AccountsDiscard, QueueLengths
    <3>4. Accounts(Append(Tail(chunks), Settled + 1), Entries(taken), Len(taken),
                   dropped \cup {Head(chunks)}, Settled + 1)
      BY <1>0, <2>1, <3>3, AccountsAccept
    <3> QED BY <2>1, <3>2, <3>4 DEF ChunkAccounts
  <2>3. CASE RefuseChunk
    <3>1. chunks' = chunks /\ dropped' = dropped \cup {Settled + 1}
      BY <2>1, <2>3 DEF RefuseChunk
    <3>2. Accounts(chunks, Entries(taken), Len(taken), dropped \cup {Settled + 1}, Settled + 1)
      BY <1>0, AccountsRefuse
    <3> QED BY <2>1, <3>1, <3>2 DEF ChunkAccounts
  <2>4. CASE EnqueueAs(chunks, free - 1, {})
    <3>1. chunks' = Append(chunks, Settled + 1) /\ dropped' = dropped
      BY <2>1, <2>4 DEF EnqueueAs
    <3>2. Accounts(Append(chunks, Settled + 1), Entries(taken), Len(taken), dropped, Settled + 1)
      BY <1>0, <2>1, AccountsAccept
    <3> QED BY <2>1, <3>1, <3>2 DEF ChunkAccounts
  <2> QED BY <1>2, <2>2, <2>3, <2>4 DEF CallbackPush
<1>3. CASE RecvReady \/ RecvPop
  <2>1. /\ chunks # <<>> /\ chunks' = Tail(chunks) /\ dropped' = dropped
        /\ taken' = Append(taken, Head(chunks)) /\ Settled' = Settled
    BY <1>3 DEF RecvReady, RecvPop, TakeOldest, Settled
  <2>2. Head(chunks) \in Item
    BY <1>0, <2>1, QueueLengths
  <2>3. Entries(taken') = Entries(taken) \cup {Head(chunks)}
    BY <1>0, <2>1, <2>2, ElementsOfAppend DEF Entries, Elements
  <2>4. Len(taken') = Len(taken) + 1
    BY <1>0, <2>1, <2>2, QueueLengths
  <2>5. Accounts(Tail(chunks), Entries(taken) \cup {Head(chunks)}, Len(taken) + 1,
                 dropped, Settled)
    BY <1>0, <2>1, AccountsTake
  <2> QED BY <2>1, <2>3, <2>4, <2>5 DEF ChunkAccounts
<1>4. CASE \/ CallbackLock \/ RecvLock \/ RecvRelock \/ DropLock \/ RecvWait \/ RecvWake
           \/ RecvNone \/ DropReturn \/ UNCHANGED vars
  <2>1. UNCHANGED <<chunks, taken, dropped, Settled>>
    BY <1>0, <1>4 DEF CallbackLock, RecvLock, RecvRelock, DropLock, Acquire, RecvWait,
       RecvWake, RecvNone, DropReturn, vars, Settled
  <2> QED BY <2>1 DEF ChunkAccounts
<1> QED BY <1>1, <1>2, <1>3, <1>4 DEF Next, CallbackNext, SenderNext

\* The drop counter is exact under every interleaving: a chunk that the callback
\* captured is queued, sent, being pushed or counted as dropped, and never two of
\* these.
THEOREM ChunksAreAccountedFor == Spec => []EveryChunkIsAccountedFor
<1>1. Init => ChunkAccounts
  <2> SUFFICES ASSUME Init PROVE ChunkAccounts
    OBVIOUS
  <2>1. Len(<<>>) = 0 /\ 1 .. 0 = {} /\ IsFiniteSet({}) /\ Cardinality({}) = 0
    BY EmptySeq, FS_EmptySet
  <2>2. /\ chunks = <<>> /\ taken = <<>> /\ dropped = {} /\ Settled = 0
    BY DEF Init, Settled
  <2>3. Elements(chunks) = {} /\ Entries(taken) = {} /\ Len(chunks) = 0 /\ Len(taken) = 0
    BY <2>1, <2>2 DEF Elements, Entries
  <2> QED BY <2>1, <2>2, <2>3 DEF ChunkAccounts, Accounts
<1>2. PoolInv /\ ChunkAccounts => EveryChunkIsAccountedFor
  <2> SUFFICES ASSUME PoolInv, ChunkAccounts PROVE EveryChunkIsAccountedFor
    OBVIOUS
  <2>1. /\ captured \in Nat /\ PushHasChunk /\ Len(chunks) \in Nat /\ Len(taken) \in Nat
        /\ Cardinality(dropped) \in Nat
        /\ Entries(chunks) \cup Entries(taken) \cup dropped = 1 .. Settled
        /\ Len(chunks) + Len(taken) + Cardinality(dropped) = Settled
    BY QueueLengths, FS_CardinalityType
       DEF PoolInv, TypeOK, ChunkAccounts, Accounts, Entries, Elements
  <2>2. CASE cb_pc = "push"
    <3>1. InCallback = {captured} /\ Cardinality(InCallback) = 1 /\ Settled = captured - 1
      BY <2>2, FS_Singleton DEF InCallback, Settled
    <3>2. 1 .. captured = (1 .. captured - 1) \cup {captured}
      BY <2>1, <2>2 DEF PushHasChunk
    <3>3. Settled + 1 = captured
      BY <2>1, <3>1
    <3> QED BY <2>1, <3>1, <3>2, <3>3 DEF EveryChunkIsAccountedFor
  <2>3. CASE cb_pc # "push"
    <3>1. InCallback = {} /\ Cardinality(InCallback) = 0 /\ Settled = captured
      BY <2>3, FS_EmptySet DEF InCallback, Settled
    <3> QED BY <2>1, <3>1 DEF EveryChunkIsAccountedFor
  <2> QED BY <2>2, <2>3
<1> QED BY <1>1, <1>2, ChunkStep, PoolInvariant, PTL DEF Spec

-----------------------------------------------------------------------------
\* A step of either thread is a step of the lossy queue, or changes nothing the
\* lossy queue can see.  A chunk counts as offered once its fate is settled.
LEMMA FifoStep == PoolInv /\ [Next]_vars => [Fifo!FifoNext]_(Fifo!fifoVars)
<1> SUFFICES ASSUME PoolInv, [Next]_vars PROVE [Fifo!FifoNext]_(Fifo!fifoVars)
  OBVIOUS
<1> USE QueueAssumption
<1> DEFINE off == IF cb_pc = "push" THEN captured - 1 ELSE captured
<1>0. /\ TypeOK /\ QueueIsBounded /\ captured \in Nat
      /\ Len(chunks) \in Nat /\ chunks \in Seq(1 .. MaxCallbacks)
  BY QueueLengths DEF PoolInv, TypeOK
<1>1. CASE CallbackOversize \/ CallbackLockMiss
  <2>1. Fifo!Refuse
    BY <1>0, <1>1 DEF CallbackOversize, CallbackLockMiss, Fifo!Refuse
  <2> QED BY <2>1 DEF Fifo!FifoNext
<1>2. CASE CallbackLock
  <2>1. UNCHANGED Fifo!fifoVars
    BY <1>0, <1>2 DEF CallbackLock, Fifo!fifoVars
  <2> QED BY <2>1
<1>3. CASE CallbackPush
  <2>1. /\ off' = off + 1 /\ off + 1 = captured /\ taken' = taken
    BY <1>0, <1>3 DEF CallbackPush
  <2>2. CASE QueueIsFull /\ ReplaceOldest
    <3>1. chunks # <<>>
      BY <1>0, <2>2, EmptySeq DEF QueueIsFull
    <3>2. chunks' = Append(Tail(chunks), captured)
      BY <2>2 DEF ReplaceOldest, EnqueueAs
    <3>3. Fifo!Accept
      BY <2>1, <3>1, <3>2 DEF Fifo!Accept
    <3> QED BY <3>3 DEF Fifo!FifoNext
  <2>3. CASE RefuseChunk
    <3>1. Fifo!Refuse
      BY <2>1, <2>3 DEF RefuseChunk, Fifo!Refuse
    <3> QED BY <3>1 DEF Fifo!FifoNext
  <2>4. CASE ~QueueIsFull /\ EnqueueAs(chunks, free - 1, {})
    <3>1. Len(chunks) < QueueCapacity
      BY <1>0, <2>4 DEF QueueIsFull
    <3>2. chunks' = Append(chunks, captured)
      BY <2>4 DEF EnqueueAs
    <3>3. Fifo!Accept
      BY <2>1, <3>1, <3>2 DEF Fifo!Accept
    <3> QED BY <3>3 DEF Fifo!FifoNext
  <2> QED BY <1>3, <2>2, <2>3, <2>4 DEF CallbackPush
<1>4. CASE RecvReady \/ RecvPop
  <2>1. Fifo!Take
    BY <1>4 DEF RecvReady, RecvPop, TakeOldest, Fifo!Take
  <2> QED BY <2>1 DEF Fifo!FifoNext
<1>5. CASE RecvLock \/ RecvRelock \/ DropLock
  <2>1. UNCHANGED Fifo!fifoVars
    BY <1>5 DEF RecvLock, RecvRelock, DropLock, Acquire, Fifo!fifoVars
  <2> QED BY <2>1
<1>6. CASE RecvWait \/ RecvWake \/ RecvNone \/ DropReturn \/ UNCHANGED vars
  <2>1. UNCHANGED Fifo!fifoVars
    BY <1>6 DEF RecvWait, RecvWake, RecvNone, DropReturn, vars, Fifo!fifoVars
  <2> QED BY <2>1
<1> QED BY <1>1, <1>2, <1>3, <1>4, <1>5, <1>6 DEF Next, CallbackNext, SenderNext

\* The capture queue implements the lossy queue: whatever the two threads do,
\* chunks reach the packet thread in the order they were captured, none twice,
\* and no more than the capacity wait.
THEOREM CaptureIsLossyFifo == Spec => IsLossyFifo
<1>1. Init => Fifo!FifoInit
  BY DEF Init, Fifo!FifoInit
<1> QED BY <1>1, FifoStep, PoolInvariant, PTL DEF Spec, IsLossyFifo, Fifo!FifoSpec
=============================================================================

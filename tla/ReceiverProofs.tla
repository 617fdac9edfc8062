----------------------------- MODULE ReceiverProofs -----------------------------
(***************************************************************************)
(* Proofs about the receiver's event queue (module ReceiverQueue), for     *)
(* every queue capacity and any number of datagrams, and about the         *)
(* receiver that is built around it (module Receiver).                     *)
(***************************************************************************)
EXTENDS Receiver, JitterBufferProofs, SharedLemmas

\* What the inductive invariant says of the queue: it never grows past its
\* capacity, and once the oldest event is gone the push is sure to succeed, so
\* a push that fails is always the first one for its datagram.
QueueIsBounded == Len(events) <= QueueCapacity
FirstFailure == udp_pc = "pop" => ~dropped_oldest
DatagramInHand == udp_pc # "recv" => arrived > 0

\* The types the argument needs.
QueueTypes ==
  /\ events \in Seq(Event) /\ event_scratch \in Seq(Event) /\ processed \in Seq(Event)
  /\ arrived \in 0 .. MaxDatagrams
  /\ dropped_oldest \in BOOLEAN /\ queue_drops \in Nat

QueueInv ==
  /\ QueueTypes /\ QueueIsBounded /\ FirstFailure /\ DatagramInHand /\ RetrySucceeds

\* The types are kept by every step of either thread.
LEMMA TypesStep == QueueTypes /\ DatagramInHand /\ [QueueNext]_queueVars => QueueTypes'
<1> SUFFICES ASSUME QueueTypes, DatagramInHand, [QueueNext]_queueVars PROVE QueueTypes'
  OBVIOUS
<1> USE ReceiverQueueAssumption
<1>1. ASSUME NEW bad \in BOOLEAN, UdpReceive(bad) PROVE QueueTypes'
  <2>1. arrived' \in 0 .. MaxDatagrams
    BY <1>1 DEF UdpReceive, QueueTypes
  <2> QED BY <1>1, <2>1 DEF UdpReceive, QueueTypes, callbackVars
<1>2. CASE UdpPush
  <2>1. arrived \in Event
    BY <1>2 DEF UdpPush, DatagramInHand, QueueTypes, Event
  <2>2. Append(events, arrived) \in Seq(Event)
    BY <2>1, QueueLengths DEF QueueTypes
  <2> QED BY <1>2, <2>2 DEF UdpPush, QueueTypes, callbackVars
<1>3. CASE UdpPop
  <2>1. events' \in Seq(Event)
    BY <1>3, QueueLengths DEF UdpPop, DropOldest, QueueTypes
  <2> QED BY <1>3, <2>1 DEF UdpPop, QueueTypes, callbackVars
<1>4. CASE UdpRecordDrop
  <2>1. queue_drops' \in Nat
    BY <1>4 DEF UdpRecordDrop, DropsAfter, QueueTypes
  <2> QED BY <1>4, <2>1 DEF UdpRecordDrop, QueueTypes, callbackVars
<1>5. CASE \/ UdpPushFails \/ UdpRecordQueued \/ CallbackStart \/ DrainEnd
           \/ CallbackEnd \/ UNCHANGED queueVars
  BY <1>5 DEF UdpPushFails, UdpRecordQueued, CallbackStart, DrainEnd, CallbackEnd,
              queueVars, QueueTypes, callbackVars, udpVars
<1>6. CASE DrainPop
  <2>1. events' \in Seq(Event) /\ event_scratch' \in Seq(Event)
    BY <1>6, QueueLengths DEF DrainPop, QueueTypes
  <2> QED BY <1>6, <2>1 DEF DrainPop, QueueTypes, udpVars
<1>7. CASE ProcessEvent
  <2>1. processed' \in Seq(Event) /\ event_scratch' \in Seq(Event)
    BY <1>7, QueueLengths DEF ProcessEvent, RestOfScratch, QueueTypes
  <2> QED BY <1>7, <2>1 DEF ProcessEvent, QueueTypes, udpVars
<1> QED BY <1>1, <1>2, <1>3, <1>4, <1>5, <1>6, <1>7
        DEF QueueNext, UdpStep, UdpRecord, CallbackStep

\* The rest of the invariant is kept too: the callback only ever makes room.
LEMMA QueueStep == QueueInv /\ [QueueNext]_queueVars => QueueInv'
<1> SUFFICES ASSUME QueueInv, [QueueNext]_queueVars PROVE QueueInv'
  OBVIOUS
<1> USE ReceiverQueueAssumption
<1> DEFINE Rest == QueueIsBounded /\ FirstFailure /\ DatagramInHand /\ RetrySucceeds
<1>0. /\ QueueTypes /\ Rest
      /\ Len(events) \in Nat /\ arrived \in Nat /\ events \in Seq(Event)
  BY QueueLengths DEF QueueInv, QueueTypes
<1>1. QueueTypes'
  BY <1>0, TypesStep
<1>2. ASSUME Rest' PROVE QueueInv'
  BY <1>1, <1>2 DEF QueueInv
<1>3. ASSUME NEW bad \in BOOLEAN, UdpReceive(bad) PROVE QueueInv'
  <2>1. events' = events /\ udp_pc' = "push" /\ dropped_oldest' = FALSE
        /\ arrived' = arrived + 1 /\ arrived + 1 > 0
    BY <1>0, <1>3 DEF UdpReceive
  <2>2. arrived' > 0
    BY <2>1
  <2>3. QueueIsBounded' /\ FirstFailure' /\ RetrySucceeds' /\ DatagramInHand'
    BY <1>0, <2>1, <2>2 DEF QueueIsBounded, FirstFailure, DatagramInHand,
       RetrySucceeds, QueueIsFull
  <2> QED BY <1>2, <2>3
<1>4. CASE UdpPush
  <2>1. arrived \in Event /\ events' = Append(events, arrived) /\ udp_pc' = "drop"
        /\ arrived' = arrived /\ Len(events) < QueueCapacity /\ udp_pc = "push"
    BY <1>0, <1>4 DEF UdpPush, DatagramInHand, QueueTypes, Event, QueueIsFull
  <2>2. Len(events') = Len(events) + 1
    BY <1>0, <2>1, QueueLengths
  <2>3. Len(events) + 1 <= QueueCapacity
    BY <1>0, <2>1
  <2>4. QueueIsBounded' /\ FirstFailure' /\ RetrySucceeds' /\ DatagramInHand'
    BY <1>0, <2>1, <2>2, <2>3 DEF QueueIsBounded, FirstFailure, DatagramInHand,
       RetrySucceeds
  <2> QED BY <1>2, <2>4
<1>5. CASE UdpPushFails
  <2>1. Rest'
    BY <1>0, <1>5 DEF UdpPushFails, QueueIsBounded, FirstFailure, DatagramInHand,
       RetrySucceeds, QueueIsFull
  <2> QED BY <1>2, <2>1
<1>6. CASE UdpPop
  <2>1. udp_pc = "pop" /\ udp_pc' = "push" /\ arrived' = arrived
    BY <1>6 DEF UdpPop
  <2>2. Len(events') < QueueCapacity
    <3>1. CASE events = <<>>
      BY <1>6, <3>1, EmptySeq DEF UdpPop, DropOldest
    <3>2. CASE events # <<>>
      <4>1. events' = Tail(events) /\ Len(Tail(events)) = Len(events) - 1
        BY <1>0, <1>6, <3>2, QueueLengths DEF UdpPop, DropOldest
      <4>2. Len(events) - 1 < QueueCapacity
        BY <1>0 DEF QueueIsBounded
      <4> QED BY <4>1, <4>2
    <3> QED BY <3>1, <3>2
  <2>3. Len(events') \in Nat
    BY <1>1, QueueLengths DEF QueueTypes
  <2>4. QueueIsBounded' /\ ~QueueIsFull'
    <3>1. PICK n \in Nat : Len(events') = n
      BY <2>3
    <3>2. n < QueueCapacity
      BY <2>2, <3>1
    <3> QED BY <3>1, <3>2 DEF QueueIsBounded, QueueIsFull
  <2>5. FirstFailure' /\ RetrySucceeds' /\ DatagramInHand'
    BY <1>0, <2>1, <2>4 DEF FirstFailure, DatagramInHand, RetrySucceeds
  <2> QED BY <1>2, <2>4, <2>5
<1>7. CASE UdpRecordDrop \/ UdpRecordQueued \/ UNCHANGED queueVars
  <2>1. Rest'
    BY <1>0, <1>7 DEF UdpRecordDrop, UdpRecordQueued, queueVars, QueueIsBounded,
       FirstFailure, DatagramInHand, RetrySucceeds, QueueIsFull
  <2> QED BY <1>2, <2>1
<1>8. CASE CallbackStart \/ DrainEnd \/ ProcessEvent \/ CallbackEnd
  <2>1. Rest'
    BY <1>0, <1>8 DEF CallbackStart, DrainEnd, ProcessEvent, CallbackEnd, udpVars, QueueIsBounded,
       FirstFailure, DatagramInHand, RetrySucceeds, QueueIsFull
  <2> QED BY <1>2, <2>1
<1>9. CASE DrainPop
  <2>1. Len(events') = Len(events) - 1 /\ UNCHANGED udpVars
    BY <1>0, <1>9, QueueLengths DEF DrainPop
  <2>2. /\ Len(events) - 1 <= QueueCapacity
        /\ ~(Len(events) >= QueueCapacity) => ~(Len(events) - 1 >= QueueCapacity)
    BY <1>0 DEF QueueIsBounded
  <2>3. QueueIsBounded' /\ (~QueueIsFull => ~QueueIsFull')
    BY <2>1, <2>2 DEF QueueIsBounded, QueueIsFull
  <2>4. FirstFailure' /\ RetrySucceeds' /\ DatagramInHand'
    BY <1>0, <2>1, <2>3 DEF udpVars, FirstFailure, DatagramInHand, RetrySucceeds
  <2> QED BY <1>2, <2>3, <2>4
<1> QED BY <1>3, <1>4, <1>5, <1>6, <1>7, <1>8, <1>9
        DEF QueueNext, UdpStep, UdpRecord, CallbackStep

\* The queue's invariant holds from the start.
LEMMA QueueInvariant == QueueSpec => []QueueInv
<1>1. QueueInit => QueueInv
  <2> SUFFICES ASSUME QueueInit PROVE QueueInv
    OBVIOUS
  <2>1. <<>> \in Seq(Event) /\ Len(<<>>) = 0 /\ 0 \in 0 .. MaxDatagrams
    BY EmptySeq, ReceiverQueueAssumption
  <2>2. QueueTypes
    BY <2>1 DEF QueueInit, QueueTypes
  <2>3. QueueIsBounded
    BY <2>1, ReceiverQueueAssumption DEF QueueInit, QueueIsBounded
  <2> QED BY <2>2, <2>3 DEF QueueInit, QueueInv, FirstFailure, DatagramInHand, RetrySucceeds
<1> QED BY <1>1, QueueStep, PTL DEF QueueSpec

\* The loop of push_drop_oldest goes round at most once more, whatever the
\* callback does meanwhile.
THEOREM RetryAlwaysSucceeds == QueueSpec => []RetrySucceeds
<1>1. QueueInv => RetrySucceeds
  BY DEF QueueInv
<1> QED BY <1>1, QueueInvariant, PTL

-----------------------------------------------------------------------------
\* Evictions and the drop counter, as an invariant of its own.
LossInv == IsFiniteSet(evicted) /\ LossIsReported

\* A step evicts at most one event, and then leaves a report on its way.
LEMMA LossStep == QueueInv /\ LossInv /\ [QueueNext]_queueVars => LossInv'
<1> SUFFICES ASSUME QueueInv, LossInv, [QueueNext]_queueVars PROVE LossInv'
  OBVIOUS
<1>0. /\ IsFiniteSet(evicted) /\ LossIsReported /\ queue_drops \in Nat
      /\ Cardinality(evicted) \in Nat /\ FirstFailure /\ dropped_oldest \in BOOLEAN
  BY FS_CardinalityType DEF LossInv, QueueInv, QueueTypes
<1>1. CASE UdpPop
  <2>1. /\ udp_pc = "pop" /\ udp_pc' = "push" /\ dropped_oldest' = TRUE
        /\ queue_drops' = queue_drops /\ ~dropped_oldest
    BY <1>0, <1>1 DEF UdpPop, FirstFailure
  <2>2. Unreported = 0 /\ Unreported' = 1
    BY <2>1 DEF Unreported
  <2>3. IsFiniteSet(evicted') /\ Cardinality(evicted') \in Nat
        /\ Cardinality(evicted') <= Cardinality(evicted) + 1
    <3>1. CASE events = <<>>
      BY <1>0, <1>1, <3>1 DEF UdpPop, DropOldest
    <3>2. CASE events # <<>>
      <4>1. evicted' = evicted \cup {Head(events)}
        BY <1>1, <3>2 DEF UdpPop, DropOldest
      <4>2. IsFiniteSet(evicted \cup {Head(events)})
        BY <1>0, FS_AddElement
      <4>3. Cardinality(evicted \cup {Head(events)}) = Cardinality(evicted)
            \/ Cardinality(evicted \cup {Head(events)}) = Cardinality(evicted) + 1
        BY <1>0, FS_AddElement
      <4>4. /\ Cardinality(evicted \cup {Head(events)}) \in Nat
            /\ Cardinality(evicted \cup {Head(events)}) <= Cardinality(evicted) + 1
        BY <1>0, <4>3
      <4> QED BY <4>1, <4>2, <4>4
    <3> QED BY <3>1, <3>2
  <2>4. Cardinality(evicted') <= queue_drops + 1
    <3>1. PICK c \in Nat : Cardinality(evicted') = c
      BY <2>3
    <3>2. c <= Cardinality(evicted) + 1 /\ Cardinality(evicted) <= queue_drops + 0
      BY <1>0, <2>2, <2>3, <3>1 DEF LossIsReported
    <3>3. c <= queue_drops + 1
      BY <1>0, <3>2
    <3> QED BY <3>1, <3>3
  <2> QED BY <2>1, <2>2, <2>3, <2>4 DEF LossInv, LossIsReported
<1>2. CASE UdpRecordDrop
  <2>1. /\ evicted' = evicted /\ udp_pc = "drop" /\ udp_pc' = "count"
        /\ queue_drops' = DropsAfter
    BY <1>2 DEF UdpRecordDrop
  <2>2. Unreported' = 0 /\ DropsAfter + 0 = queue_drops + Unreported
    BY <1>0, <2>1 DEF Unreported, DropsAfter
  <2> QED BY <1>0, <2>1, <2>2 DEF LossInv, LossIsReported
<1>3. ASSUME NEW bad \in BOOLEAN, UdpReceive(bad) PROVE LossInv'
  <2>1. evicted' = evicted /\ queue_drops' = queue_drops /\ Unreported' = Unreported
    BY <1>3 DEF UdpReceive, Unreported
  <2> QED BY <1>0, <2>1 DEF LossInv, LossIsReported
<1>4. CASE UdpPush \/ UdpPushFails \/ UdpRecordQueued
  <2>1. ~(udp_pc = "push" /\ dropped_oldest /\ QueueIsFull)
    BY DEF QueueInv, RetrySucceeds
  <2>2. evicted' = evicted /\ queue_drops' = queue_drops /\ Unreported' = Unreported
    BY <1>4, <2>1 DEF UdpPush, UdpPushFails, UdpRecordQueued, Unreported
  <2> QED BY <1>0, <2>2 DEF LossInv, LossIsReported
<1>5. CASE CallbackStep \/ UNCHANGED queueVars
  <2>1. evicted' = evicted /\ queue_drops' = queue_drops /\ Unreported' = Unreported
    BY <1>5 DEF CallbackStep, CallbackStart, DrainPop, DrainEnd, ProcessEvent,
       CallbackEnd, udpVars, queueVars, Unreported
  <2> QED BY <1>0, <2>1 DEF LossInv, LossIsReported
<1> QED BY <1>1, <1>2, <1>3, <1>4, <1>5 DEF QueueNext, UdpStep, UdpRecord

\* qdrop never understates: an event the queue threw away is always reported.
THEOREM LossIsAlwaysReported == QueueSpec => []LossIsReported
<1>1. QueueInit => LossInv
  <2> SUFFICES ASSUME QueueInit PROVE LossInv
    OBVIOUS
  <2>1. IsFiniteSet({}) /\ Cardinality({}) = 0
    BY FS_EmptySet
  <2> QED BY <2>1 DEF QueueInit, LossInv, LossIsReported, Unreported
<1>2. LossInv => LossIsReported
  BY DEF LossInv
<1> QED BY <1>1, <1>2, LossStep, QueueInvariant, PTL DEF QueueSpec

-----------------------------------------------------------------------------
\* The datagrams the UDP thread is done with, and the events the callback has.
Settled == IF udp_pc \in {"push", "pop"} THEN arrived - 1 ELSE arrived
Drained == Entries(processed) \cup Entries(event_scratch)

\* The inductive invariant: an event that is evicted was never evicted before,
\* because the queue holds no event twice and none that was evicted.
EventAccounts ==
  Accounts(events, Drained, Len(processed) + Len(event_scratch), evicted, Settled)

\* Every step of either thread keeps the accounts.
LEMMA EventStep == QueueInv /\ EventAccounts /\ [QueueNext]_queueVars => EventAccounts'
<1> SUFFICES ASSUME QueueInv, EventAccounts, [QueueNext]_queueVars PROVE EventAccounts'
  OBVIOUS
<1> DEFINE count == Len(processed) + Len(event_scratch)
<1>0. /\ events \in Seq(Event) /\ event_scratch \in Seq(Event) /\ processed \in Seq(Event)
      /\ Len(processed) \in Nat /\ Len(event_scratch) \in Nat /\ count \in Nat
      /\ arrived \in Nat /\ Settled \in Nat
      /\ udp_pc \in {"push", "pop"} => Settled + 1 = arrived /\ arrived \in Event
      /\ udp_pc \notin {"push", "pop"} => Settled = arrived
      /\ Accounts(events, Drained, count, evicted, Settled)
  BY QueueLengths, ReceiverQueueAssumption
     DEF QueueInv, QueueTypes, DatagramInHand, Settled, EventAccounts, Event
<1> HIDE DEF count
<1>1. CASE UdpPush
  <2>1. /\ Settled + 1 \in Event /\ events' = Append(events, Settled + 1)
        /\ UNCHANGED <<Drained, count, evicted>> /\ Settled' = Settled + 1
    BY <1>0, <1>1 DEF UdpPush, Settled, Drained, count, callbackVars
  <2>2. Accounts(Append(events, Settled + 1), Drained, count, evicted, Settled + 1)
    BY <1>0, <2>1, AccountsAccept
  <2> QED BY <2>1, <2>2 DEF EventAccounts, count
<1>2. CASE UdpPop
  <2>1. UNCHANGED <<Drained, count, Settled>>
    BY <1>2 DEF UdpPop, Settled, Drained, count, callbackVars
  <2>2. CASE events = <<>>
    BY <1>0, <1>2, <2>1, <2>2 DEF UdpPop, DropOldest, EventAccounts, count
  <2>3. CASE events # <<>>
    <3>1. events' = Tail(events) /\ evicted' = evicted \cup {Head(events)}
      BY <1>2, <2>3 DEF UdpPop, DropOldest
    <3>2. Accounts(Tail(events), Drained, count, evicted \cup {Head(events)}, Settled)
      BY <1>0, <2>3, AccountsDiscard
    <3> QED BY <2>1, <3>1, <3>2 DEF EventAccounts, count
  <2> QED BY <2>2, <2>3
<1>3. CASE DrainPop
  <2>1. /\ events # <<>> /\ events' = Tail(events) /\ evicted' = evicted
        /\ event_scratch' = Append(event_scratch, Head(events))
        /\ processed' = processed /\ Settled' = Settled
    BY <1>3 DEF DrainPop, udpVars, Settled
  <2>2. Head(events) \in Event
    BY <1>0, <2>1, QueueLengths
  <2>3. Drained' = Drained \cup {Head(events)}
    <3>1. Entries(event_scratch') = Entries(event_scratch) \cup {Head(events)}
      BY <1>0, <2>1, <2>2, ElementsOfAppend, SMTT(30) DEF Entries, Elements
    <3> QED BY <2>1, <3>1 DEF Drained
  <2>4. count' = count + 1
    <3>1. Len(event_scratch') = Len(event_scratch) + 1
      BY <1>0, <2>1, <2>2, QueueLengths
    <3> QED BY <1>0, <2>1, <3>1 DEF count
  <2>5. Accounts(Tail(events), Drained \cup {Head(events)}, count + 1, evicted, Settled)
    BY <1>0, <2>1, AccountsTake
  <2> QED BY <2>1, <2>3, <2>4, <2>5 DEF EventAccounts, count
<1>4. CASE ProcessEvent
  <2>1. /\ event_scratch # <<>> /\ UNCHANGED <<events, evicted, Settled>>
        /\ processed' = Append(processed, Head(event_scratch))
        /\ event_scratch' = Tail(event_scratch)
    BY <1>4 DEF ProcessEvent, RestOfScratch, udpVars, Settled
  <2>2. Head(event_scratch) \in Event
    BY <1>0, <2>1, QueueLengths
  <2>3. Drained' = Drained
    <3>1. Entries(processed') = Entries(processed) \cup {Head(event_scratch)}
      BY <1>0, <2>1, <2>2, ElementsOfAppend DEF Entries, Elements
    <3>2. Elements(event_scratch)
            = {Head(event_scratch)} \cup Elements(Tail(event_scratch))
      BY <1>0, <2>1, ElementsOfTail
    <3>3. Entries(event_scratch) = {Head(event_scratch)} \cup Entries(event_scratch')
      BY <2>1, <3>2 DEF Entries, Elements
    <3> QED BY <3>1, <3>3 DEF Drained
  <2>4. count' = count
    <3>1. /\ Len(processed') = Len(processed) + 1
          /\ Len(event_scratch') = Len(event_scratch) - 1
      BY <1>0, <2>1, <2>2, QueueLengths
    <3> QED BY <1>0, <3>1 DEF count
  <2> QED BY <1>0, <2>1, <2>3, <2>4 DEF EventAccounts, count
<1>5. ASSUME NEW bad \in BOOLEAN, UdpReceive(bad) PROVE EventAccounts'
  <2>1. UNCHANGED <<events, evicted, Drained, count, Settled>>
    BY <1>0, <1>5 DEF UdpReceive, callbackVars, Drained, count, Settled
  <2> QED BY <1>0, <2>1 DEF EventAccounts, count
<1>6. CASE \/ UdpPushFails \/ UdpRecordDrop \/ UdpRecordQueued \/ CallbackStart
           \/ DrainEnd \/ CallbackEnd \/ UNCHANGED queueVars
  <2>1. UNCHANGED <<events, evicted, Drained, count, Settled>>
    BY <1>6 DEF UdpPushFails, UdpRecordDrop, UdpRecordQueued, CallbackStart, DrainEnd,
       CallbackEnd, queueVars, callbackVars, udpVars, Drained, count, Settled
  <2> QED BY <1>0, <2>1 DEF EventAccounts, count
<1> QED BY <1>1, <1>2, <1>3, <1>4, <1>5, <1>6
        DEF QueueNext, UdpStep, UdpRecord, CallbackStep

\* The accounts balance in every reachable state.
LEMMA EventsInvariant == QueueSpec => []EventAccounts
<1>1. QueueInit => EventAccounts
  <2> SUFFICES ASSUME QueueInit PROVE EventAccounts
    OBVIOUS
  <2>1. Len(<<>>) = 0 /\ 1 .. 0 = {} /\ IsFiniteSet({}) /\ Cardinality({}) = 0
    BY EmptySeq, FS_EmptySet
  <2>2. /\ events = <<>> /\ processed = <<>> /\ event_scratch = <<>> /\ evicted = {}
        /\ Settled = 0
    BY DEF QueueInit, Settled
  <2>3. /\ Elements(events) = {} /\ Drained = {} /\ Len(events) = 0
        /\ Len(processed) + Len(event_scratch) = 0
    BY <2>1, <2>2 DEF Elements, Entries, Drained
  <2> QED BY <2>1, <2>2, <2>3 DEF EventAccounts, Accounts
<1> QED BY <1>1, EventStep, QueueInvariant, PTL DEF QueueSpec

\* No datagram is unaccounted for, whatever the UDP thread and the callback do at
\* the same time: each one is processed, drained, queued, evicted or in hand, and
\* only one of these.
THEOREM DatagramsAreAccountedFor == QueueSpec => []EveryDatagramIsAccountedFor
<1>1. QueueInv /\ EventAccounts => EveryDatagramIsAccountedFor
  <2> SUFFICES ASSUME QueueInv, EventAccounts PROVE EveryDatagramIsAccountedFor
    OBVIOUS
  <2>1. /\ arrived \in Nat /\ DatagramInHand /\ Len(events) \in Nat
        /\ Len(processed) \in Nat /\ Len(event_scratch) \in Nat
        /\ Cardinality(evicted) \in Nat
        /\ Entries(events) \cup Drained \cup evicted = 1 .. Settled
        /\ Len(events) + (Len(processed) + Len(event_scratch)) + Cardinality(evicted)
             = Settled
    BY QueueLengths, FS_CardinalityType
       DEF QueueInv, QueueTypes, EventAccounts, Accounts, Entries, Elements
  <2>2. CASE udp_pc \in {"push", "pop"}
    <3>1. Unsettled = {arrived} /\ Cardinality(Unsettled) = 1 /\ Settled = arrived - 1
      BY <2>2, FS_Singleton DEF Unsettled, Settled
    <3>2. 1 .. arrived = (1 .. arrived - 1) \cup {arrived}
      BY <2>1, <2>2 DEF DatagramInHand
    <3>3. /\ Len(processed) + Len(event_scratch) + Len(events) + Cardinality(evicted)
               + Cardinality(Unsettled) = arrived
      BY <2>1, <3>1
    <3> QED BY <2>1, <3>1, <3>2, <3>3 DEF EveryDatagramIsAccountedFor, Drained
  <2>3. CASE udp_pc \notin {"push", "pop"}
    <3>1. Unsettled = {} /\ Cardinality(Unsettled) = 0 /\ Settled = arrived
      BY <2>3, FS_EmptySet DEF Unsettled, Settled
    <3>2. /\ Len(processed) + Len(event_scratch) + Len(events) + Cardinality(evicted)
               + Cardinality(Unsettled) = arrived
      BY <2>1, <3>1
    <3> QED BY <2>1, <3>1, <3>2 DEF EveryDatagramIsAccountedFor, Drained
  <2> QED BY <2>2, <2>3
<1> QED BY <1>1, EventsInvariant, QueueInvariant, PTL

-----------------------------------------------------------------------------
\* Every step of either thread is a step of the lossy queue or invisible to it.
LEMMA FifoStep == QueueInv /\ [QueueNext]_queueVars => [Fifo!FifoNext]_(Fifo!fifoVars)
<1> SUFFICES ASSUME QueueInv, [QueueNext]_queueVars PROVE [Fifo!FifoNext]_(Fifo!fifoVars)
  OBVIOUS
<1> DEFINE off == IF udp_pc \in {"push", "pop"} THEN arrived - 1 ELSE arrived
<1> DEFINE got == processed \o event_scratch
<1>0. /\ events \in Seq(Event) /\ event_scratch \in Seq(Event)
      /\ processed \in Seq(Event) /\ arrived \in Nat /\ Len(events) \in Nat
      /\ QueueCapacity \in Nat
  BY QueueLengths, ReceiverQueueAssumption DEF QueueInv, QueueTypes
<1>1. ASSUME NEW bad \in BOOLEAN, UdpReceive(bad) PROVE [Fifo!FifoNext]_(Fifo!fifoVars)
  <2>1. UNCHANGED Fifo!fifoVars
    BY <1>0, <1>1 DEF UdpReceive, callbackVars, Fifo!fifoVars
  <2> QED BY <2>1
<1>2. CASE UdpPush
  <2>1. off' = off + 1 /\ off + 1 = arrived
    BY <1>0, <1>2 DEF UdpPush
  <2>2. Len(events) < QueueCapacity
    BY <1>0, <1>2 DEF UdpPush, QueueIsFull
  <2>3. events' = Append(events, arrived) /\ got' = got
    BY <1>2 DEF UdpPush, callbackVars
  <2>4. Fifo!Accept
    BY <2>1, <2>2, <2>3 DEF Fifo!Accept
  <2> QED BY <2>4 DEF Fifo!FifoNext
<1>3. CASE UdpPop
  <2>1. off' = off /\ got' = got
    BY <1>3 DEF UdpPop, callbackVars
  <2>2. CASE events = <<>>
    <3>1. events' = events
      BY <1>3, <2>2 DEF UdpPop, DropOldest
    <3>2. UNCHANGED Fifo!fifoVars
      BY <2>1, <3>1 DEF Fifo!fifoVars
    <3> QED BY <3>2
  <2>3. CASE events # <<>>
    <3>1. events' = Tail(events)
      BY <1>3, <2>3 DEF UdpPop, DropOldest
    <3>2. Fifo!Discard
      BY <2>1, <2>3, <3>1 DEF Fifo!Discard
    <3> QED BY <3>2 DEF Fifo!FifoNext
  <2> QED BY <2>2, <2>3
<1>4. CASE UdpPushFails \/ UdpRecordDrop \/ UdpRecordQueued
  <2>1. UNCHANGED Fifo!fifoVars
    BY <1>4 DEF UdpPushFails, UdpRecordDrop, UdpRecordQueued, callbackVars, Fifo!fifoVars
  <2> QED BY <2>1
<1>5. CASE CallbackStart \/ DrainEnd \/ CallbackEnd \/ UNCHANGED queueVars
  <2>1. UNCHANGED Fifo!fifoVars
    BY <1>5 DEF CallbackStart, DrainEnd, CallbackEnd, udpVars, queueVars, Fifo!fifoVars
  <2> QED BY <2>1
<1>6. CASE DrainPop
  <2>1. events # <<>> /\ events' = Tail(events) /\ off' = off /\ processed' = processed
        /\ event_scratch' = Append(event_scratch, Head(events))
    BY <1>6 DEF DrainPop, udpVars
  <2>2. Head(events) \in Event
    BY <1>0, <2>1, QueueLengths
  <2>3. processed \o Append(event_scratch, Head(events)) = Append(got, Head(events))
    <3>1. /\ Append(event_scratch, Head(events)) = event_scratch \o <<Head(events)>>
          /\ Append(got, Head(events)) = got \o <<Head(events)>>
      BY <1>0, <2>2, AppendIsConcat, ConcatProperties
    <3>2. <<Head(events)>> \in Seq(Event)
      BY <2>2
    <3> QED BY <1>0, <3>1, <3>2, ConcatAssociative
  <2>4. Fifo!Take
    BY <2>1, <2>3 DEF Fifo!Take
  <2> QED BY <2>4 DEF Fifo!FifoNext
<1>7. CASE ProcessEvent
  <2>1. /\ event_scratch # <<>> /\ events' = events /\ off' = off
        /\ processed' = Append(processed, Head(event_scratch))
        /\ event_scratch' = Tail(event_scratch)
    BY <1>7 DEF ProcessEvent, RestOfScratch, udpVars
  <2>2. Append(processed, Head(event_scratch)) \o Tail(event_scratch) = got
    BY <1>0, <2>1, MoveHead
  <2>3. UNCHANGED Fifo!fifoVars
    BY <2>1, <2>2 DEF Fifo!fifoVars
  <2> QED BY <2>3
<1> QED BY <1>1, <1>2, <1>3, <1>4, <1>5, <1>6, <1>7
        DEF QueueNext, UdpStep, UdpRecord, CallbackStep

\* The receiver's queue implements the lossy queue: the jitter buffer is handed
\* events in the order they arrived, none twice.
THEOREM ReceiverIsLossyFifo == QueueSpec => IsLossyFifo
<1>1. QueueInit => Fifo!FifoInit
  <2> SUFFICES ASSUME QueueInit PROVE Fifo!FifoInit
    OBVIOUS
  <2>1. <<>> \o <<>> = <<>>
    BY ConcatEmptySeq, EmptySeq
  <2> QED BY <2>1 DEF QueueInit, Fifo!FifoInit
<1> QED BY <1>1, FifoStep, QueueInvariant, PTL DEF QueueSpec, IsLossyFifo, Fifo!FifoSpec

-----------------------------------------------------------------------------
(* The receiver around the queue. *)

\* Whatever the callback does to the jitter buffer, to the queue it is a step of
\* the callback, and a datagram is a datagram whatever it holds.
LEMMA ReceiverQueueStep == [ReceiverNext]_rxVars => [QueueNext]_queueVars
<1> SUFFICES ASSUME [ReceiverNext]_rxVars PROVE [QueueNext]_queueVars
  OBVIOUS
<1>1. ASSUME NEW sent, NEW event, Receive(sent, event) PROVE QueueNext
  BY <1>1 DEF Receive, QueueNext
<1>2. CASE UdpThread
  BY <1>2 DEF UdpThread, QueueNext
<1>3. CASE BeginCallback \/ Drain \/ ProcessPacket \/ ProcessInvalid
  BY <1>3 DEF BeginCallback, Drain, ProcessPacket, ProcessInvalid, QueueNext, CallbackStep
<1>4. ASSUME NEW n \in RenderSizes, Render(n) PROVE QueueNext
  BY <1>4 DEF Render, QueueNext, CallbackStep
<1>5. CASE Trim \/ Time \/ UNCHANGED rxVars
  BY <1>5 DEF Trim, Time, rxVars
<1> QED BY <1>1, <1>2, <1>3, <1>4, <1>5
        DEF ReceiverNext, ReceivePacket, ReceiveStray, Callback

\* The receiver drives its queue the way module ReceiverQueue says, so what is
\* proved of the queue holds in the receiver.
THEOREM ReceiverRunsQueue == ReceiverSpec => QueueSpec
<1>1. ReceiverInit => QueueInit
  BY DEF ReceiverInit
<1> QED BY <1>1, ReceiverQueueStep, PTL DEF ReceiverSpec, QueueSpec

\* In the receiver as a whole, with callbacks that also insert, trim and render:
\* no push is tried a third time, no loss goes unreported, no datagram goes
\* missing, and the jitter buffer gets events in the order they arrived.
THEOREM ReceiverKeepsQueue ==
  ReceiverSpec => /\ [](RetrySucceeds /\ LossIsReported /\ EveryDatagramIsAccountedFor)
                  /\ IsLossyFifo
<1> QED BY ReceiverRunsQueue, RetryAlwaysSucceeds, LossIsAlwaysReported,
           DatagramsAreAccountedFor, ReceiverIsLossyFifo, PTL

-----------------------------------------------------------------------------
(* The jitter buffer inside the receiver. *)

\* What the UDP thread makes of a packet that was sent, or of something else.
Outcome(sent) ==
  IF sent # None /\ HEADER_SIZE + sent.frames * CHANNELS * 2 <= RecvBuffer
    THEN Ok(PacketOf(sent)) ELSE Err

\* A packet that a sender makes has a header that from_bytes accepts, as many
\* samples as it says and is that long.
LEMMA PacketOfFacts ==
  ASSUME NEW d \in Sent
  PROVE  LET h == PacketOf(d).header
             payload == PacketOf(d).payload
         IN /\ IsHeader(h) /\ h.frames = d.frames /\ d.frames \in Nat
            /\ HasLen(payload, 2 * h.frames)
            /\ \A i \in 1 .. 2 * h.frames : payload[i] \in Int16
<1> DEFINE h == PacketOf(d).header
<1>1. h = Header(d.stream, SequenceOf(d), d.frames, StartOf(d), 0)
  BY DEF PacketOf
<1>2. FieldsFit(HeaderWritten, h)
  BY SentAssumption
<1>3. h = [name \in Names(HeaderWritten) |-> h[name]]
  BY <1>1, HeaderFormat DEF Header
<1>4. /\ h.version = VERSION /\ h.header_size = HEADER_SIZE
      /\ h.sample_rate = SAMPLE_RATE /\ h.channels = CHANNELS
      /\ h.sample_format = SAMPLE_FORMAT_S16LE /\ h.frames = d.frames
  BY <1>1 DEF Header
<1> HIDE DEF h
<1>5. IsHeader(h)
  BY <1>2, <1>3, <1>4 DEF IsHeader
<1>6. d.frames \in Nat
  BY <1>4, <1>5, FramesIsNat
<1>7. PacketOf(d).payload = Samples(d)
  BY DEF PacketOf
<1>8. HasLen(Samples(d), 2 * d.frames)
  BY <1>6 DEF Samples, HasLen, CHANNELS
<1>9. \A i \in 1 .. 2 * d.frames : Samples(d)[i] \in Int16
  BY SentAssumption DEF CHANNELS
<1> QED BY <1>4, <1>5, <1>6, <1>7, <1>8, <1>9 DEF h

\* The codec does its part: what recv_from leaves of a packet is parsed to the
\* packet or, cut off by the buffer, is refused.
LEMMA SentIsParsed == ASSUME NEW d \in Sent PROVE Parsed[d] = Outcome(d)
<1> DEFINE h == PacketOf(d).header
           payload == PacketOf(d).payload
           full == PacketBytes(h, payload)
           size == 52 + 4 * d.frames
           n == Smaller(size, RecvBuffer)
<1>1. /\ IsHeader(h) /\ h.frames = d.frames /\ d.frames \in Nat
      /\ HasLen(payload, 2 * h.frames)
      /\ \A i \in 1 .. 2 * h.frames : payload[i] \in Int16
  BY PacketOfFacts
<1>2. PacketOf(d) = [header |-> h, payload |-> payload]
  BY DEF PacketOf
<1> HIDE DEF h, payload
<1>3. Len(full) = size
  <2>1. IsPacket(full, h, payload, 2 * h.frames)
    BY <1>1, PacketLayout
  <2>2. HasLen(full, 52 + 2 * (2 * h.frames))
    BY <2>1 DEF IsPacket
  <2> HIDE DEF full
  <2> QED BY <1>1, <2>2 DEF HasLen
<1>4. Parsed[d] = PacketFromBytes(SubSeq(full, 1, n))
  <2>1. Parsed[d] = PacketFromBytes(Received(full))
    BY DEF Parsed, h, payload
  <2> QED BY <1>3, <2>1 DEF Received
<1> HIDE DEF full
<1>5. n \in 0 .. size /\ (n = size <=> size <= RecvBuffer)
  BY <1>1, ReceiverAssumption DEF Smaller
<1>6. PacketFromBytes(SubSeq(full, 1, n)) = IF n = size THEN Ok(PacketOf(d)) ELSE Err
  <2> HIDE DEF n
  <2>1. n \in 0 .. 52 + 4 * h.frames /\ 52 + 4 * h.frames = size
    BY <1>1, <1>5
  <2> HIDE DEF size
  <2> QED BY <1>1, <1>2, <2>1, PacketComesBack DEF full
<1>7. size = HEADER_SIZE + d.frames * CHANNELS * 2
  BY <1>1 DEF HEADER_SIZE, CHANNELS
<1>8. d # None
  BY SentAssumption
<1> HIDE DEF n, size
<1> QED BY <1>4, <1>5, <1>6, <1>7, <1>8 DEF Outcome

\* Anything else is refused.
LEMMA StrayIsRefused == ASSUME NEW bytes \in Strays PROVE ParsedStray[bytes] = Err
<1>1. SubSeq(Received(bytes), 1, 4) # MAGIC
  BY StraysAssumption
<1>2. ParsedStray[bytes] = PacketFromBytes(Received(bytes))
  BY DEF ParsedStray
<1> QED BY <1>1, <1>2 DEF PacketFromBytes

\* What the history says of each datagram; a datagram is not stamped later than
\* now.
Datagram == [sent : Sent \cup {None}, event : {Err} \cup {Ok(PacketOf(d)) : d \in Sent},
             arrival : 0 .. MaxTime]
DatagramInv ==
  /\ now \in 0 .. MaxTime
  /\ datagrams \in Seq(Datagram) /\ Len(datagrams) = arrived
  /\ \A i \in 1 .. arrived : /\ datagrams[i].arrival <= now
                               /\ datagrams[i].event = Outcome(datagrams[i].sent)

\* The step of either thread that touches the clock or the history keeps this.
LEMMA DatagramStep == QueueInv /\ DatagramInv /\ [ReceiverNext]_rxVars => DatagramInv'
<1> SUFFICES ASSUME QueueInv, DatagramInv, [ReceiverNext]_rxVars PROVE DatagramInv'
  OBVIOUS
<1>0. arrived \in Nat /\ MaxTime \in Nat
  BY SizeAssumption, ReceiverQueueAssumption DEF QueueInv, QueueTypes
<1>1. ASSUME NEW sent \in Sent \cup {None}, NEW event, event = Outcome(sent),
             Receive(sent, event)
      PROVE  DatagramInv'
  <2> DEFINE d == [sent |-> sent, event |-> event, arrival |-> now]
  <2>1. /\ arrived' = arrived + 1 /\ datagrams' = Append(datagrams, d) /\ now' = now
    BY <1>1 DEF Receive, UdpReceive, vars
  <2>2. d \in Datagram
    BY <1>1 DEF Datagram, DatagramInv, Outcome
  <2>3. /\ datagrams' \in Seq(Datagram) /\ Len(datagrams') = arrived'
        /\ \A i \in 1 .. arrived : datagrams'[i] = datagrams[i]
        /\ datagrams'[arrived + 1] = d
    BY <1>0, <2>1, <2>2, AppendProperties DEF DatagramInv
  <2>4. d.arrival = now /\ d.event = Outcome(d.sent)
    BY <1>1
  <2> HIDE DEF d
  <2>5. ASSUME NEW i \in 1 .. arrived'
        PROVE  /\ datagrams'[i].arrival <= now'
               /\ datagrams'[i].event = Outcome(datagrams'[i].sent)
    <3>1. CASE i = arrived + 1
      BY <1>0, <2>1, <2>3, <2>4, <3>1 DEF DatagramInv
    <3>2. CASE i \in 1 .. arrived
      BY <2>1, <2>3, <3>2 DEF DatagramInv
    <3>3. i = arrived + 1 \/ i \in 1 .. arrived
      BY <1>0, <2>1, <2>5
    <3> QED BY <3>1, <3>2, <3>3
  <2> QED BY <2>1, <2>3, <2>5 DEF DatagramInv
<1>2. CASE Time
  <2>1. now' = now + 1 /\ now < MaxTime /\ UNCHANGED <<datagrams, arrived>>
    BY <1>2 DEF Time, Tick, queueVars
  <2>2. now' \in 0 .. MaxTime /\ now <= now'
    BY <1>0, <2>1 DEF DatagramInv
  <2>3. ASSUME NEW i \in 1 .. arrived
        PROVE  datagrams[i].arrival <= now' /\ datagrams[i].event = Outcome(datagrams[i].sent)
    <3>1. datagrams[i] \in Datagram
      BY <1>0, <2>3, ElementOfSeq DEF DatagramInv
    <3>2. datagrams[i].arrival \in 0 .. MaxTime /\ datagrams[i].arrival <= now
      BY <2>3, <3>1 DEF DatagramInv, Datagram
    <3> QED BY <1>0, <2>2, <3>2 DEF DatagramInv
  <2> QED BY <2>1, <2>2, <2>3 DEF DatagramInv
<1>3. ASSUME UNCHANGED <<now, datagrams, arrived>> PROVE DatagramInv'
  BY <1>3 DEF DatagramInv
<1>4. CASE UdpThread
  <2>1. UNCHANGED arrived
    BY <1>4 DEF UdpThread, UdpStep, UdpPush, UdpPushFails, UdpPop, UdpRecord,
                UdpRecordDrop, UdpRecordQueued
  <2> QED BY <1>3, <1>4, <2>1 DEF UdpThread, vars
<1>5. CASE BeginCallback \/ Drain
  BY <1>3, <1>5 DEF BeginCallback, Drain, CallbackStart, DrainPop, DrainEnd, vars, udpVars
<1>6. CASE ProcessPacket
  <2>1. UNCHANGED <<now, datagrams, arrived>>
    BY <1>6 DEF ProcessPacket, ProcessEvent, udpVars, InsertPacket, RejectForeign,
                StartStream, RejectLate, RejectDuplicate, AcceptPacket
  <2> QED BY <1>3, <2>1
<1>7. CASE ProcessInvalid
  BY <1>3, <1>7 DEF ProcessInvalid, ProcessEvent, udpVars, RecordInvalidPacket
<1>8. CASE Trim
  BY <1>3, <1>8 DEF Trim, TrimToPlayoutBufferBudget, queueVars, vars
<1>9. ASSUME NEW n \in RenderSizes, Render(n) PROVE DatagramInv'
  <2>1. UNCHANGED <<now, datagrams, arrived>>
    BY <1>9 DEF Render, CallbackEnd, udpVars, Pull, PullSilence, PullRender
  <2> QED BY <1>3, <2>1
<1>10. CASE UNCHANGED rxVars
  BY <1>3, <1>10 DEF rxVars, vars, queueVars
<1>11. ASSUME NEW d \in Sent, ReceivePacket(d) PROVE DatagramInv'
  BY <1>1, <1>11, SentIsParsed DEF ReceivePacket
<1>12. ASSUME NEW bytes \in Strays, ReceiveStray(bytes) PROVE DatagramInv'
  <2>1. ParsedStray[bytes] = Outcome(None)
    BY StrayIsRefused DEF Outcome
  <2> QED BY <1>1, <1>12, <2>1 DEF ReceiveStray
<1> QED BY <1>2, <1>4, <1>5, <1>6, <1>7, <1>8, <1>9, <1>10, <1>11, <1>12
        DEF ReceiverNext, Callback

\* The packet the jitter buffer is given is one that was sent.
LEMMA ArgumentIsPacket ==
  ASSUME DatagramInv, QueueInv, ParsedIsSent, NEW i \in 1 .. arrived, datagrams[i].event.ok
  PROVE  InsertArgument(i) \in Packet
<1>1. datagrams[i] \in Datagram
  BY ElementOfSeq DEF DatagramInv, QueueInv, QueueTypes
<1> DEFINE d == datagrams[i].sent
<1>2. d \in Sent \cup {None}
  BY <1>1 DEF Datagram
<1>3. d # None /\ datagrams[i].event = Ok(PacketOf(d))
  BY DEF ParsedIsSent, Err
<1>4. d.stream \in Streams /\ d.number \in 0 .. MaxPacket
  BY <1>2, <1>3, ReceiverAssumption
<1> HIDE DEF d
<1>5. datagrams[i].event.value.header = Header(d.stream, SequenceOf(d), d.frames, StartOf(d), 0)
  BY <1>3 DEF Ok, PacketOf
<1>6. InsertArgument(i) = [stream |-> d.stream, number |-> StartOf(d) \div PacketFrames]
  BY <1>5 DEF InsertArgument, Header
<1>7. StartOf(d) \div PacketFrames = d.number
  <2>1. d.number \in Nat /\ PacketFrames \in Nat \ {0}
    BY <1>4, SizeAssumption
  <2> DEFINE k == d.number
  <2>2. StartOf(d) = k * PacketFrames /\ k \in Nat
    BY <2>1 DEF StartOf
  <2> HIDE DEF k
  <2>3. k * PacketFrames \in Int /\ k * PacketFrames < (k + 1) * PacketFrames
    BY <2>1, <2>2
  <2>4. k <= (k * PacketFrames) \div PacketFrames
        /\ (k * PacketFrames) \div PacketFrames < k + 1
    BY <2>1, <2>2, <2>3, FrameAtLeast, FrameBelow
  <2>5. (k * PacketFrames) \div PacketFrames \in Int
    BY <2>1, <2>3, DivFacts
  <2> QED BY <2>2, <2>4, <2>5 DEF k
<1> QED BY <1>4, <1>6, <1>7 DEF Packet

\* Every step of the receiver is a step of the jitter buffer or leaves it alone:
\* what is inserted are packets that were sent, stamped in the past.
LEMMA ReceiverBufferStep ==
  ASSUME MaxTime <= MaxWait
  PROVE  /\ QueueInv /\ EveryDatagramIsAccountedFor /\ DatagramInv /\ ParsedIsSent
         /\ [ReceiverNext]_rxVars
         => [Next]_vars
<1> SUFFICES ASSUME QueueInv, EveryDatagramIsAccountedFor, DatagramInv, ParsedIsSent,
                    [ReceiverNext]_rxVars
             PROVE  [Next]_vars
  OBVIOUS
<1>1. CASE ProcessPacket
  <2> DEFINE i == Head(event_scratch)
             t == datagrams[i].arrival
  <2>1. event_scratch # <<>> /\ datagrams[i].event.ok /\ InsertPacket(InsertArgument(i), t)
    BY <1>1 DEF ProcessPacket, ProcessEvent
  <2>2. i \in 1 .. arrived
    <3>1. event_scratch \in Seq(Event)
      BY DEF QueueInv, QueueTypes
    <3>2. Elements(event_scratch) = {i} \cup Elements(Tail(event_scratch))
      BY <2>1, <3>1, ElementsOfTail
    <3>3. i \in Entries(event_scratch)
      BY <3>2 DEF Entries, Elements
    <3> QED BY <3>3 DEF EveryDatagramIsAccountedFor
  <2> HIDE DEF i
  <2>3. InsertArgument(i) \in Packet
    BY <2>1, <2>2, ArgumentIsPacket
  <2>4. t \in Arrivals
    <3>1. datagrams[i] \in Datagram
      BY <2>2, ElementOfSeq DEF DatagramInv, QueueInv, QueueTypes
    <3>2. t \in 0 .. MaxTime /\ t <= now /\ now \in 0 .. MaxTime
      BY <2>2, <3>1 DEF DatagramInv, Datagram
    <3> QED BY <3>2, SizeAssumption DEF Arrivals
  <2> QED BY <2>1, <2>3, <2>4 DEF Next
<1>2. CASE ProcessInvalid
  BY <1>2 DEF ProcessInvalid, Next
<1>3. CASE Trim
  BY <1>3 DEF Trim, Next
<1>4. ASSUME NEW n \in RenderSizes, Render(n) PROVE Next
  BY <1>4 DEF Render, Next
<1>5. CASE Time
  BY <1>5 DEF Time, Next
<1>6. ASSUME NEW sent, NEW event, Receive(sent, event) PROVE UNCHANGED vars
  BY <1>6 DEF Receive
<1>7. CASE UdpThread \/ BeginCallback \/ Drain \/ UNCHANGED rxVars
  BY <1>7 DEF UdpThread, BeginCallback, Drain, rxVars
<1> QED BY <1>1, <1>2, <1>3, <1>4, <1>5, <1>6, <1>7
        DEF ReceiverNext, ReceivePacket, ReceiveStray, Callback

\* The history is well formed.
LEMMA DatagramsInvariant == ReceiverSpec => []DatagramInv
<1>1. ReceiverInit => DatagramInv
  <2> SUFFICES ASSUME ReceiverInit PROVE DatagramInv
    OBVIOUS
  <2>1. now = 0 /\ datagrams = <<>> /\ arrived = 0
    BY DEF ReceiverInit, QueueInit, Init
  <2>2. <<>> \in Seq(Datagram) /\ Len(<<>>) = 0
    BY EmptySeq
  <2> QED BY <2>1, <2>2, SizeAssumption DEF DatagramInv
<1> QED BY <1>1, DatagramStep, QueueInvariant, ReceiverRunsQueue, PTL DEF ReceiverSpec

\* A packet that fits the receive buffer is parsed to what its sender sent, to the
\* last sample; anything else on the port is an invalid packet and never audio.
THEOREM PacketsAreParsed == ReceiverSpec => []ParsedIsSent
<1>1. DatagramInv => ParsedIsSent
  BY DEF DatagramInv, ParsedIsSent, Outcome
<1> QED BY <1>1, DatagramsInvariant, PTL

\* The receiver uses its jitter buffer the way module JitterBuffer says, if the
\* bound MaxWait does not bind: whatever is proved of
\* the buffer alone, for any packets in any order, holds inside the receiver.
THEOREM ReceiverRunsBuffer ==
  ASSUME MaxTime <= MaxWait
  PROVE  ReceiverSpec => Spec
<1>1. ReceiverInit => Init
  BY DEF ReceiverInit
<1>2. /\ QueueInv /\ EveryDatagramIsAccountedFor /\ DatagramInv /\ ParsedIsSent
      /\ [ReceiverNext]_rxVars
      => [Next]_vars
  BY ReceiverBufferStep
<1> QED BY <1>1, <1>2, DatagramsInvariant, PacketsAreParsed, QueueInvariant,
           DatagramsAreAccountedFor, ReceiverRunsQueue, PTL DEF ReceiverSpec, Spec

\* So the buffer's guarantees are the receiver's: playback stays within the data
\* there is and behind the newest frame, runs forward, keeps the delay, plays one
\* stream at a time and what was received, and a silence ends.
THEOREM ReceiverKeepsBuffer ==
  ASSUME MaxTime <= MaxWait
  PROVE  ReceiverSpec =>
           /\ [](TypeOK /\ SilenceRunBounded /\ BufferIsCurrentStream
                 /\ ReceivedIsAccountedFor)
           /\ RendersBehindNewest /\ ReaderNeverBacktracks
           /\ ReceivedAudioIsPlayed /\ DelayIsHeld
<1>1. ReceiverSpec => Spec
  BY ReceiverRunsBuffer
<1> QED BY <1>1, TypeCorrect, RendersWithinData, SilenceIsBounded, OneStreamAtATime,
           ReceivedIsKept, ReaderMonotone, ReceivedIsHeard, DelayIsKept, PTL

-----------------------------------------------------------------------------
(* Silence inside the receiver. *)

\* The inductive invariant has two parts.  First, what was queued before the
\* callback began is out of the queue by the time the callback processes:
DueIsDrained ==
  /\ cb_pc # "idle" => due \in Nat /\ due <= Settled
  /\ cb_pc = "process" => \A e \in Entries(events) : due < e

\* second, a packet of the current stream that was processed since the buffer
\* last started over has been delivered to it, or the reader is past it.
Past(p) == EndOf(p) <= read_pos \div Sub
Covered(i) ==
  LET p == InsertArgument(i)
  IN (datagrams[i].event.ok /\ p.stream = stream_id) => StartOf(p) \in delivered \/ Past(p)
ProcessedIsDelivered ==
  /\ start \in 0 .. Len(processed)
  /\ \A j \in start + 1 .. Len(processed) : Covered(processed[j])

\* Either thread's steps keep the first part.
LEMMA DueStep ==
  QueueInv /\ EventAccounts /\ DueIsDrained /\ [ReceiverNext]_rxVars => DueIsDrained'
<1> SUFFICES ASSUME QueueInv, EventAccounts, DueIsDrained, [ReceiverNext]_rxVars
             PROVE  DueIsDrained'
  OBVIOUS
<1>0. /\ arrived \in Nat /\ events \in Seq(Event) /\ Settled \in Nat
      /\ udp_pc \in {"push", "pop"} => Settled + 1 = arrived /\ arrived \in Event
      /\ udp_pc \notin {"push", "pop"} => Settled = arrived
  BY ReceiverQueueAssumption DEF QueueInv, QueueTypes, DatagramInHand, Settled, Event
<1>1. ASSUME UNCHANGED <<cb_pc, due, events>>, Settled' = Settled PROVE DueIsDrained'
  BY <1>1 DEF DueIsDrained
<1>2. ASSUME NEW sent, NEW event, Receive(sent, event) PROVE DueIsDrained'
  BY <1>0, <1>1, <1>2 DEF Receive, UdpReceive, Settled, callbackVars
<1>3. CASE UdpThread
  <2>1. UNCHANGED <<cb_pc, due>>
    BY <1>3 DEF UdpThread, UdpStep, UdpPush, UdpPushFails, UdpPop, UdpRecord,
                UdpRecordDrop, UdpRecordQueued, callbackVars
  <2>2. CASE UdpPush
    <3>1. events' = Append(events, Settled + 1) /\ Settled' = Settled + 1
      BY <1>0, <2>2 DEF UdpPush, Settled
    <3>2. Entries(events') = Entries(events) \cup {Settled + 1}
      BY <1>0, <2>2, <3>1, ElementsOfAppend DEF UdpPush, Entries, Elements
    <3> QED BY <1>0, <2>1, <3>1, <3>2 DEF DueIsDrained
  <2>3. CASE UdpPop
    <3>1. Settled' = Settled
      BY <1>0, <2>3 DEF UdpPop, Settled
    <3>2. Entries(events') \subseteq Entries(events)
      <4>1. CASE events = <<>>
        BY <2>3, <4>1 DEF UdpPop, DropOldest
      <4>2. CASE events # <<>>
        <5>1. Elements(events) = {Head(events)} \cup Elements(Tail(events))
          BY <1>0, <4>2, ElementsOfTail
        <5> QED BY <2>3, <4>2, <5>1 DEF UdpPop, DropOldest, Entries, Elements
      <4> QED BY <4>1, <4>2
    <3> QED BY <2>1, <3>1, <3>2 DEF DueIsDrained
  <2>4. CASE UdpPushFails \/ UdpRecord
    BY <1>1, <2>1, <2>4 DEF UdpPushFails, UdpRecord, UdpRecordDrop, UdpRecordQueued, Settled
  <2> QED BY <1>3, <2>2, <2>3, <2>4 DEF UdpThread, UdpStep
<1>4. CASE BeginCallback
  <2>1. cb_pc' = "drain" /\ due' = arrived - Cardinality(Unsettled) /\ Settled' = Settled
    BY <1>4 DEF BeginCallback, CallbackStart, udpVars, Settled
  <2>2. arrived - Cardinality(Unsettled) = Settled
    <3>1. CASE udp_pc \in {"push", "pop"}
      <4>1. Unsettled = {arrived} /\ Cardinality({arrived}) = 1
        BY <3>1, FS_Singleton DEF Unsettled
      <4> QED BY <1>0, <3>1, <4>1
    <3>2. CASE udp_pc \notin {"push", "pop"}
      <4>1. Unsettled = {} /\ Cardinality({}) = 0
        BY <3>2, FS_EmptySet DEF Unsettled
      <4> QED BY <1>0, <3>2, <4>1
    <3> QED BY <3>1, <3>2
  <2> QED BY <1>0, <2>1, <2>2 DEF DueIsDrained
<1>5. CASE Drain
  <2>1. due' = due /\ Settled' = Settled /\ cb_pc = "drain"
    BY <1>5 DEF Drain, DrainPop, DrainEnd, udpVars, Settled
  <2>2. cb_pc' = "process" => Entries(events') = {}
    <3>1. Entries(<<>>) = {}
      BY EmptySeq DEF Entries
    <3> QED BY <1>5, <3>1 DEF Drain, DrainPop, DrainEnd, DrainIsDone
  <2> QED BY <2>1, <2>2 DEF DueIsDrained
<1>6. CASE ProcessPacket \/ ProcessInvalid
  BY <1>1, <1>6 DEF ProcessPacket, ProcessInvalid, ProcessEvent, udpVars, Settled
<1>7. ASSUME NEW n \in RenderSizes, Render(n) PROVE DueIsDrained'
  BY <1>7 DEF Render, CallbackEnd, DueIsDrained
<1>8. CASE Trim \/ Time \/ UNCHANGED rxVars
  BY <1>1, <1>8 DEF Trim, Time, rxVars, queueVars, Settled
<1> QED BY <1>2, <1>3, <1>4, <1>5, <1>6, <1>7, <1>8
        DEF ReceiverNext, ReceivePacket, ReceiveStray, Callback

\* A packet stays delivered or past while the buffer's stream is the same, no
\* packet is forgotten and the reader does not move back.
LEMMA CoveredStays ==
  ASSUME QueueInv, DatagramInv, ParsedIsSent, read_pos \in Nat, read_pos' \in Nat,
         read_pos <= read_pos', stream_id' = stream_id, delivered \subseteq delivered',
         NEW i \in 1 .. arrived, datagrams'[i] = datagrams[i], Covered(i)
  PROVE  Covered(i)'
<1> DEFINE p == InsertArgument(i)
<1>1. p' = p
  BY DEF InsertArgument
<1>2. ASSUME datagrams[i].event.ok, Past(p) PROVE EndOf(p) <= read_pos' \div Sub
  <2>1. p \in Packet
    BY <1>2, ArgumentIsPacket
  <2> HIDE DEF p
  <2>2. EndOf(p) \in Int
    BY <2>1, PacketFacts, StartsFacts
  <2>3. Sub \in Nat \ {0} /\ read_pos \in Int /\ read_pos' \in Int
    BY PositionAssumption
  <2>4. /\ read_pos \div Sub \in Int /\ read_pos' \div Sub \in Int
        /\ read_pos \div Sub <= read_pos' \div Sub
    BY <2>3, FrameMonotone
  <2>5. EndOf(p) <= read_pos \div Sub
    BY <1>2 DEF Past
  <2> QED BY <2>2, <2>4, <2>5
<1> HIDE DEF p
<1>3. (datagrams[i].event.ok /\ p.stream = stream_id) => StartOf(p) \in delivered \/ Past(p)
  BY DEF Covered, p
<1>4. (datagrams'[i].event.ok /\ p.stream = stream_id') =>
        StartOf(p) \in delivered' \/ EndOf(p) <= read_pos' \div Sub
  BY <1>2, <1>3
<1>5. Covered(i)' = ((datagrams'[i].event.ok /\ p'.stream = stream_id') =>
                       StartOf(p') \in delivered' \/ EndOf(p') <= read_pos' \div Sub)
  BY DEF Covered, Past, p, StartOf, EndOf
<1> QED BY <1>1, <1>4, <1>5

\* Every step keeps the second part: a packet goes into the buffer, is late, is a
\* duplicate of one that is there, or is of a stream that is not played.
LEMMA ProcessedStep ==
  /\ QueueInv /\ EveryDatagramIsAccountedFor /\ DatagramInv /\ DatagramInv'
  /\ ParsedIsSent /\ TypeOK /\ TypeOK' /\ BufferIsCurrentStream
  /\ ProcessedIsDelivered /\ [ReceiverNext]_rxVars /\ [Next]_vars
  => ProcessedIsDelivered'
<1> SUFFICES ASSUME QueueInv, EveryDatagramIsAccountedFor, DatagramInv, DatagramInv',
                    ParsedIsSent, TypeOK, TypeOK', BufferIsCurrentStream,
                    ProcessedIsDelivered, [ReceiverNext]_rxVars, [Next]_vars
             PROVE  ProcessedIsDelivered'
  OBVIOUS
<1>0. /\ processed \in Seq(Event) /\ event_scratch \in Seq(Event)
      /\ Len(processed) \in Nat /\ arrived \in Nat
      /\ start \in 0 .. Len(processed)
      /\ \A j \in 1 .. Len(processed) : processed[j] \in 1 .. arrived
      /\ read_pos \in Nat /\ read_pos' \in Nat
  <2>1. processed \in Seq(Event) /\ event_scratch \in Seq(Event) /\ arrived \in Nat
    BY ReceiverQueueAssumption DEF QueueInv, QueueTypes
  <2>2. \A j \in 1 .. Len(processed) : processed[j] \in 1 .. arrived
    BY DEF EveryDatagramIsAccountedFor, Entries
  <2>3. start \in 0 .. Len(processed) /\ read_pos \in Nat /\ read_pos' \in Nat
    BY DEF ProcessedIsDelivered, TypeOK
  <2> QED BY <2>1, <2>2, <2>3, QueueLengths
<1>1. ASSUME read_pos <= read_pos', stream_id' = stream_id, delivered \subseteq delivered',
             \A i \in 1 .. arrived : datagrams'[i] = datagrams[i],
             NEW j \in start + 1 .. Len(processed)
      PROVE  \E i \in 1 .. arrived : processed[j] = i /\ Covered(i)'
  <2>1. PICK i \in 1 .. arrived : processed[j] = i
    BY <1>0
  <2>2. Covered(i)
    BY <2>1 DEF ProcessedIsDelivered
  <2> QED BY <1>0, <1>1, <2>1, <2>2, CoveredStays
<1>2. ASSUME read_pos <= read_pos', stream_id' = stream_id, delivered \subseteq delivered',
             \A i \in 1 .. arrived : datagrams'[i] = datagrams[i],
             UNCHANGED <<processed, start>>
      PROVE  ProcessedIsDelivered'
  <2>1. ASSUME NEW j \in start + 1 .. Len(processed) PROVE Covered(processed[j])'
    <3>1. PICK i \in 1 .. arrived : processed[j] = i /\ Covered(i)'
      BY <1>1, <1>2
    <3>2. processed'[j] = i
      BY <1>2, <3>1
    <3> QED BY <3>1, <3>2 DEF Covered, Past, InsertArgument
  <2> QED BY <1>0, <1>2, <2>1 DEF ProcessedIsDelivered
<1>3. ASSUME UNCHANGED <<processed, start>>, UNCHANGED vars,
             \A i \in 1 .. arrived : datagrams'[i] = datagrams[i]
      PROVE  ProcessedIsDelivered'
  BY <1>0, <1>2, <1>3 DEF vars, jbVars
<1>4. ASSUME NEW sent, NEW event, Receive(sent, event) PROVE ProcessedIsDelivered'
  <2>1. datagrams' = Append(datagrams, [sent |-> sent, event |-> event, arrival |-> now])
        /\ UNCHANGED <<processed, start>> /\ UNCHANGED vars
    BY <1>4 DEF Receive, UdpReceive, callbackVars
  <2>2. ASSUME NEW i \in 1 .. arrived PROVE datagrams'[i] = datagrams[i]
    <3>1. datagrams \in Seq(Datagram) /\ i \in 1 .. Len(datagrams)
      BY DEF DatagramInv
    <3> QED BY <2>1, <3>1
  <2> QED BY <1>3, <2>1, <2>2
<1>5. CASE UdpThread
  BY <1>3, <1>5 DEF UdpThread, UdpStep, UdpPush, UdpPushFails, UdpPop, UdpRecord,
                    UdpRecordDrop, UdpRecordQueued, callbackVars
<1>6. CASE BeginCallback \/ Drain
  BY <1>3, <1>6 DEF BeginCallback, Drain, CallbackStart, DrainPop, DrainEnd
<1>7. CASE UNCHANGED rxVars
  BY <1>3, <1>7 DEF rxVars, queueVars
<1>8. CASE Time
  BY <1>0, <1>2, <1>8 DEF Time, Tick, queueVars, jbVars
<1>9. CASE Trim
  <2>1. UNCHANGED <<processed, start, datagrams>>
    BY <1>9 DEF Trim, queueVars
  <2>2. UNCHANGED <<stream_id, delivered>>
    BY <1>9 DEF Trim, TrimToPlayoutBufferBudget, vars, jbVars
  <2>3. read_pos <= read_pos'
    <3>1. CASE UNCHANGED vars
      BY <1>0, <3>1 DEF vars, jbVars
    <3>2. CASE TrimToPlayoutBufferBudget
      <4>1. Next
        BY <3>2 DEF Next
      <4> QED BY <1>0, <2>2, <4>1, BacktrackStep DEF vars, jbVars
    <3> QED BY <1>9, <3>1, <3>2 DEF Trim
  <2> QED BY <1>2, <2>1, <2>2, <2>3
<1>10. ASSUME NEW n \in RenderSizes, Render(n) PROVE ProcessedIsDelivered'
  <2>1. UNCHANGED <<processed, datagrams>> /\ UNCHANGED stream_id
    BY <1>10 DEF Render, CallbackEnd, Pull, PullSilence, PullRender
  <2>2. read_pos <= read_pos'
    BY <1>0, <1>10, SourceFramesFacts, SyncFacts, PullRenderReader
       DEF Render, Pull, PullSilence
  <2>3. CASE state' = "Resync"
    <3>1. start' = Len(processed)
      BY <1>10, <2>3 DEF Render
    <3> QED BY <1>0, <2>1, <3>1 DEF ProcessedIsDelivered
  <2>4. CASE state' # "Resync"
    <3>1. start' = start
      BY <1>10, <2>4 DEF Render
    <3>2. delivered' = delivered
      BY <1>10, <2>4 DEF Render, Pull, PullSilence, PullRender
    <3> QED BY <1>2, <2>1, <2>2, <3>1, <3>2
  <2> QED BY <2>3, <2>4
<1>11. ASSUME NEW i \in 1 .. arrived, processed' = Append(processed, i), UNCHANGED datagrams,
              start' = start, Covered(i)',
              UNCHANGED <<stream_id, read_pos>>, delivered \subseteq delivered'
       PROVE  ProcessedIsDelivered'
  <2>1. /\ Len(processed') = Len(processed) + 1
        /\ \A j \in 1 .. Len(processed) : processed'[j] = processed[j]
        /\ processed'[Len(processed) + 1] = i
    <3>1. i \in Event
      BY ReceiverQueueAssumption DEF QueueInv, QueueTypes, Event
    <3> QED BY <1>0, <1>11, <3>1, AppendProperties
  <2>2. ASSUME NEW j \in start + 1 .. Len(processed) + 1 PROVE Covered(processed[j])'
    <3>1. \E k \in 1 .. arrived : processed'[j] = k /\ Covered(k)'
      <4>1. CASE j = Len(processed) + 1
        BY <1>11, <2>1, <4>1
      <4>2. CASE j # Len(processed) + 1
        <5>1. j \in start + 1 .. Len(processed) /\ processed'[j] = processed[j]
          BY <1>0, <2>1, <2>2, <4>2
        <5>2. read_pos <= read_pos'
          BY <1>0, <1>11
        <5> QED BY <1>1, <1>11, <5>1, <5>2
      <4> QED BY <4>1, <4>2
    <3>2. PICK k \in 1 .. arrived : processed'[j] = k /\ Covered(k)'
      BY <3>1
    <3> QED BY <3>2 DEF Covered, Past, InsertArgument
  <2> QED BY <1>0, <1>11, <2>1, <2>2 DEF ProcessedIsDelivered
<1>12. ASSUME ProcessEvent PROVE \E i \in 1 .. arrived : Head(event_scratch) = i
                                    /\ processed' = Append(processed, i)
  <2>1. event_scratch # <<>> /\ processed' = Append(processed, Head(event_scratch))
    BY <1>12 DEF ProcessEvent
  <2>2. Elements(event_scratch) = {Head(event_scratch)} \cup Elements(Tail(event_scratch))
    BY <1>0, <2>1, ElementsOfTail
  <2>3. Head(event_scratch) \in 1 .. arrived
    BY <2>2 DEF EveryDatagramIsAccountedFor, Entries, Elements
  <2> QED BY <2>1, <2>3
<1>13. CASE ProcessInvalid
  <2>1. PICK i \in 1 .. arrived : Head(event_scratch) = i /\ processed' = Append(processed, i)
    BY <1>12, <1>13 DEF ProcessInvalid
  <2>2. /\ ~datagrams'[i].event.ok
        /\ UNCHANGED <<datagrams, start, stream_id, read_pos, delivered>>
    BY <1>13, <2>1 DEF ProcessInvalid, RecordInvalidPacket, jbVars
  <2>3. Covered(i)'
    BY <2>2 DEF Covered
  <2> QED BY <1>11, <2>1, <2>2, <2>3
<1>14. CASE ProcessPacket
  <2>1. PICK i \in 1 .. arrived : Head(event_scratch) = i /\ processed' = Append(processed, i)
    <3>1. ProcessEvent
      BY <1>14 DEF ProcessPacket
    <3> QED BY <1>12, <3>1
  <2> DEFINE p == InsertArgument(i)
             t == datagrams[i].arrival
  <2>2. /\ datagrams[i].event.ok /\ InsertPacket(p, t) /\ datagrams' = datagrams
        /\ start' = IF stream_id' # stream_id THEN Len(processed) ELSE start
    BY <1>14, <2>1 DEF ProcessPacket
  <2>3. p' = p
    BY <2>2 DEF InsertArgument
  <2> HIDE DEF p, t
  <2>4. Covered(i)' = ((datagrams[i].event.ok /\ p.stream = stream_id') =>
                         StartOf(p) \in delivered' \/ EndOf(p) <= read_pos' \div Sub)
    BY <2>2, <2>3 DEF Covered, Past, p, StartOf, EndOf
  <2>5. CASE StartStream(p, t)
    <3>1. stream_id' # stream_id /\ delivered' = {StartOf(p)}
      BY <2>5 DEF StartStream
    <3>2. Covered(i)' /\ start' = Len(processed)
      BY <2>2, <2>4, <3>1
    <3>3. Len(processed') = Len(processed) + 1 /\ processed'[Len(processed) + 1] = i
      <4>1. i \in Event
        BY ReceiverQueueAssumption DEF QueueInv, QueueTypes, Event
      <4> QED BY <1>0, <2>1, <4>1, AppendProperties
    <3>4. ASSUME NEW j \in start' + 1 .. Len(processed') PROVE Covered(processed[j])'
      <4>1. processed'[j] = i
        BY <1>0, <3>2, <3>3, <3>4
      <4> QED BY <3>2, <4>1 DEF Covered, Past, InsertArgument
    <3> QED BY <1>0, <3>2, <3>3, <3>4 DEF ProcessedIsDelivered
  <2>6. CASE RejectForeign(p, t) \/ RejectLate(p) \/ RejectDuplicate(p) \/ AcceptPacket(p, t)
    <3>1. UNCHANGED <<stream_id, read_pos>> /\ delivered \subseteq delivered'
      BY <2>6 DEF RejectForeign, RejectLate, RejectDuplicate, AcceptPacket, jbVars
    <3>2. \/ p.stream # stream_id
          \/ StartOf(p) \in delivered'
          \/ EndOf(p) <= read_pos \div Sub
      <4>1. CASE RejectForeign(p, t)
        BY <4>1 DEF RejectForeign
      <4>2. CASE RejectLate(p)
        BY <4>2 DEF RejectLate, IsLate
      <4>3. CASE RejectDuplicate(p)
        BY <4>3 DEF RejectDuplicate, BufferIsCurrentStream
      <4>4. CASE AcceptPacket(p, t)
        BY <4>4 DEF AcceptPacket
      <4> QED BY <2>6, <4>1, <4>2, <4>3, <4>4
    <3>3. Covered(i)'
      BY <2>4, <3>1, <3>2
    <3> QED BY <1>11, <2>1, <2>2, <3>1, <3>3
  <2> QED BY <2>2, <2>5, <2>6 DEF InsertPacket
<1> QED BY <1>4, <1>5, <1>6, <1>7, <1>8, <1>9, <1>10, <1>13, <1>14
        DEF ReceiverNext, ReceivePacket, ReceiveStray, Callback

\* A callback that renders a frame as silence had nothing that carried the frame.
LEMMA SilentCallback ==
  /\ QueueInv /\ EventAccounts /\ DatagramInv /\ ParsedIsSent /\ TypeOK
  /\ ReceivedIsAccountedFor /\ DueIsDrained /\ ProcessedIsDelivered
  /\ [ReceiverNext]_rxVars
  => [(cb_pc = "process" /\ cb_pc' = "idle") =>
        \A f \in silent', i \in 1 .. due :
          Carries(i, f) => \/ i \in evicted
                           \/ i \in Entries(SubSeq(processed, 1, start))]_rxVars
<1> SUFFICES ASSUME QueueInv, EventAccounts, DatagramInv, ParsedIsSent, TypeOK,
                    ReceivedIsAccountedFor, DueIsDrained, ProcessedIsDelivered,
                    ReceiverNext, cb_pc = "process", cb_pc' = "idle",
                    NEW f \in silent', NEW i \in 1 .. due, Carries(i, f), i \notin evicted
             PROVE  i \in Entries(SubSeq(processed, 1, start))
  OBVIOUS
<1>1. PICK n \in RenderSizes : Render(n)
  BY DEF ReceiverNext, ReceivePacket, ReceiveStray, Receive, UdpReceive, UdpThread, UdpStep,
         UdpPush, UdpPushFails, UdpPop, UdpRecord, UdpRecordDrop, UdpRecordQueued,
         Callback, BeginCallback, CallbackStart, Drain, DrainPop, DrainEnd, ProcessPacket,
         ProcessInvalid, ProcessEvent, Trim, Time, queueVars, callbackVars
<1>2. PullRender(n) /\ event_scratch = <<>>
  BY <1>1 DEF Render, CallbackEnd, Pull, PullSilence
<1>3. f \in Int /\ read_pos \div Sub \in Int /\ read_pos \div Sub <= f
  BY <1>2, RendersAhead
<1>4. ~\E s \in delivered : s <= f /\ f < s + PacketFrames
  <2>1. Next
    BY <1>2 DEF Next, Pull
  <2> QED BY <2>1, SilentStep
<1>5. /\ processed \in Seq(Event) /\ Len(processed) \in Nat /\ arrived \in Nat
      /\ Settled \in Nat /\ Settled <= arrived
      /\ start \in 0 .. Len(processed) /\ due \in Nat /\ due <= Settled
  BY QueueLengths, ReceiverQueueAssumption
     DEF QueueInv, QueueTypes, DatagramInHand, Settled, ProcessedIsDelivered, DueIsDrained
<1>6. i \in Entries(processed)
  <2>1. i \in 1 .. Settled
    BY <1>5
  <2>2. i \in Elements(events) \cup Drained \cup evicted
    BY <2>1 DEF EventAccounts, Accounts
  <2>3. i \notin Elements(events)
    <3>1. Entries(events) = Elements(events)
      BY DEF Entries, Elements
    <3>2. \A e \in Entries(events) : due < e
      BY DEF DueIsDrained
    <3>3. ~(due < i)
      BY <1>5
    <3> QED BY <3>1, <3>2, <3>3
  <2>4. Entries(event_scratch) = {}
    BY <1>2, EmptySeq DEF Entries
  <2> QED BY <2>2, <2>3, <2>4 DEF Drained
<1>7. PICK j \in 1 .. Len(processed) : processed[j] = i
  BY <1>6 DEF Entries
<1>8. j <= start
  <2> SUFFICES ASSUME j > start PROVE FALSE
    BY <1>5
  <2> DEFINE p == InsertArgument(i)
  <2>1. j \in start + 1 .. Len(processed)
    BY <1>5
  <2>2. Covered(i)
    BY <1>7, <2>1 DEF ProcessedIsDelivered
  <2>3. datagrams[i].event.ok /\ p.stream = stream_id /\ f \in StartOf(p) .. EndOf(p) - 1
    BY DEF Carries
  <2>4. p \in Packet
    BY <1>5, <2>3, ArgumentIsPacket
  <2>5. StartOf(p) \in delivered \/ EndOf(p) <= read_pos \div Sub
    BY <2>2, <2>3 DEF Covered, Past
  <2> HIDE DEF p
  <2>6. StartOf(p) \in Nat /\ EndOf(p) = StartOf(p) + PacketFrames /\ PacketFrames \in Nat
    BY <2>4, PacketFacts, SizeAssumption
  <2> QED BY <1>3, <1>4, <2>3, <2>5, <2>6
<1>9. /\ Len(SubSeq(processed, 1, start)) = start
      /\ SubSeq(processed, 1, start)[j] = processed[j]
  BY <1>5, <1>7, <1>8
<1> QED BY <1>5, <1>7, <1>8, <1>9 DEF Entries

\* The receiver plays what it has, end to end and for every size of the queue,
\* the buffer and the callback: if a frame is rendered as silence, no datagram
\* that carried it was in the queue when the callback began, unless the full
\* queue threw it away or the buffer has since started over.
THEOREM SilenceMeansLoss ==
  ASSUME MaxTime <= MaxWait
  PROVE  ReceiverSpec => SilenceIsLoss
<1>1. ReceiverInit => DueIsDrained /\ ProcessedIsDelivered
  <2> SUFFICES ASSUME ReceiverInit PROVE DueIsDrained /\ ProcessedIsDelivered
    OBVIOUS
  <2>1. cb_pc = "idle" /\ start = 0 /\ processed = <<>> /\ Len(<<>>) = 0
    BY EmptySeq DEF ReceiverInit, QueueInit
  <2> QED BY <2>1 DEF DueIsDrained, ProcessedIsDelivered
<1>2. ReceiverSpec => Spec
  BY ReceiverRunsBuffer
<1> QED BY <1>1, <1>2, DatagramsInvariant, PacketsAreParsed, QueueInvariant, EventsInvariant,
           DatagramsAreAccountedFor, ReceiverRunsQueue, TypeCorrect, OneStreamAtATime,
           ReceivedIsKept, DueStep, ProcessedStep, SilentCallback, PTL
        DEF ReceiverSpec, Spec, SilenceIsLoss

-----------------------------------------------------------------------------
(* Callbacks that are too large for the tolerance. *)

\* What the trim leaves is at most the delay and the tolerance, and nothing is
\* put into the buffer between the trim and the pull.
NothingYet == stream_id = None => latest_received_end = 0
NotStartedIsEmpty == state = "NotStarted" => stream_id = None
TrimmedIsShort ==
  (trimmed /\ cb_pc # "idle") =>
    /\ cb_pc = "process" /\ event_scratch = <<>>
    /\ Level(read_pos) <= FixedDelay + Tolerance
NeverStarts == state # "Running" /\ NothingYet /\ NotStartedIsEmpty /\ TrimmedIsShort

\* A reader that is moved forward has less ahead of it.
LEMMA LevelFalls ==
  ASSUME TypeOK, NEW rp \in Nat, NEW rq \in Nat, rp <= rq
  PROVE  Level(rq) <= Level(rp)
<1>1. ReadFrame(rp) \in Nat /\ ReadFrame(rq) \in Nat /\ ReadFrame(rp) <= ReadFrame(rq)
  BY ReadFrameMonotone, ReadFrameFacts
<1>2. latest_received_end \in Nat
  BY StartsFacts DEF TypeOK
<1> QED BY <1>1, <1>2 DEF Level, Larger

\* Insertions do not start playback.
LEMMA InsertDoesNotStart ==
  ASSUME NeverStarts, NEW p \in Packet, NEW arrival, InsertPacket(p, arrival)
  PROVE  state' # "Running" /\ NothingYet' /\ NotStartedIsEmpty'
<1>1. p.stream # None
  BY SizeAssumption DEF Packet
<1>2. CASE StartStream(p, arrival)
  BY <1>1, <1>2 DEF StartStream, NothingYet, NotStartedIsEmpty
<1>3. CASE AcceptPacket(p, arrival)
  BY <1>1, <1>3 DEF AcceptPacket, NeverStarts, NothingYet, NotStartedIsEmpty
<1>4. CASE RejectForeign(p, arrival) \/ RejectLate(p) \/ RejectDuplicate(p)
  BY <1>4 DEF RejectForeign, RejectLate, RejectDuplicate, jbVars, NeverStarts, NothingYet,
              NotStartedIsEmpty
<1> QED BY <1>2, <1>3, <1>4 DEF InsertPacket

\* A pull after the trim finds too little to start with.
LEMMA PullDoesNotStart ==
  ASSUME TypeOK, NeverStarts, trimmed, cb_pc = "process",
         NEW n \in RenderSizes, SourceFrames(n) > Tolerance, Pull(n)
  PROVE  state' = "Priming" /\ UNCHANGED <<stream_id, latest_received_end>>
<1> DEFINE src == SourceFrames(n)
           rp  == SyncedReadPos(src)
<1>1. src \in Nat
  BY SourceFramesFacts
<1>2. rp \in Nat /\ read_pos \in Nat /\ read_pos <= rp
  BY <1>1, SyncFacts DEF TypeOK
<1>3. Level(rp) <= Level(read_pos) /\ Level(rp) \in Nat /\ Level(read_pos) \in Nat
  BY <1>2, LevelFalls, LevelFacts
<1>4. Level(read_pos) <= FixedDelay + Tolerance /\ FixedDelay \in Nat /\ Tolerance \in Nat
  BY SizeAssumption DEF NeverStarts, TrimmedIsShort
<1>5. Level(rp) < FixedDelay + src
  BY <1>1, <1>3, <1>4
<1>6. Starved(rp, src)
  BY <1>5 DEF Starved, NeverStarts
<1>7. PullSilence(n)
  BY <1>6 DEF Pull, PullRender
<1> QED BY <1>7 DEF PullSilence

\* The trim leaves no more than the delay and the tolerance.
LEMMA TrimIsShort ==
  ASSUME TypeOK, TypeOK', NeverStarts, Trim
  PROVE  NeverStarts'
<1>1. /\ event_scratch' = <<>> /\ cb_pc' = "process"
      /\ UNCHANGED <<state, stream_id, latest_received_end>>
  BY DEF Trim, TrimToPlayoutBufferBudget, queueVars, callbackVars, vars, jbVars
<1>2. FixedDelay \in Nat \ {0} /\ Tolerance \in Nat /\ read_pos \in Nat
      /\ Level(read_pos) \in Nat /\ latest_received_end \in Nat
  BY SizeAssumption, LevelFacts, StartsFacts DEF TypeOK
<1>3. Level(read_pos)' <= FixedDelay + Tolerance
  <2>1. CASE OverBudget
    <3> DEFINE to == TrimTo(read_pos, FixedDelay)
    <3>1. read_pos' = to
      BY <2>1 DEF Trim, TrimToPlayoutBufferBudget
    <3>2. FixedDelay <= Level(read_pos)
      BY <1>2, <2>1 DEF OverBudget
    <3>3. to \in Nat /\ latest_received_end - ReadFrame(to) = FixedDelay
      BY <1>2, <3>2, TrimmedDepth, TrimFacts
    <3> HIDE DEF to
    <3>4. Level(to) = FixedDelay
      BY <1>2, <3>3 DEF Level, Larger
    <3>5. Level(read_pos)' = Level(to)
      BY <1>1, <3>1 DEF Level, ReadFrame
    <3> QED BY <1>2, <3>4, <3>5
  <2>2. CASE ~OverBudget
    <3>1. Level(read_pos)' = Level(read_pos)
      BY <2>2 DEF Trim, vars, jbVars, Level, ReadFrame
    <3>2. CASE stream_id = None \/ state = "NotStarted"
      <4>1. latest_received_end = 0
        BY <3>2 DEF NeverStarts, NothingYet, NotStartedIsEmpty
      <4>2. ReadFrame(read_pos) \in Nat
        BY <1>2, ReadFrameFacts
      <4>3. Level(read_pos) = 0
        BY <4>1, <4>2 DEF Level, Larger
      <4> QED BY <1>2, <3>1, <4>3
    <3>3. CASE ~(Level(read_pos) > FixedDelay + Tolerance)
      BY <1>2, <3>1, <3>3
    <3> QED BY <2>2, <3>2, <3>3 DEF OverBudget
  <2> QED BY <2>1, <2>2
<1> QED BY <1>1, <1>3 DEF NeverStarts, NothingYet, NotStartedIsEmpty, TrimmedIsShort

\* Every step keeps playback from starting.
LEMMA NeverStartsStep ==
  ASSUME \A n \in RenderSizes : SourceFrames(n) > Tolerance
  PROVE  /\ QueueInv /\ EveryDatagramIsAccountedFor /\ DatagramInv /\ ParsedIsSent
         /\ TypeOK /\ TypeOK' /\ NeverStarts /\ [ReceiverNext]_rxVars
         => NeverStarts'
<1> SUFFICES ASSUME QueueInv, EveryDatagramIsAccountedFor, DatagramInv, ParsedIsSent,
                    TypeOK, TypeOK', NeverStarts, [ReceiverNext]_rxVars
             PROVE  NeverStarts'
  OBVIOUS
<1>1. ASSUME UNCHANGED <<state, stream_id, latest_received_end, read_pos>>,
             UNCHANGED <<trimmed, cb_pc, event_scratch>>
      PROVE  NeverStarts'
  BY <1>1 DEF NeverStarts, NothingYet, NotStartedIsEmpty, TrimmedIsShort, Level, ReadFrame
<1>2. ASSUME NEW sent, NEW event, Receive(sent, event) PROVE NeverStarts'
  BY <1>1, <1>2 DEF Receive, UdpReceive, callbackVars, vars, jbVars
<1>3. CASE UdpThread
  <2>1. UNCHANGED <<cb_pc, event_scratch>>
    BY <1>3 DEF UdpThread, UdpStep, UdpPush, UdpPushFails, UdpPop, UdpRecord,
                UdpRecordDrop, UdpRecordQueued, callbackVars
  <2> QED BY <1>1, <1>3, <2>1 DEF UdpThread, vars, jbVars
<1>4. CASE BeginCallback
  BY <1>4 DEF BeginCallback, CallbackStart, vars, jbVars, NeverStarts, NothingYet,
              NotStartedIsEmpty, TrimmedIsShort
<1>5. CASE Drain
  <2>1. cb_pc = "drain" /\ trimmed' = trimmed /\ UNCHANGED jbVars
    BY <1>5 DEF Drain, DrainPop, DrainEnd, vars
  <2>2. ~trimmed
    BY <2>1 DEF NeverStarts, TrimmedIsShort
  <2> QED BY <2>1, <2>2 DEF jbVars, NeverStarts, NothingYet, NotStartedIsEmpty, TrimmedIsShort
<1>6. CASE ProcessPacket
  <2> DEFINE i == Head(event_scratch)
  <2>1. event_scratch # <<>> /\ cb_pc = "process" /\ trimmed' = trimmed /\ datagrams[i].event.ok
    BY <1>6 DEF ProcessPacket, ProcessEvent
  <2>2. ~trimmed
    BY <2>1 DEF NeverStarts, TrimmedIsShort
  <2>3. i \in 1 .. arrived
    <3>1. event_scratch \in Seq(Event) /\ arrived \in Nat
      BY ReceiverQueueAssumption DEF QueueInv, QueueTypes
    <3>2. Len(event_scratch) \in Nat /\ Len(event_scratch) > 0 /\ i = event_scratch[1]
      BY <2>1, <3>1
    <3> QED BY <3>2 DEF EveryDatagramIsAccountedFor, Entries
  <2>4. InsertArgument(i) \in Packet
    BY <2>1, <2>3, ArgumentIsPacket
  <2>5. InsertPacket(InsertArgument(i), datagrams[i].arrival)
    BY <1>6 DEF ProcessPacket
  <2> QED BY <2>1, <2>2, <2>4, <2>5, InsertDoesNotStart DEF NeverStarts, TrimmedIsShort
<1>7. CASE ProcessInvalid
  <2>1. event_scratch # <<>> /\ cb_pc = "process" /\ trimmed' = trimmed /\ UNCHANGED jbVars
    BY <1>7 DEF ProcessInvalid, ProcessEvent, RecordInvalidPacket
  <2> QED BY <2>1 DEF jbVars, NeverStarts, NothingYet, NotStartedIsEmpty, TrimmedIsShort
<1>8. CASE Trim
  BY <1>8, TrimIsShort
<1>9. ASSUME NEW n \in RenderSizes, Render(n) PROVE NeverStarts'
  <2>1. trimmed /\ cb_pc = "process" /\ cb_pc' = "idle" /\ Pull(n)
    BY <1>9 DEF Render, CallbackEnd
  <2>2. state' = "Priming" /\ UNCHANGED <<stream_id, latest_received_end>>
    BY <2>1, PullDoesNotStart
  <2> QED BY <2>1, <2>2 DEF NeverStarts, NothingYet, NotStartedIsEmpty, TrimmedIsShort
<1>10. CASE Time
  BY <1>1, <1>10 DEF Time, Tick, jbVars, queueVars, callbackVars
<1>11. CASE UNCHANGED rxVars
  BY <1>1, <1>11 DEF rxVars, vars, jbVars, queueVars, callbackVars
<1> QED BY <1>2, <1>3, <1>4, <1>5, <1>6, <1>7, <1>8, <1>9, <1>10, <1>11
        DEF ReceiverNext, ReceivePacket, ReceiveStray, Callback

\* A receiver whose callbacks all take more source frames than the tolerance never
\* starts to play, whatever it receives: the callback trims to less than the pull
\* that follows wants to start with (receiver/src/main.rs:697, jitter.rs:329).
THEOREM LargeCallbacksNeverPlay ==
  ASSUME MaxTime <= MaxWait, \A n \in RenderSizes : SourceFrames(n) > Tolerance
  PROVE  ReceiverSpec => [](state # "Running")
<1>1. ReceiverInit => NeverStarts
  BY DEF ReceiverInit, QueueInit, Init, NeverStarts, NothingYet, NotStartedIsEmpty,
         TrimmedIsShort
<1>2. /\ QueueInv /\ EveryDatagramIsAccountedFor /\ DatagramInv /\ ParsedIsSent
      /\ TypeOK /\ TypeOK' /\ NeverStarts /\ [ReceiverNext]_rxVars
      => NeverStarts'
  BY NeverStartsStep
<1>3. NeverStarts => state # "Running"
  BY DEF NeverStarts
<1>4. ReceiverSpec => Spec
  BY ReceiverRunsBuffer
<1> QED BY <1>1, <1>2, <1>3, <1>4, DatagramsInvariant, PacketsAreParsed, QueueInvariant,
           DatagramsAreAccountedFor, ReceiverRunsQueue, TypeCorrect, PTL
        DEF ReceiverSpec
=============================================================================

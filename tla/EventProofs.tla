---------------------------- MODULE EventProofs ----------------------------
(***************************************************************************)
(* What module Event states of Platform/Event.c, and that it implements    *)
(* the abstract event queue of EventFifo, proved for any number of         *)
(* subscriptions, slots and ring entries.                                  *)
(***************************************************************************)
EXTENDS Event, FiniteSetTheorems, SequenceTheorems, TLAPS

\* The loop index stays inside the table while a handler runs, and handlers run
\* only during a dispatch.
LoopInv == inHandler => event # NoEvent /\ i < MaxSubscriptions

\* Subscriptions count as late only during a dispatch, and while they stand.
LateInv ==
    /\ late \subseteq Subscribed
    /\ event = NoEvent => late = {}

IInv == TypeOK /\ LoopInv /\ NoDuplicateSubscriptions /\ LateInv

\* Both ring indices wrap inside the array.
LEMMA AdvanceInRange == \A index \in Indices : Advance(index) \in Indices
BY EventAssumption DEF Indices, Advance

\* The firmware starts with an empty table, an empty ring and no dispatch.
LEMMA InitEstablishesIInv == Init => IInv
<1> SUFFICES ASSUME Init PROVE IInv
  OBVIOUS
<1>1. TypeOK
  <2>1. 0 \in Indices /\ 0 \in 0 .. MaxSubscriptions
    BY EventAssumption DEF Indices
  <2>2. events \in [Indices -> Entries]
    BY EventAssumption DEF Init
  <2> QED BY <2>1, <2>2 DEF Init, TypeOK
<1>2. LoopInv
  BY DEF Init, LoopInv
<1>3. NoDuplicateSubscriptions
  BY DEF Init, NoDuplicateSubscriptions
<1>4. LateInv
  BY DEF Init, LateInv
<1> QED BY <1>1, <1>2, <1>3, <1>4 DEF IInv

\* What a caller's subscription does: it takes a slot, or keeps the one it has.
LEMMA SubscribePreservesIInv ==
    ASSUME IInv, NEW s \in Subscriptions, eventSubscribe(s)
    PROVE  IInv'
<1> PICK k \in Slots : Settles(s, k) /\ Put(s, k)
  BY DEF eventSubscribe
<1> USE DEF IInv
<1>1. subscriptions' = [subscriptions EXCEPT ![k] = s]
  BY DEF Put
<1>2. UNCHANGED <<events, eventsReadIndex, eventsWriteIndex, event, i, inHandler, initialising>>
  BY DEF Put, ringVars, loopVars
<1>3. TypeOK'
  <2>1. late' \subseteq Subscriptions
    BY DEF Put, TypeOK
  <2> QED BY <1>1, <1>2, <2>1 DEF TypeOK
<1>4. LoopInv'
  BY <1>2 DEF LoopInv
<1>5. \A j \in Slots : subscriptions[j] = s => j = k
  BY EventAssumption DEF Settles, NoDuplicateSubscriptions, Subscribed
<1>6. NoDuplicateSubscriptions'
  BY <1>1, <1>5 DEF NoDuplicateSubscriptions, TypeOK
<1>7. Subscribed' = Subscribed \cup {s}
  BY <1>1, EventAssumption DEF Subscribed, Settles, TypeOK
<1>8. LateInv'
  BY <1>2, <1>7 DEF LateInv, Put
<1> QED BY <1>3, <1>4, <1>6, <1>8

\* Unsubscribing empties one slot, and with no duplicates that is all of them.
LEMMA UnsubscribePreservesIInv ==
    ASSUME IInv, NEW s \in Subscriptions, eventUnsubscribe(s)
    PROVE  IInv' /\ Subscribed' = Subscribed \ {s}
<1> USE DEF IInv
<1> PICK k \in Slots :
        /\ subscriptions[k] = s
        /\ subscriptions' = [subscriptions EXCEPT ![k] = Null]
        /\ late' = late \ {s}
        /\ UNCHANGED <<ringVars, loopVars, initialising>>
  BY DEF eventUnsubscribe
<1>1. UNCHANGED <<events, eventsReadIndex, eventsWriteIndex, event, i, inHandler, initialising>>
  BY DEF ringVars, loopVars
<1>2. \A j \in Slots : subscriptions[j] = s => j = k
  BY EventAssumption DEF NoDuplicateSubscriptions
<1>3. Subscribed' = Subscribed \ {s}
  BY <1>2, EventAssumption DEF Subscribed, TypeOK
<1>4. TypeOK'
  BY <1>1 DEF TypeOK
<1>5. LoopInv'
  BY <1>1 DEF LoopInv
<1>6. NoDuplicateSubscriptions'
  BY DEF NoDuplicateSubscriptions, TypeOK
<1>7. LateInv'
  BY <1>1, <1>3 DEF LateInv
<1> QED BY <1>3, <1>4, <1>5, <1>6, <1>7

\* Publishing writes one entry and moves the write index.
LEMMA PublishPreservesIInv ==
    ASSUME IInv, NEW e \in Entries, eventPublish(e)
    PROVE  IInv'
<1> USE DEF IInv
<1>1. UNCHANGED <<subscriptions, eventsReadIndex, event, i, inHandler, initialising, late>>
  BY DEF eventPublish, loopVars
<1>2. TypeOK'
  BY <1>1, AdvanceInRange DEF eventPublish, TypeOK
<1>3. (LoopInv /\ NoDuplicateSubscriptions /\ LateInv)'
  BY <1>1 DEF LoopInv, NoDuplicateSubscriptions, LateInv, Subscribed
<1> QED BY <1>2, <1>3

\* Whatever the dispatcher or its callers do next keeps the invariant.
LEMMA NextPreservesIInv == IInv /\ [Next]_vars => IInv'
<1> SUFFICES ASSUME IInv, [Next]_vars PROVE IInv'
  OBVIOUS
<1> USE DEF IInv
<1>1. CASE \E s \in Subscriptions : eventSubscribe(s) \/ eventUnsubscribe(s)
  BY <1>1, SubscribePreservesIInv, UnsubscribePreservesIInv
<1>2. CASE \E e \in Entries : eventPublish(e)
  BY <1>2, PublishPreservesIInv
<1>3. CASE Begin
  <2>1. TypeOK'
    BY <1>3, EventAssumption DEF Begin, ringVars, TypeOK
  <2>2. LoopInv'
    BY <1>3 DEF Begin, LoopInv
  <2>3. (NoDuplicateSubscriptions /\ LateInv)'
    BY <1>3, EventAssumption DEF Begin, NoDuplicateSubscriptions, LateInv, TypeOK
  <2> QED BY <2>1, <2>2, <2>3
<1>4. CASE Skip
  <2>1. TypeOK'
    BY <1>4, EventAssumption DEF Skip, ringVars, TypeOK
  <2>2. (LoopInv /\ NoDuplicateSubscriptions /\ LateInv)'
    BY <1>4 DEF Skip, LoopInv, NoDuplicateSubscriptions, LateInv, Subscribed
  <2> QED BY <2>1, <2>2
<1>5. CASE CallHandler
  <2>1. TypeOK'
    BY <1>5 DEF CallHandler, ringVars, TypeOK
  <2>2. (LoopInv /\ NoDuplicateSubscriptions /\ LateInv)'
    BY <1>5 DEF CallHandler, LoopInv, NoDuplicateSubscriptions, LateInv, Subscribed
  <2> QED BY <2>1, <2>2
<1>6. CASE HandlerReturns
  <2>1. i' \in 0 .. MaxSubscriptions
    <3>1. i < MaxSubscriptions /\ i' = i + 1
      BY <1>6 DEF HandlerReturns, LoopInv
    <3> QED BY <3>1, EventAssumption DEF TypeOK
  <2>2. TypeOK'
    BY <1>6, <2>1 DEF HandlerReturns, ringVars, TypeOK
  <2>3. (LoopInv /\ NoDuplicateSubscriptions /\ LateInv)'
    BY <1>6 DEF HandlerReturns, LoopInv, NoDuplicateSubscriptions, LateInv, Subscribed
  <2> QED BY <2>2, <2>3
<1>7. CASE End
  <2>1. ~inHandler
    BY <1>7, EventAssumption DEF End, LoopInv, TypeOK
  <2>2. TypeOK'
    BY <1>7, AdvanceInRange DEF End, TypeOK
  <2>3. (LoopInv /\ NoDuplicateSubscriptions /\ LateInv)'
    BY <1>7, <2>1 DEF End, LoopInv, NoDuplicateSubscriptions, LateInv, Subscribed
  <2> QED BY <2>2, <2>3
<1>8. CASE PollIdle
  BY <1>8, PublishPreservesIInv, EventAssumption DEF PollIdle
<1>9. CASE Initialised
  BY <1>9 DEF Initialised, ringVars, loopVars, TypeOK, LoopInv, NoDuplicateSubscriptions,
              LateInv, Subscribed
<1>10. CASE UNCHANGED vars
  BY <1>10 DEF vars, ringVars, loopVars, TypeOK, LoopInv, NoDuplicateSubscriptions,
               LateInv, Subscribed
<1> QED BY <1>1, <1>2, <1>3, <1>4, <1>5, <1>6, <1>7, <1>8, <1>9, <1>10
        DEF Next, Calls, Dispatch

\* So it holds for ever.
LEMMA IInvHolds == Spec => []IInv
BY InitEstablishesIInv, NextPreservesIInv, PTL DEF Spec

\* The dispatcher and its callers never index outside the table or the ring.
THEOREM TypeCorrect == Spec => []TypeOK
BY IInvHolds, PTL DEF IInv

\* No history of subscribing and unsubscribing, in or out of a dispatch, leaves
\* a subscription in two slots.
THEOREM NeverSubscribedTwice == Spec => []NoDuplicateSubscriptions
BY IInvHolds, PTL DEF IInv
-----------------------------------------------------------------------------
(***************************************************************************)
(* The refinement.                                                         *)
(***************************************************************************)
\* Where the k-th pending event is in the ring.
IndexAt(k) == IF First + k - 1 >= MaxEvents THEN First + k - 1 - MaxEvents
                                            ELSE First + k - 1

\* Any entry the refinement mapping reads is in the ring, up to its pending count.
LEMMA RingIsInRange ==
    ASSUME TypeOK
    PROVE  /\ First \in Indices
           /\ Pending \in 0 .. MaxEvents - 1
           /\ \A k \in 1 .. Pending : IndexAt(k) \in Indices /\ IndexAt(k) # eventsWriteIndex
<1>1. First \in Indices
  BY AdvanceInRange DEF First, TypeOK
<1>2. eventsWriteIndex \in Indices
  BY DEF TypeOK
<1>3. Pending \in 0 .. MaxEvents - 1
  BY <1>1, <1>2, EventAssumption DEF Pending, Indices
<1>4. ASSUME NEW k \in 1 .. Pending
      PROVE  IndexAt(k) \in Indices /\ IndexAt(k) # eventsWriteIndex
  BY <1>1, <1>2, <1>3, EventAssumption DEF IndexAt, Pending, Indices
<1> QED BY <1>1, <1>3, <1>4

\* The mapped queue is a sequence of entries, as long as Pending says.
LEMMA QueueIsASequence ==
    TypeOK => /\ Queue \in Seq(Entries)
              /\ Len(Queue) = Pending
              /\ \A k \in 1 .. Pending : Queue[k] = events[IndexAt(k)]
<1> SUFFICES ASSUME TypeOK
             PROVE  /\ Queue \in Seq(Entries)
                    /\ Len(Queue) = Pending
                    /\ \A k \in 1 .. Pending : Queue[k] = events[IndexAt(k)]
  OBVIOUS
<1>1. Queue = [k \in 1 .. Pending |-> events[IndexAt(k)]]
  BY DEF Queue, RingAt, IndexAt
<1>2. Pending \in Nat
  BY RingIsInRange, EventAssumption
<1>3. \A k \in 1 .. Pending : events[IndexAt(k)] \in Entries
  BY RingIsInRange DEF TypeOK
<1> QED BY <1>1, <1>2, <1>3

\* And it is one after any step too.
LEMMA QueueStaysASequence ==
    ASSUME TypeOK'
    PROVE  /\ Queue' \in Seq(Entries)
           /\ Len(Queue') = Pending'
           /\ \A k \in 1 .. Pending' : Queue'[k] = events'[IndexAt(k)']
<1>1. TypeOK' => (/\ Queue \in Seq(Entries)
                  /\ Len(Queue) = Pending
                  /\ \A k \in 1 .. Pending : Queue[k] = events[IndexAt(k)])'
  BY QueueIsASequence, PTL
<1> QED BY <1>1

\* Steps that leave the ring and the dispatch alone leave the queue alone.
LEMMA SameRingSameQueue ==
    ASSUME UNCHANGED <<events, eventsReadIndex, eventsWriteIndex, event>>
    PROVE  Queue' = Queue
BY DEF Queue, RingAt, Pending, First, Advance

\* Publishing appends, and loses everything when there is no room.
LEMMA PublishAppends ==
    ASSUME IInv, NEW e \in Entries, eventPublish(e)
    PROVE  Queue' = IF Len(Queue) < MaxEvents - 1 THEN Append(Queue, e) ELSE <<>>
<1>1. TypeOK /\ TypeOK'
  BY PublishPreservesIInv DEF IInv
<1>2. First' = First
  BY DEF eventPublish, loopVars, First, Advance
<1>3. /\ events' = [events EXCEPT ![eventsWriteIndex] = e]
      /\ eventsWriteIndex' = Advance(eventsWriteIndex)
  BY DEF eventPublish
<1>4. First \in Indices /\ eventsWriteIndex \in Indices
  BY <1>1, RingIsInRange DEF TypeOK
<1>5. Pending' = IF Pending < MaxEvents - 1 THEN Pending + 1 ELSE 0
  BY <1>2, <1>3, <1>4, EventAssumption DEF Pending, Advance, Indices
<1>6. \A k : IndexAt(k)' = IndexAt(k)
  BY <1>2 DEF IndexAt
<1>7. CASE Pending = MaxEvents - 1
  <2>1. Pending' = 0 /\ ~(Pending < MaxEvents - 1)
    BY <1>5, <1>7, EventAssumption
  <2>2. Queue' = <<>>
    BY <2>1, <1>1, QueueStaysASequence, EmptySeq
  <2> QED BY <2>1, <2>2, <1>1, QueueIsASequence
<1>8. CASE Pending < MaxEvents - 1
  <2>1. Pending \in Nat /\ Pending' = Pending + 1
    BY <1>5, <1>8, <1>1, RingIsInRange, EventAssumption
  <2>2. \A k \in 1 .. Pending : events'[IndexAt(k)] = events[IndexAt(k)]
    BY <1>1, <1>3, RingIsInRange DEF TypeOK
  <2>3. IndexAt(Pending + 1) = eventsWriteIndex
    BY <1>4, EventAssumption DEF IndexAt, Pending, Indices
  <2>4. events'[IndexAt(Pending + 1)] = e
    BY <2>3, <1>1, <1>3 DEF TypeOK
  <2>5. Queue' \in Seq(Entries) /\ Len(Queue') = Pending + 1
    BY <1>1, <2>1, QueueStaysASequence
  <2>6. Append(Queue, e) \in Seq(Entries) /\ Len(Append(Queue, e)) = Pending + 1
    BY <1>1, QueueIsASequence, AppendProperties
  <2>7. ASSUME NEW k \in 1 .. Pending + 1
        PROVE  Queue'[k] = Append(Queue, e)[k]
    <3>1. Queue'[k] = events'[IndexAt(k)]
      BY <1>1, <1>6, <2>1, QueueStaysASequence
    <3>2. CASE k = Pending + 1
      <4>1. Append(Queue, e)[k] = e
        BY <3>2, <1>1, QueueIsASequence, AppendProperties
      <4> QED BY <3>1, <3>2, <2>4, <4>1
    <3>3. CASE k # Pending + 1
      <4>1. k \in 1 .. Pending
        BY <3>3, <2>1
      <4>2. Append(Queue, e)[k] = Queue[k]
        BY <4>1, <1>1, QueueIsASequence, AppendProperties
      <4> QED BY <3>1, <4>1, <4>2, <2>2, <1>1, QueueIsASequence
    <3> QED BY <3>2, <3>3
  <2>8. Queue' = Append(Queue, e)
    BY <2>5, <2>6, <2>7, SeqEqual
  <2> QED BY <2>8, <1>8, <1>1, QueueIsASequence
<1> QED BY <1>7, <1>8, <1>1, RingIsInRange, EventAssumption

\* Beginning a dispatch takes the oldest event off the queue.
LEMMA BeginTakesTheHead ==
    ASSUME IInv, IInv', Begin
    PROVE  Queue # <<>> /\ event' = Head(Queue) /\ Queue' = Tail(Queue)
<1>1. TypeOK /\ TypeOK'
  BY DEF IInv
<1>2. /\ First = eventsReadIndex
      /\ First' = Advance(eventsReadIndex)
      /\ eventsReadIndex # eventsWriteIndex
      /\ UNCHANGED <<events, eventsReadIndex, eventsWriteIndex>>
      /\ event' = events[eventsReadIndex]
  <2>1. event' \in Entries
    BY <1>1, RingIsInRange DEF Begin, TypeOK
  <2> QED BY <2>1, EventAssumption DEF Begin, First, IsEmpty, ringVars, Advance
<1>3. eventsReadIndex \in Indices /\ eventsWriteIndex \in Indices
  BY <1>1 DEF TypeOK
<1>4. Pending \in Nat \ {0} /\ Pending' = Pending - 1
  BY <1>2, <1>3, EventAssumption DEF Pending, Indices, Advance
<1>5. \A k \in 1 .. Pending - 1 : IndexAt(k)' = IndexAt(k + 1)
  BY <1>1, <1>2, <1>3, <1>4, RingIsInRange, EventAssumption DEF IndexAt, Indices, Advance
<1>6. IndexAt(1) = eventsReadIndex
  BY <1>2, <1>3, EventAssumption DEF IndexAt, Indices
<1>7. Queue # <<>>
  BY <1>1, <1>4, QueueIsASequence, EmptySeq
<1>8. Head(Queue) = Queue[1]
  BY <1>1, <1>7, QueueIsASequence
<1>9. event' = Head(Queue)
  BY <1>1, <1>2, <1>4, <1>6, <1>8, QueueIsASequence
<1>10. /\ Tail(Queue) \in Seq(Entries)
       /\ Len(Tail(Queue)) = Pending - 1
       /\ \A k \in 1 .. Pending - 1 : Tail(Queue)[k] = Queue[k + 1]
  BY <1>1, <1>7, QueueIsASequence, HeadTailProperties
<1>11. ASSUME NEW k \in 1 .. Pending - 1
       PROVE  Queue'[k] = Tail(Queue)[k]
  <2>1. Queue'[k] = events[IndexAt(k + 1)]
    BY <1>1, <1>2, <1>4, <1>5, QueueStaysASequence
  <2>2. Queue[k + 1] = events[IndexAt(k + 1)]
    BY <1>1, <1>4, QueueIsASequence
  <2> QED BY <2>1, <2>2, <1>10
<1>12. Queue' = Tail(Queue)
  BY <1>1, <1>4, <1>10, <1>11, QueueStaysASequence, SeqEqual
<1> QED BY <1>7, <1>9, <1>12

\* Ending a dispatch gives back the ring entry that the queue had already left.
LEMMA EndKeepsTheQueue ==
    ASSUME IInv, End
    PROVE  Queue' = Queue
<1>1. First' = First /\ UNCHANGED <<events, eventsWriteIndex>>
  BY DEF End, First
<1> QED BY <1>1 DEF Queue, RingAt, Pending
-----------------------------------------------------------------------------
(***************************************************************************)
(* The table: who is subscribed and who is still owed the current event.   *)
(***************************************************************************)

\* A free slot means that the abstract queue has room for a subscriber too.
LEMMA FreeSlotMeansRoom ==
    ASSUME TypeOK, NEW k \in Slots, subscriptions[k] = Null
    PROVE  /\ IsFiniteSet(Subscribed \cap Handled)
           /\ Cardinality(Subscribed \cap Handled) < MaxSubscriptions
<1> DEFINE Taken == {j \in Slots : subscriptions[j] # Null}
           holder == [j \in Taken |-> subscriptions[j]]
<1>1. IsFiniteSet(Slots) /\ Cardinality(Slots) = MaxSubscriptions
  BY FS_Interval, EventAssumption DEF Slots
<1>2. /\ IsFiniteSet(Slots \ {k})
      /\ Cardinality(Slots \ {k}) = MaxSubscriptions - 1
  BY <1>1, FS_RemoveElement
<1>3. Taken \in SUBSET (Slots \ {k})
  OBVIOUS
<1>4. IsFiniteSet(Taken) /\ Cardinality(Taken) <= MaxSubscriptions - 1
  BY <1>2, <1>3, FS_Subset
<1>5. holder \in Surjection(Taken, Subscribed)
  BY DEF Surjection, Subscribed
<1>6. IsFiniteSet(Subscribed) /\ Cardinality(Subscribed) <= Cardinality(Taken)
  BY <1>4, <1>5, FS_Surjection
<1>7. /\ IsFiniteSet(Subscribed \cap Handled)
      /\ Cardinality(Subscribed \cap Handled) <= Cardinality(Subscribed)
  BY <1>6, FS_Subset
<1>8. /\ Cardinality(Taken) \in Nat
      /\ Cardinality(Subscribed) \in Nat
      /\ Cardinality(Subscribed \cap Handled) \in Nat
  BY <1>4, <1>6, <1>7, FS_CardinalityType
<1> HIDE DEF Taken
<1> QED BY <1>4, <1>6, <1>7, <1>8, EventAssumption

\* The instance has a copy of its own of the operator.
LEMMA SameCardinality == \A S : Fifo!Cardinality(S) = Cardinality(S)
BY DEF Fifo!Cardinality, Cardinality

\* eventSubscribe() is a Subscribe, or a stutter if s has no handler or a slot.
LEMMA SubscribeRefines ==
    ASSUME IInv, IInv', NEW s \in Subscriptions, eventSubscribe(s)
    PROVE  [Fifo!Next]_(Fifo!fifoVars)
<1> PICK k \in Slots : Settles(s, k) /\ Put(s, k)
  BY DEF eventSubscribe
<1>1. TypeOK /\ LateInv
  BY DEF IInv
<1>2. /\ subscriptions' = [subscriptions EXCEPT ![k] = s]
      /\ late' = IF event # NoEvent /\ s \notin Subscribed THEN late \cup {s} ELSE late
      /\ UNCHANGED <<events, eventsReadIndex, eventsWriteIndex, event, i, inHandler>>
  BY DEF Put, ringVars, loopVars
<1>3. Queue' = Queue
  BY <1>2, SameRingSameQueue
<1>4. s # Null
  BY EventAssumption
<1>5. Subscribed' = Subscribed \cup {s}
  BY <1>1, <1>2, <1>4 DEF Subscribed, Settles, TypeOK
<1>6. CASE s \in Subscribed
  <2>1. subscriptions[k] = s
    BY <1>6 DEF Settles
  <2>2. subscriptions' = subscriptions
    BY <1>1, <1>2, <2>1 DEF TypeOK
  <2>3. UNCHANGED Fifo!fifoVars
    BY <1>2, <1>3, <1>6, <2>2 DEF Fifo!fifoVars, Subscribed, Owed, Ahead, Matches
  <2> QED BY <2>3
<1>7. CASE s \notin Subscribed
  <2>1. subscriptions[k] = Null
    BY <1>7, <1>4 DEF Settles, Subscribed
  <2>2. s \notin late
    BY <1>1, <1>7 DEF LateInv
  <2>3. Owed' = Owed
    <3>1. CASE event = NoEvent
      BY <1>2, <3>1 DEF Owed
    <3>2. CASE event # NoEvent
      <4>1. Ahead' = Ahead
        BY <1>2 DEF Ahead
      <4>2. {subscriptions'[j] : j \in Ahead} \ {s} \subseteq {subscriptions[j] : j \in Ahead}
        BY <1>1, <1>2 DEF TypeOK, Ahead
      <4>3. {subscriptions[j] : j \in Ahead} \ {Null} \subseteq {subscriptions'[j] : j \in Ahead}
        BY <1>1, <1>2, <2>1 DEF TypeOK, Ahead
      <4>4. late' = late \cup {s}
        BY <1>2, <1>7, <3>2
      <4>5. \A t : Matches(t)' = Matches(t) /\ (Matches(t) => t # Null)
        BY <1>2 DEF Matches
      <4>6. s \notin {subscriptions[j] : j \in Ahead}
        BY <1>7, <1>4 DEF Subscribed, Ahead
      <4>7. Owed = {t \in {subscriptions[j] : j \in Ahead} : Matches(t)} \ late
        BY <3>2 DEF Owed
      <4>8. Owed' = {t \in {subscriptions'[j] : j \in Ahead} : Matches(t)} \ (late \cup {s})
        BY <1>2, <3>2, <4>1, <4>4, <4>5 DEF Owed
      <4> QED BY <4>2, <4>3, <4>5, <4>6, <4>7, <4>8
    <3> QED BY <3>1, <3>2
  <2>4. CASE s \in Handled
    <3>1. Cardinality(Subscribed \cap Handled) < MaxSubscriptions
      BY <1>1, <2>1, FreeSlotMeansRoom
    <3>2. (Subscribed \cap Handled)' = (Subscribed \cap Handled) \cup {s}
      BY <1>5, <2>4
    <3>3. (late \cap Handled)' = IF event = NoEvent THEN late \cap Handled
                                                    ELSE (late \cap Handled) \cup {s}
      BY <1>2, <1>7, <2>4
    <3>4. Fifo!Subscribe(s)
      BY <1>2, <1>3, <1>7, <2>3, <3>1, <3>2, <3>3, SameCardinality DEF Fifo!Subscribe
    <3> QED BY <3>4, <2>4 DEF Fifo!Next
  <2>5. CASE s \notin Handled
    <3>1. (Subscribed \cap Handled)' = Subscribed \cap Handled
      BY <1>5, <2>5
    <3>2. (late \cap Handled)' = late \cap Handled
      BY <1>2, <2>5
    <3> QED BY <1>2, <1>3, <2>3, <3>1, <3>2 DEF Fifo!fifoVars
  <2> QED BY <2>4, <2>5
<1> QED BY <1>6, <1>7

\* eventUnsubscribe() is an Unsubscribe, or a stutter if s has no handler.
LEMMA UnsubscribeRefines ==
    ASSUME IInv, NEW s \in Subscriptions, eventUnsubscribe(s)
    PROVE  [Fifo!Next]_(Fifo!fifoVars)
<1> PICK k \in Slots :
        /\ subscriptions[k] = s
        /\ subscriptions' = [subscriptions EXCEPT ![k] = Null]
        /\ late' = late \ {s}
        /\ UNCHANGED <<ringVars, loopVars, initialising>>
  BY DEF eventUnsubscribe
<1>1. TypeOK
  BY DEF IInv
<1>2. UNCHANGED <<events, eventsReadIndex, eventsWriteIndex, event, i, inHandler>>
  BY DEF ringVars, loopVars
<1>3. Queue' = Queue
  BY <1>2, SameRingSameQueue
<1>4. Subscribed' = Subscribed \ {s}
  BY UnsubscribePreservesIInv
<1>5. \A j \in Slots : subscriptions[j] = s => j = k
  BY EventAssumption DEF IInv, NoDuplicateSubscriptions
<1>6. Owed' = Owed \ {s}
  <2>1. CASE event = NoEvent
    BY <1>2, <2>1 DEF Owed
  <2>2. CASE event # NoEvent
    <3>1. Ahead' = Ahead /\ Ahead \subseteq Slots
      BY <1>2 DEF Ahead
    <3>2. {subscriptions'[j] : j \in Ahead} \ {Null} = {subscriptions[j] : j \in Ahead} \ {Null, s}
      BY <1>1, <1>5, <3>1, EventAssumption DEF TypeOK
    <3>3. \A t : Matches(t)' = Matches(t) /\ (Matches(t) => t # Null)
      BY <1>2 DEF Matches
    <3>4. Owed = {t \in {subscriptions[j] : j \in Ahead} : Matches(t)} \ late
      BY <2>2 DEF Owed
    <3>5. Owed' = {t \in {subscriptions'[j] : j \in Ahead} : Matches(t)} \ (late \ {s})
      BY <1>2, <2>2, <3>1, <3>3 DEF Owed
    <3> QED BY <3>2, <3>3, <3>4, <3>5
  <2> QED BY <2>1, <2>2
<1>7. CASE s \in Handled
  <2>1. Fifo!Unsubscribe(s)
    BY <1>2, <1>3, <1>4, <1>6, <1>7 DEF Fifo!Unsubscribe
  <2> QED BY <2>1, <1>7 DEF Fifo!Next
<1>8. CASE s \notin Handled
  <2>1. Owed' = Owed
    BY <1>6, <1>8 DEF Owed, Matches
  <2> QED BY <1>2, <1>3, <1>4, <1>8, <2>1 DEF Fifo!fifoVars
<1> QED BY <1>7, <1>8

\* eventPublish() is a Publish.
LEMMA PublishRefines ==
    ASSUME IInv, NEW e \in Entries, eventPublish(e)
    PROVE  Fifo!Next
<1>1. Queue' = IF Len(Queue) < MaxEvents - 1 THEN Append(Queue, e) ELSE <<>>
  BY PublishAppends
<1>2. UNCHANGED <<subscriptions, event, i, inHandler, late>>
  BY DEF eventPublish, loopVars
<1>3. UNCHANGED <<event, Subscribed \cap Handled, Owed, late \cap Handled>>
  BY <1>2 DEF Subscribed, Owed, Ahead, Matches
<1>4. Fifo!Publish(e)
  BY <1>1, <1>3 DEF Fifo!Publish
<1> QED BY <1>4 DEF Fifo!Next

\* Taking an event from the ring is a Begin.
LEMMA BeginRefines ==
    ASSUME IInv, IInv', Begin
    PROVE  Fifo!Next
<1>1. event = NoEvent /\ Queue # <<>> /\ event' = Head(Queue) /\ Queue' = Tail(Queue)
  BY BeginTakesTheHead DEF Begin
<1>2. Subscribed' = Subscribed /\ late' = {} /\ event' # NoEvent
  <2>1. event' \in Entries
    BY DEF Begin, IInv, TypeOK
  <2> QED BY <2>1, EventAssumption DEF Begin, Subscribed
<1>3. Ahead' = Slots
  BY EventAssumption DEF Begin, IInv, LoopInv, Ahead, Slots
<1>4. Owed' = {s \in Subscribed \cap Handled : TypeOf[s] = Head(Queue).type}
  BY <1>1, <1>2, <1>3 DEF Begin, Owed, Subscribed, Matches
<1>5. Fifo!Begin
  BY <1>1, <1>2, <1>4 DEF Fifo!Begin, Fifo!Wants
<1> QED BY <1>5 DEF Fifo!Next

\* Passing over a slot that does not match changes nothing the queue promises.
LEMMA SkipRefines ==
    ASSUME IInv, Skip
    PROVE  UNCHANGED Fifo!fifoVars
<1>1. UNCHANGED <<subscriptions, events, eventsReadIndex, eventsWriteIndex, event, late>>
  BY DEF Skip, ringVars
<1>2. Queue' = Queue
  BY <1>1, SameRingSameQueue
<1>3. Ahead = Ahead' \cup {i} /\ i \in Slots
  BY EventAssumption DEF IInv, TypeOK, Skip, Ahead, Slots
<1>4. Owed' = Owed
  BY <1>1, <1>3 DEF Owed, Matches, Skip
<1> QED BY <1>1, <1>2, <1>4 DEF Fifo!fifoVars, Subscribed

\* Calling a slot's handler delivers to its subscription.
LEMMA CallHandlerRefines ==
    ASSUME IInv, CallHandler
    PROVE  Fifo!Next
<1> DEFINE s == subscriptions[i]
<1>1. /\ UNCHANGED <<subscriptions, events, eventsReadIndex, eventsWriteIndex, event, i>>
      /\ late' = late \ {s}
      /\ event # NoEvent
  BY DEF CallHandler, ringVars
<1>2. i \in Slots
  BY EventAssumption DEF IInv, TypeOK, CallHandler, Slots
<1>3. s \in Handled /\ TypeOf[s] = event.type /\ s # Null
  BY DEF CallHandler, Matches
<1>4. Queue' = Queue
  BY <1>1, SameRingSameQueue
<1>5. Ahead = Ahead' \cup {i} /\ i \notin Ahead'
  BY <1>2 DEF CallHandler, Ahead, Slots
<1>6. \A j \in Slots : subscriptions[j] = s => j = i
  BY <1>2, <1>3 DEF IInv, NoDuplicateSubscriptions
<1>7. Owed' = Owed \ {s}
  BY <1>1, <1>3, <1>5, <1>6 DEF Owed, Matches, Ahead
<1>8. s \in Owed \cup (late \cap Handled)
  BY <1>1, <1>3, <1>5 DEF Owed, Matches
<1>9. Fifo!Deliver(s)
  BY <1>1, <1>3, <1>4, <1>7, <1>8 DEF Fifo!Deliver, Fifo!Wants, Subscribed
<1> QED BY <1>3, <1>9 DEF Fifo!Next

\* Moving on from a slot whose handler has run changes nothing promised.
LEMMA HandlerReturnsRefines ==
    ASSUME IInv, HandlerReturns
    PROVE  UNCHANGED Fifo!fifoVars
<1>1. UNCHANGED <<subscriptions, events, eventsReadIndex, eventsWriteIndex, event, late>>
  BY DEF HandlerReturns, ringVars
<1>2. Queue' = Queue
  BY <1>1, SameRingSameQueue
<1>3. Ahead' = Ahead
  <2>1. i \in Nat /\ i' = i + 1
    BY EventAssumption DEF IInv, TypeOK, HandlerReturns
  <2>2. Ahead = {k \in Slots : k > i}
    BY <2>1 DEF Ahead, HandlerReturns, Slots
  <2>3. Ahead' = {k \in Slots : k > i' \/ k = i'}
    BY DEF Ahead, HandlerReturns
  <2> QED BY <2>1, <2>2, <2>3 DEF Slots
<1>4. Owed' = Owed
  BY <1>1, <1>3 DEF Owed, Matches
<1> QED BY <1>1, <1>2, <1>4 DEF Fifo!fifoVars, Subscribed

\* The loop only ends with every standing subscription called.
LEMMA EndRefines ==
    ASSUME IInv, End
    PROVE  Fifo!Next
<1>1. Queue' = Queue
  BY EndKeepsTheQueue
<1>2. Ahead = {}
  BY EventAssumption DEF End, Ahead, Slots
<1>3. Owed = {} /\ Owed' = {}
  BY <1>2 DEF Owed, End
<1>4. Fifo!End
  BY <1>1, <1>3 DEF Fifo!End, End, Subscribed
<1> QED BY <1>4 DEF Fifo!Next
-----------------------------------------------------------------------------
\* The empty ring and table are the empty queue.
LEMMA InitRefines == Init => Fifo!Init
<1> SUFFICES ASSUME Init PROVE Fifo!Init
  OBVIOUS
<1>1. TypeOK
  BY InitEstablishesIInv DEF IInv
<1>2. Pending = 0
  BY EventAssumption DEF Init, Pending, First
<1>3. Queue = <<>>
  BY <1>1, <1>2, QueueIsASequence, EmptySeq
<1>4. Subscribed = {}
  BY DEF Init, Subscribed
<1> QED BY <1>3, <1>4 DEF Init, Fifo!Init, Owed

\* Every step of the dispatcher and its callers is a step of the queue, or a stutter.
LEMMA StepRefines == IInv /\ [Next]_vars => [Fifo!Next]_(Fifo!fifoVars)
<1> SUFFICES ASSUME IInv, [Next]_vars PROVE [Fifo!Next]_(Fifo!fifoVars)
  OBVIOUS
<1>1. IInv'
  BY NextPreservesIInv
<1>2. CASE \E s \in Subscriptions : eventSubscribe(s) \/ eventUnsubscribe(s)
  BY <1>1, <1>2, SubscribeRefines, UnsubscribeRefines
<1>3. CASE \E e \in Entries : eventPublish(e)
  BY <1>3, PublishRefines
<1>4. CASE Begin
  BY <1>1, <1>4, BeginRefines
<1>5. CASE Skip
  BY <1>5, SkipRefines
<1>6. CASE CallHandler
  BY <1>6, CallHandlerRefines
<1>7. CASE HandlerReturns
  BY <1>7, HandlerReturnsRefines
<1>8. CASE End
  BY <1>8, EndRefines
<1>9. CASE PollIdle
  BY <1>9, PublishRefines, EventAssumption DEF PollIdle
<1>10. CASE Initialised \/ UNCHANGED vars
  <2>1. UNCHANGED <<subscriptions, events, eventsReadIndex, eventsWriteIndex, event, i,
                    inHandler, late>>
    BY <1>10 DEF Initialised, vars, ringVars, loopVars
  <2>2. Queue' = Queue
    BY <2>1, SameRingSameQueue
  <2> QED BY <2>1, <2>2 DEF Fifo!fifoVars, Subscribed, Owed, Ahead, Matches
<1> QED BY <1>2, <1>3, <1>4, <1>5, <1>6, <1>7, <1>8, <1>9, <1>10 DEF Next, Calls, Dispatch

\* The ring, the table and the interruptible loop keep the promise of EventFifo:
\* events are dispatched in the order they were published, each to every
\* standing subscription once, and nothing is lost but by filling the ring.
THEOREM EventImplementsFifo == Spec => ImplementsFifo
<1>1. Init => Fifo!Init
  BY InitRefines
<1>2. IInv /\ [Next]_vars => [Fifo!Next]_(Fifo!fifoVars)
  BY StepRefines
<1> QED BY <1>1, <1>2, IInvHolds, PTL DEF Spec, ImplementsFifo, Fifo!Spec
=============================================================================

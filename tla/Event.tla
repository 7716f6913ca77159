------------------------------- MODULE Event -------------------------------
(***************************************************************************)
(* Platform/Event.c and Platform/Poll.c: the table of subscriptions, the   *)
(* ring of pending events and the dispatcher that main() polls forever.    *)
(*                                                                         *)
(* The firmware has one thread and keeps interrupts off, so the only       *)
(* interleaving is the one inside eventDispatchNext(): the code it calls   *)
(* may publish, subscribe and unsubscribe while the loop is part way along *)
(* the table, and the read index only moves once the loop has finished.    *)
(* Each turn of that loop is a step here.                                  *)
(*                                                                         *)
(* `late' is a history variable: it records which subscriptions were made  *)
(* during the dispatch in progress, and no guard reads it.                 *)
(***************************************************************************)
EXTENDS Integers, Sequences, FiniteSets

CONSTANTS
    Subscriptions,      \* the static EventSubscription structures
    TypeOf,             \* subscription -> event type
    Handled,            \* the subscriptions whose handler is not null
    Types,              \* event types
    Args,               \* event argument pointers
    Idle,               \* the entry published by poll(): ALL_EVENTS_DISPATCHED
    MaxSubscriptions,
    MaxEvents,
    Null,               \* an empty slot
    NoEvent             \* no dispatch in progress

Entries == [type : Types, args : Args]

ASSUME EventAssumption ==
    /\ MaxSubscriptions \in Nat \ {0}
    /\ MaxEvents \in Nat /\ MaxEvents >= 2
    /\ TypeOf \in [Subscriptions -> Types]
    /\ Handled \subseteq Subscriptions
    /\ Idle \in Entries
    /\ Null \notin Subscriptions
    /\ NoEvent \notin Entries

VARIABLES
    subscriptions,      \* slot -> subscription or Null
    events,             \* ring of entries
    eventsReadIndex,
    eventsWriteIndex,
    event,              \* the copy being dispatched, or NoEvent
    i,                  \* the dispatcher's loop index
    inHandler,          \* subscriptions[i]->handler is running
    initialising,       \* initialise() has not returned to main() yet
    late                \* history: subscribed during this dispatch

ringVars == <<events, eventsReadIndex, eventsWriteIndex>>
loopVars == <<event, i, inHandler>>
vars == <<subscriptions, ringVars, loopVars, initialising, late>>

Slots == 0 .. MaxSubscriptions - 1
Indices == 0 .. MaxEvents - 1

\* The wrap of both ring indices: if (++index >= MAX_EVENTS) index = 0.
Advance(index) == IF index + 1 >= MaxEvents THEN 0 ELSE index + 1

Subscribed == {subscriptions[k] : k \in Slots} \ {Null}

Init ==
    /\ subscriptions = [k \in Slots |-> Null]
    /\ events \in [Indices -> {Idle}]
    /\ eventsReadIndex = 0
    /\ eventsWriteIndex = 0
    /\ event = NoEvent
    /\ i = 0
    /\ inHandler = FALSE
    /\ initialising = TRUE
    /\ late = {}
-----------------------------------------------------------------------------
(***************************************************************************)
(* The operations other code calls.                                        *)
(***************************************************************************)

\* Mutant of Settles: the first free slot, whether or not s has one already.
SettlesOnFirstFree(s, k) ==
    /\ subscriptions[k] = Null
    /\ \A j \in Slots : j < k => subscriptions[j] # Null

\* The slot eventSubscribe() settles on: the last that already holds s, else
\* the first that is free.
Settles(s, k) ==
    \/ /\ subscriptions[k] = s
       /\ \A j \in Slots : j > k => subscriptions[j] # s
    \/ /\ s \notin Subscribed
       /\ subscriptions[k] = Null
       /\ \A j \in Slots : j < k => subscriptions[j] # Null

Put(s, k) ==
    /\ subscriptions' = [subscriptions EXCEPT ![k] = s]
    /\ late' = IF event # NoEvent /\ s \notin Subscribed
                 THEN late \cup {s} ELSE late
    /\ UNCHANGED <<ringVars, loopVars, initialising>>

\* With no slot free the subscription is silently dropped, a stutter.
eventSubscribe(s) == \E k \in Slots : Settles(s, k) /\ Put(s, k)

eventUnsubscribe(s) ==
    \E k \in Slots :
        /\ subscriptions[k] = s
        /\ \A j \in Slots : j < k => subscriptions[j] # s
        /\ subscriptions' = [subscriptions EXCEPT ![k] = Null]
        /\ late' = late \ {s}
        /\ UNCHANGED <<ringVars, loopVars, initialising>>

\* Nothing checks for a full ring: the write index may catch the read index up.
eventPublish(e) ==
    /\ events' = [events EXCEPT ![eventsWriteIndex] = e]
    /\ eventsWriteIndex' = Advance(eventsWriteIndex)
    /\ UNCHANGED <<subscriptions, eventsReadIndex, loopVars, initialising, late>>
-----------------------------------------------------------------------------
(***************************************************************************)
(* eventDispatchNext(), one turn of its loop at a time.                    *)
(***************************************************************************)
IsEmpty == eventsReadIndex = eventsWriteIndex

Matches(s) == s # Null /\ s \in Handled /\ TypeOf[s] = event.type

\* Mutant of Begin: the loop starts where the last one ended.
BeginWithoutReset ==
    /\ ~initialising
    /\ event = NoEvent
    /\ ~IsEmpty
    /\ event' = events[eventsReadIndex]
    /\ late' = {}
    /\ UNCHANGED <<subscriptions, ringVars, i, inHandler, initialising>>

Begin ==
    /\ ~initialising
    /\ event = NoEvent
    /\ ~IsEmpty
    /\ event' = events[eventsReadIndex]
    /\ i' = 0
    /\ late' = {}
    /\ UNCHANGED <<subscriptions, ringVars, inHandler, initialising>>

Skip ==
    /\ event # NoEvent /\ ~inHandler
    /\ i < MaxSubscriptions
    /\ ~Matches(subscriptions[i])
    /\ i' = i + 1
    /\ UNCHANGED <<subscriptions, ringVars, event, inHandler, initialising, late>>

CallHandler ==
    /\ event # NoEvent /\ ~inHandler
    /\ i < MaxSubscriptions
    /\ Matches(subscriptions[i])
    /\ inHandler' = TRUE
    /\ late' = late \ {subscriptions[i]}
    /\ UNCHANGED <<subscriptions, ringVars, event, i, initialising>>

HandlerReturns ==
    /\ inHandler
    /\ inHandler' = FALSE
    /\ i' = i + 1
    /\ UNCHANGED <<subscriptions, ringVars, event, initialising, late>>

\* Mutant of End: the event stays in the ring.
EndWithoutAdvance ==
    /\ event # NoEvent
    /\ i = MaxSubscriptions
    /\ event' = NoEvent
    /\ late' = {}
    /\ UNCHANGED <<subscriptions, ringVars, i, inHandler, initialising>>

End ==
    /\ event # NoEvent
    /\ i = MaxSubscriptions
    /\ event' = NoEvent
    /\ eventsReadIndex' = Advance(eventsReadIndex)
    /\ late' = {}
    /\ UNCHANGED <<subscriptions, events, eventsWriteIndex, i, inHandler, initialising>>

\* poll() with nothing to dispatch.
PollIdle ==
    /\ ~initialising
    /\ event = NoEvent
    /\ IsEmpty
    /\ eventPublish(Idle)

\* initialise() returns and main() starts polling.
Initialised ==
    /\ initialising
    /\ initialising' = FALSE
    /\ UNCHANGED <<subscriptions, ringVars, loopVars, late>>

\* Code that calls the module runs in initialise() or in a handler.
Calls ==
    /\ initialising \/ inHandler
    /\ \/ \E s \in Subscriptions : eventSubscribe(s) \/ eventUnsubscribe(s)
       \/ \E e \in Entries : eventPublish(e)

Dispatch == Begin \/ Skip \/ CallHandler \/ HandlerReturns \/ End

Next == Calls \/ Dispatch \/ PollIdle \/ Initialised

Spec == Init /\ [][Next]_vars

\* Every handler returns and main() polls for ever; initialise() terminates.
FairSpec == Spec /\ WF_vars(Initialised) /\ WF_vars(Dispatch) /\ WF_vars(PollIdle)
-----------------------------------------------------------------------------
(***************************************************************************)
(* Properties.                                                             *)
(***************************************************************************)

\* The indices stay inside the two arrays (Event.c:85, 99, 111).
TypeOK ==
    /\ subscriptions \in [Slots -> Subscriptions \cup {Null}]
    /\ events \in [Indices -> Entries]
    /\ eventsReadIndex \in Indices
    /\ eventsWriteIndex \in Indices
    /\ event \in Entries \cup {NoEvent}
    /\ i \in 0 .. MaxSubscriptions
    /\ inHandler \in BOOLEAN
    /\ initialising \in BOOLEAN
    /\ late \subseteq Subscriptions

\* However subscribing and unsubscribing interleave with each other and with
\* dispatching, a subscription never occupies two slots, so one unsubscription
\* is enough and no handler is called twice for one slot scan (Event.c:54-60).
NoDuplicateSubscriptions ==
    \A j, k \in Slots :
        subscriptions[j] = subscriptions[k] /\ subscriptions[j] # Null => j = k

(***************************************************************************)
(* The refinement mapping.  While an event is being dispatched its ring    *)
(* entry is spent but still counted by the read index, so the pending      *)
(* events start one further on.                                            *)
(***************************************************************************)
First == IF event = NoEvent THEN eventsReadIndex ELSE Advance(eventsReadIndex)

Pending ==
    IF eventsWriteIndex >= First THEN eventsWriteIndex - First
                                 ELSE eventsWriteIndex + MaxEvents - First

RingAt(k) ==
    events[IF First + k - 1 >= MaxEvents THEN First + k - 1 - MaxEvents
                                         ELSE First + k - 1]

Queue == [k \in 1 .. Pending |-> RingAt(k)]

\* The slots the loop has still to look at, and the subscriptions in them that
\* were there when the event's dispatch began.
Ahead == {k \in Slots : k > i \/ (k = i /\ ~inHandler)}

Owed ==
    IF event = NoEvent THEN {}
    ELSE {s \in {subscriptions[k] : k \in Ahead} : Matches(s)} \ late

Fifo == INSTANCE EventFifo WITH
    Capacity <- MaxEvents - 1,
    queue <- Queue,
    current <- event,
    subscribers <- Subscribed \cap Handled,
    owed <- Owed,
    late <- late \cap Handled,
    Subscriptions <- Handled

\* The ring, the table and the loop implement the abstract event queue: in
\* order, once to each standing subscription, everything lost on overflow.
ImplementsFifo == Fifo!Spec

\* An event that is pending is dispatched, or else lost with all the others.
PendingIsDispatchedOrLost ==
    \A e \in Entries :
        (\E k \in 1 .. Pending : Queue[k] = e) ~> (event = e \/ Pending = 0)
=============================================================================

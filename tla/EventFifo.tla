----------------------------- MODULE EventFifo -----------------------------
(***************************************************************************)
(* What Platform/Event.c promises its users, without its ring or its       *)
(* table: published events are dispatched one at a time, in order, each to *)
(* every subscription of its type.  The promise has an edge: there is room *)
(* for Capacity pending events, and publishing one more loses all of them. *)
(*                                                                         *)
(* A subscription made while an event is being dispatched may or may not   *)
(* see that event (it depends on which free slot it was given), so the     *)
(* subscribers are split: `owed' must still be called for the current      *)
(* event, `late' subscribed during it and may be.                          *)
(***************************************************************************)
EXTENDS Integers, Sequences, FiniteSets

CONSTANTS
    Subscriptions,      \* the static EventSubscription structures
    Entries,            \* what can be queued: records with a field "type"
    TypeOf,             \* subscription -> event type
    Capacity,           \* pending events that can be held
    MaxSubscriptions,   \* subscriptions that can be held
    NoEvent             \* "no event is being dispatched"

VARIABLES
    queue,              \* pending events, oldest first
    current,            \* the event being dispatched, or NoEvent
    subscribers,
    owed,
    late

fifoVars == <<queue, current, subscribers, owed, late>>

Wants(s, e) == TypeOf[s] = e.type

Init ==
    /\ queue = <<>>
    /\ current = NoEvent
    /\ subscribers = {}
    /\ owed = {}
    /\ late = {}

Publish(e) ==
    /\ queue' = IF Len(queue) < Capacity THEN Append(queue, e) ELSE <<>>
    /\ UNCHANGED <<current, subscribers, owed, late>>

Subscribe(s) ==
    /\ s \notin subscribers
    /\ Cardinality(subscribers) < MaxSubscriptions
    /\ subscribers' = subscribers \cup {s}
    /\ late' = IF current = NoEvent THEN late ELSE late \cup {s}
    /\ UNCHANGED <<queue, current, owed>>

Unsubscribe(s) ==
    /\ subscribers' = subscribers \ {s}
    /\ owed' = owed \ {s}
    /\ late' = late \ {s}
    /\ UNCHANGED <<queue, current>>

Begin ==
    /\ current = NoEvent
    /\ queue # <<>>
    /\ current' = Head(queue)
    /\ queue' = Tail(queue)
    /\ owed' = {s \in subscribers : Wants(s, Head(queue))}
    /\ late' = {}
    /\ UNCHANGED subscribers

Deliver(s) ==
    /\ current # NoEvent
    /\ s \in owed \cup late
    /\ Wants(s, current)
    /\ owed' = owed \ {s}
    /\ late' = late \ {s}
    /\ UNCHANGED <<queue, current, subscribers>>

End ==
    /\ current # NoEvent
    /\ owed = {}
    /\ current' = NoEvent
    /\ late' = {}
    /\ UNCHANGED <<queue, subscribers, owed>>

Next ==
    \/ \E e \in Entries : Publish(e)
    \/ \E s \in Subscriptions : Subscribe(s) \/ Unsubscribe(s) \/ Deliver(s)
    \/ Begin
    \/ End

Spec == Init /\ [][Next]_fifoVars
=============================================================================

------------------------------ MODULE MainLoop ------------------------------
(***************************************************************************)
(* The main loop as the rest of the firmware sees it: a queue of published *)
(* events, dispatched one at a time, and the wake-up from sleep that       *)
(* follows when the queue has run dry (Event.c, Poll.c, PowerManagement.c).*)
(*                                                                         *)
(* The queue is the one that module EventFifo promises and module Event    *)
(* shows Event.c to implement; here every subscription is permanent, so an *)
(* event's handlers are one step.  The exception is WOKEN_FROM_SLEEP, whose*)
(* handlers run the near scheduler's callbacks: `waking' is its dispatch   *)
(* and `due' the callbacks whose tick it is.  How a callback comes to be   *)
(* due is module NearScheduler's business; here any pending one may be.    *)
(***************************************************************************)
EXTENDS Integers, Sequences, FiniteSets

VARIABLES
    queue,              \* event types, in the order they were published
    waking,             \* WOKEN_FROM_SLEEP is being dispatched
    due                 \* near schedules whose handlers are to run in it

loopVars == <<queue, waking, due>>

\* What is left of the queue once the event being handled is taken off it.
Rest == IF waking THEN queue ELSE Tail(queue)

Publish(events) == queue' = Rest \o events

\* One event of the queue is dispatched.
Dispatching(type) ==
    /\ ~waking
    /\ queue # <<>>
    /\ Head(queue) = type

\* The near scheduler's handler comes to this callback.
Calling(callback) ==
    /\ waking
    /\ callback \in due
    /\ due' = due \ {callback}

\* ALL_EVENTS_DISPATCHED puts the processor to sleep, having published
\* WOKEN_FROM_SLEEP; a wake-up may also bring TIME_CHANGED, published by the
\* clock, whose handler runs before the near scheduler's.
Wake(pending) ==
    /\ ~waking
    /\ queue = <<>>
    /\ waking' = TRUE
    /\ due' \in SUBSET pending
    /\ queue' \in {<<>>, <<"TIME_CHANGED">>}
=============================================================================

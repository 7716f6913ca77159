----------------------------- MODULE DoorPromise ----------------------------
(***************************************************************************)
(* What the door promises its schedules while nobody is at the buttons,    *)
(* without the motor, the supply, the events or the waits between them: it *)
(* is told where to be, sets off, and either gets there, turns round       *)
(* because it was told otherwise meanwhile, or gives up for a reason its   *)
(* movement can have.  Lost it is only before it has been told anything,   *)
(* and a fault is for good.                                                *)
(***************************************************************************)
VARIABLES
    phase,              \* where the door is, or what it is doing
    wanted,             \* what it was last told
    reason              \* why it gave up, or "none"

promiseVars == <<phase, wanted, reason>>

There == [Open |-> "Opened", Close |-> "Closed"]
Going == [Open |-> "Opening", Close |-> "Closing"]

\* What may be the matter.  A door that opens is pulled up, one that closes is let
\* down, and finding the bottom is some of both; the encoder works, so it is never
\* to blame.
Reasons == [Opening    |-> {"jammed", "lineTooLong"},
            Closing    |-> {"reversed", "lineTooLong"},
            FindBottom |-> {"reversed", "lineTooLong", "lineSnapped"}]

Init ==
    /\ phase = "Unknown"
    /\ wanted = "Unchanged"
    /\ reason = "none"

Tell(where) ==
    /\ wanted' = where
    /\ \/ phase = "Unknown" /\ phase' = "FindBottom"
       \/ phase \in {"Opened", "Closed"} \ {There[where]} /\ phase' = Going[where]
       \/ /\ phase \in {There[where], "FindBottom", "Opening", "Closing", "Fault"}
          /\ UNCHANGED phase
    /\ UNCHANGED reason

\* The door is down when its bottom has been found.
Arrive(where) ==
    /\ wanted = where
    /\ \/ phase = Going[where]
       \/ phase = "FindBottom" /\ where = "Close"
    /\ phase' = There[where]
    /\ UNCHANGED <<wanted, reason>>

\* It is at the other end, or has found the bottom, and is wanted elsewhere.
GoOn(where) ==
    /\ wanted = where
    /\ \/ phase \in {"Opening", "Closing"} \ {Going[where]}
       \/ phase = "FindBottom" /\ where = "Open"
    /\ phase' = Going[where]
    /\ UNCHANGED <<wanted, reason>>

GiveUp ==
    /\ phase \in {"FindBottom", "Opening", "Closing"}
    /\ phase' = "Fault"
    /\ reason' \in Reasons[phase]
    /\ UNCHANGED wanted

Next ==
    \/ \E where \in {"Open", "Close"} : Tell(where) \/ Arrive(where) \/ GoOn(where)
    \/ GiveUp

Spec == Init /\ [][Next]_promiseVars
=============================================================================

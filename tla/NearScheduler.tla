--------------------------- MODULE NearScheduler ---------------------------
(***************************************************************************)
(* Platform/NearScheduler.c: the table of short delays, counted in 4 ms    *)
(* ticks of the NCO, whose overflow wakes the processor.                   *)
(*                                                                         *)
(* The tick counter and the deadlines are bytes (TickModulus is 256 in the *)
(* firmware) and are only compared for equality, so a deadline that is     *)
(* passed over is met again one revolution later.  Handlers run from the   *)
(* scan of the table and usually add schedules to the table being scanned; *)
(* the NCO runs on meanwhile, and a second overflow that arrives before    *)
(* the first has been noticed is lost in the one flag.                     *)
(*                                                                         *)
(* `promise' is a history variable, one record per slot: what the caller   *)
(* was promised when it added the schedule.  No guard reads it.            *)
(***************************************************************************)
EXTENDS Integers, FiniteSets

CONSTANTS
    Handlers,           \* NearScheduleHandler functions
    Delays,             \* the values of schedule->ticks that callers use
    MaxSchedules,
    TickModulus,        \* 2^8
    Free                \* a slot with a null handler

\* A schedule of TickModulus - 1 ticks added by a handler to a slot the scan
\* has yet to reach would fire in that same scan; the longest delay of any
\* caller is 250 ticks of 256 (Ui/UiScreen.c:22).
ASSUME NearSchedulerAssumption ==
    /\ MaxSchedules \in Nat \ {0}
    /\ TickModulus \in Nat /\ TickModulus >= 2
    /\ Delays \subseteq 0 .. TickModulus - 2
    /\ Free \notin [handler : Handlers, ticks : 0 .. TickModulus - 1]

VARIABLES
    ticks,
    schedules,          \* slot -> Free or [handler, ticks]
    numberOfPendingSchedules,
    N1EN,               \* the NCO is running
    NCO1IF,             \* the NCO has overflowed
    scanning,           \* onWokenFromSleep() is in its loop
    ptr,                \* the loop's slot
    inHandler,          \* the loop is inside a handler
    promise             \* history, see above

scanVars == <<scanning, ptr, inHandler>>
vars == <<ticks, schedules, numberOfPendingSchedules, N1EN, NCO1IF, scanVars, promise>>

Slots == 0 .. MaxSchedules - 1
Ticks == 0 .. TickModulus - 1
Schedules == [handler : Handlers, ticks : Ticks]

Pending == {k \in Slots : schedules[k] # Free}

NoPromise == [due |-> 0, overflows |-> 0, stale |-> FALSE]

\* nearSchedulerInitialise(); `ticks' is a zeroed static.
Init ==
    /\ ticks = 0
    /\ schedules = [k \in Slots |-> Free]
    /\ numberOfPendingSchedules = 0
    /\ N1EN = FALSE
    /\ NCO1IF = FALSE
    /\ scanning = FALSE
    /\ ptr = 0
    /\ inHandler = FALSE
    /\ promise = [k \in Slots |-> NoPromise]

\* The NCO overflows, at any point of whatever the processor is doing.
NcoOverflow ==
    /\ N1EN
    /\ NCO1IF' = TRUE
    /\ promise' = [k \in Slots |->
                      [promise[k] EXCEPT !.overflows = IF @ > 0 THEN @ - 1 ELSE 0]]
    /\ UNCHANGED <<ticks, schedules, numberOfPendingSchedules, N1EN, scanVars>>
-----------------------------------------------------------------------------
(***************************************************************************)
(* Adding a schedule: a whole extra tick is allowed for the one already    *)
(* under way, unless the NCO is started afresh for this schedule.          *)
(***************************************************************************)
TicksToWait(delay) == IF N1EN \/ delay = 0 THEN delay + 1 ELSE delay

nearSchedulerAddTo(handler, delay, k) ==
    /\ schedules' = [schedules EXCEPT ![k] =
           [handler |-> handler, ticks |-> (ticks + TicksToWait(delay)) % TickModulus]]
    /\ numberOfPendingSchedules' =
           numberOfPendingSchedules + (IF schedules[k] = Free THEN 1 ELSE 0)
    /\ N1EN' = TRUE
    /\ promise' = [promise EXCEPT ![k] =
           [due |-> TicksToWait(delay), overflows |-> TicksToWait(delay), stale |-> NCO1IF]]
    /\ UNCHANGED <<ticks, NCO1IF, scanVars>>

IsFirstFree(k) ==
    /\ schedules[k] = Free
    /\ \A j \in Slots : j < k => schedules[j] # Free

Holds(k, handler) == schedules[k] # Free /\ schedules[k].handler = handler

\* With no free slot the schedule is silently dropped, a stutter.
nearSchedulerAdd(handler, delay) ==
    \E k \in Slots : IsFirstFree(k) /\ nearSchedulerAddTo(handler, delay, k)

nearSchedulerAddOrUpdate(handler, delay) ==
    \E k \in Slots :
        /\ \/ /\ Holds(k, handler)
              /\ \A j \in Slots : j < k => ~Holds(j, handler)
           \/ /\ IsFirstFree(k)
              /\ \A j \in Slots : ~Holds(j, handler)
        /\ nearSchedulerAddTo(handler, delay, k)

\* Schedules are added by handlers of this module and by those of events.
Add ==
    /\ scanning => inHandler
    /\ \E handler \in Handlers, delay \in Delays :
           nearSchedulerAdd(handler, delay) \/ nearSchedulerAddOrUpdate(handler, delay)
-----------------------------------------------------------------------------
(***************************************************************************)
(* onWokenFromSleep()                                                      *)
(***************************************************************************)
\* Mutant of Tick: the flag stays set.
TickLeavingFlag ==
    /\ ~scanning
    /\ NCO1IF
    /\ ticks' = (ticks + 1) % TickModulus
    /\ scanning' = TRUE
    /\ ptr' = 0
    /\ promise' = [k \in Slots |->
           IF k \in Pending THEN [promise[k] EXCEPT !.due = @ - 1] ELSE promise[k]]
    /\ UNCHANGED <<schedules, numberOfPendingSchedules, N1EN, NCO1IF, inHandler>>

Tick ==
    /\ ~scanning
    /\ NCO1IF
    /\ NCO1IF' = FALSE
    /\ ticks' = (ticks + 1) % TickModulus
    /\ scanning' = TRUE
    /\ ptr' = 0
    /\ promise' = [k \in Slots |->
           IF k \in Pending THEN [promise[k] EXCEPT !.due = @ - 1] ELSE promise[k]]
    /\ UNCHANGED <<schedules, numberOfPendingSchedules, N1EN, inHandler>>

\* Mutant of IsDue: deadlines are ordered, so one beyond the wrap is due at once.
IsDueOrPast(k) == schedules[k] # Free /\ schedules[k].ticks <= ticks

IsDue(k) == schedules[k] # Free /\ schedules[k].ticks = ticks

Skip ==
    /\ scanning /\ ~inHandler
    /\ ptr < MaxSchedules
    /\ ~IsDue(ptr)
    /\ ptr' = ptr + 1
    /\ UNCHANGED <<ticks, schedules, numberOfPendingSchedules, N1EN, NCO1IF,
                   scanning, inHandler, promise>>

CallHandler ==
    /\ scanning /\ ~inHandler
    /\ ptr < MaxSchedules
    /\ IsDue(ptr)
    /\ schedules' = [schedules EXCEPT ![ptr] = Free]
    /\ numberOfPendingSchedules' = numberOfPendingSchedules - 1
    /\ inHandler' = TRUE
    /\ promise' = [promise EXCEPT ![ptr] = NoPromise]
    /\ UNCHANGED <<ticks, N1EN, NCO1IF, scanning, ptr>>

HandlerReturns ==
    /\ inHandler
    /\ inHandler' = FALSE
    /\ ptr' = ptr + 1
    /\ UNCHANGED <<ticks, schedules, numberOfPendingSchedules, N1EN, NCO1IF,
                   scanning, promise>>

\* Mutant of ScanEnds: the NCO is left running.
ScanEndsLeavingNco ==
    /\ scanning
    /\ ptr = MaxSchedules
    /\ scanning' = FALSE
    /\ UNCHANGED <<ticks, schedules, numberOfPendingSchedules, N1EN, NCO1IF, ptr,
                   inHandler, promise>>

\* Mutant of ScanEnds: the NCO is stopped though schedules are pending.
ScanEndsStoppingNco ==
    /\ scanning
    /\ ptr = MaxSchedules
    /\ scanning' = FALSE
    /\ N1EN' = FALSE
    /\ UNCHANGED <<ticks, schedules, numberOfPendingSchedules, NCO1IF, ptr, inHandler, promise>>

ScanEnds ==
    /\ scanning
    /\ ptr = MaxSchedules
    /\ scanning' = FALSE
    /\ N1EN' = (N1EN /\ numberOfPendingSchedules # 0)
    /\ UNCHANGED <<ticks, schedules, numberOfPendingSchedules, NCO1IF, ptr,
                   inHandler, promise>>

OnWokenFromSleep == Tick \/ Skip \/ CallHandler \/ HandlerReturns \/ ScanEnds

Next == NcoOverflow \/ Add \/ OnWokenFromSleep

Spec == Init /\ [][Next]_vars

\* The crystal oscillates, the flag wakes the processor and handlers return.
FairSpec == Spec /\ WF_vars(NcoOverflow) /\ WF_vars(OnWokenFromSleep)
-----------------------------------------------------------------------------
(***************************************************************************)
(* Properties.                                                             *)
(***************************************************************************)

\* The byte counters keep their widths and the scan stays inside the table.
TypeOK ==
    /\ ticks \in Ticks
    /\ schedules \in [Slots -> Schedules \cup {Free}]
    /\ numberOfPendingSchedules \in 0 .. MaxSchedules
    /\ N1EN \in BOOLEAN
    /\ NCO1IF \in BOOLEAN
    /\ scanning \in BOOLEAN
    /\ ptr \in 0 .. MaxSchedules
    /\ inHandler \in BOOLEAN
    /\ promise \in [Slots -> [due : Int, overflows : Nat, stale : BOOLEAN]]

\* The separate count of pending schedules agrees with the table, whatever
\* handlers add while the table is being scanned (NearScheduler.c:76, 134).
PendingCountMatches == numberOfPendingSchedules = Cardinality(Pending)

\* The NCO runs whenever a schedule is waiting for it, and is only left running
\* with nothing to time until the end of a scan, so that it does not go on
\* waking the processor every 4 ms (NearScheduler.c:139).
NcoRunsIffPending == /\ Pending # {} => N1EN
                     /\ Pending = {} /\ ~scanning => ~N1EN

\* No deadline is passed over: only a slot the scan has not reached yet may be
\* due now, and every other one is still ahead by less than a revolution.
NothingOverdue ==
    \A k \in Pending :
        \/ promise[k].due \in 1 .. TickModulus - 1
        \/ promise[k].due = 0 /\ scanning /\ (k > ptr \/ (k = ptr /\ ~inHandler))

\* A handler is called in exactly the tick it was promised (the delay, plus one
\* for the tick under way if the NCO was already running), even across a wrap
\* of the byte, and even when it was added in mid-scan (NearScheduler.c:79, 130).
CalledInPromisedTick == [][CallHandler => promise[ptr].due = 0]_vars

\* Measured against the oscillator itself, losing an overflow only makes a
\* delay longer: a handler is never called early, but for the one overflow that
\* was already in the flag when it was added.
NeverEarly ==
    [][CallHandler => promise[ptr].overflows <= IF promise[ptr].stale THEN 1 ELSE 0]_vars

\* Time never stops for a pending schedule: its remaining ticks change until it
\* is called.  With CalledInPromisedTick, every schedule is eventually called,
\* unless its own handler's owner keeps putting it back.
TimePasses ==
    \A k \in Slots : \A n \in 0 .. TickModulus :
        (k \in Pending /\ promise[k].due = n)
            ~> (k \notin Pending \/ promise[k].due # n)
=============================================================================

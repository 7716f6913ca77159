------------------------------ MODULE Schedules ------------------------------
(***************************************************************************)
(* How the door comes to be told to open and close: the clock's minutes    *)
(* and dates, the settings and the location feed the sun's times and the   *)
(* door's two schedules into the table of Platform/FarScheduler.c, which   *)
(* actions what is due at each minute of the day it was added on.          *)
(*                                                                         *)
(* All of it is chained by events, so a minute, a date or new settings may *)
(* arrive between any two links of the chain.  Slots hold pointers to the  *)
(* door's two static schedules, whose times change while they are held.    *)
(*                                                                         *)
(* The door's reactions to its schedules are module DoorSystem's business. *)
(* `obeyed' and `disturbed' are history variables: how often each schedule *)
(* was actioned since midnight, and whether somebody interfered.           *)
(***************************************************************************)
EXTENDS Integers, Sequences, FiniteSets, SequencesExt

CONSTANTS
    MinutesPerDay,          \* 1440
    DaysPerYear,            \* 365 or 366
    DiscriminatorModulus,   \* 2^8
    MaxSchedules,           \* 32
    Locations,
    Settings,               \* what somebody may store in the settings
    Defaults,               \* the settings that are programmed with the firmware
    SunTimes,               \* day, location -> minutes of the day
    MaxPending              \* bound on the pending events when somebody acts

ASSUME SchedulesAssumption ==
    /\ MinutesPerDay \in Nat \ {0} /\ DaysPerYear \in Nat \ {0}
    /\ DiscriminatorModulus \in Nat /\ DiscriminatorModulus >= 2
    /\ MaxSchedules \in Nat /\ MaxSchedules >= 2
    /\ MaxPending \in Nat \ {0}

ASSUME SettingsAssumption ==
    /\ Defaults \in Settings
    /\ \A s \in Settings : /\ s.location \in Locations
                            /\ s.autoOpenTime \in 0 .. MinutesPerDay - 1
                            /\ s.autoCloseTime \in 0 .. MinutesPerDay - 1

ASSUME SunTimesAssumption ==
    \A day \in 0 .. DaysPerYear - 1, place \in Locations :
        SunTimes[day, place] \in [{"open", "close"} -> 0 .. MinutesPerDay - 1]

VARIABLES
    queue,              \* types of the pending events
    now, today,         \* clockNow: the minute of the day, the day of the year
    nvmSettings,
    location,           \* as Location.c last saw it
    sunDay, sunLocation, \* sunEventsCalculationContext.inputs
    sunEvents,          \* the static arguments of SUN_EVENTS_CHANGED
    scheduleTime,       \* openingSchedule.time, closingSchedule.time
    dateDiscriminator,
    schedules,          \* slot -> [dateDiscriminator, data]
    obeyed, disturbed   \* history, see above

clockVars == <<now, today>>
sunVars == <<sunDay, sunLocation, sunEvents>>
farVars == <<dateDiscriminator, schedules>>
history == <<obeyed, disturbed>>
vars == <<queue, clockVars, nvmSettings, location, sunVars, scheduleTime, farVars, history>>

Minutes == 0 .. MinutesPerDay - 1
Days == 0 .. DaysPerYear - 1
Slots == 1 .. MaxSchedules
DoorSchedules == {"open", "close"}
Null == "null"
Tables == [Slots -> [dateDiscriminator : 0 .. DiscriminatorModulus - 1,
                     data : DoorSchedules \cup {Null}]]

Actioned == [open |-> "DOOR_OPEN_SCHEDULE_ACTIONED", close |-> "DOOR_CLOSE_SCHEDULE_ACTIONED"]

Dispatching(type) == queue # <<>> /\ Head(queue) = type
Publish(events) == queue' = Tail(queue) \o events
IsPending(type) == \E k \in 1 .. Len(queue) : queue[k] = type

\* Everything but the settings starts afresh.  The clock's events are published
\* before anything subscribes to them, but dispatched after.
Restart ==
    /\ queue' = <<"DATE_CHANGED", "TIME_CHANGED">>
    /\ now' = 0
    /\ today' = 0
    /\ location' = nvmSettings.location
    /\ sunDay' = 0
    /\ sunLocation' = nvmSettings.location
    /\ sunEvents' = [open |-> 0, close |-> 0]
    /\ scheduleTime' = [open |-> 0, close |-> 0]
    /\ dateDiscriminator' = 1
    /\ schedules' = [k \in Slots |-> [dateDiscriminator |-> 0, data |-> Null]]
    /\ obeyed' = [s \in DoorSchedules |-> 0]
    /\ disturbed' = FALSE
    /\ UNCHANGED nvmSettings

Init ==
    /\ nvmSettings = Defaults
    /\ queue = <<"DATE_CHANGED", "TIME_CHANGED">>
    /\ now = 0
    /\ today = 0
    /\ location = nvmSettings.location
    /\ sunDay = 0
    /\ sunLocation = nvmSettings.location
    /\ sunEvents = [open |-> 0, close |-> 0]
    /\ scheduleTime = [open |-> 0, close |-> 0]
    /\ dateDiscriminator = 1
    /\ schedules = [k \in Slots |-> [dateDiscriminator |-> 0, data |-> Null]]
    /\ obeyed = [s \in DoorSchedules |-> 0]
    /\ disturbed = FALSE
-----------------------------------------------------------------------------
(***************************************************************************)
(* The far scheduler's table.                                              *)
(***************************************************************************)
farSchedulerRemove(table, s) ==
    [k \in Slots |-> IF table[k].data = s THEN [table[k] EXCEPT !.data = Null] ELSE table[k]]

FirstFree(table, k) ==
    /\ table[k].data = Null
    /\ \A j \in Slots : j < k => table[j].data # Null

\* Mutant of farSchedulerAdd: a slot that is used again keeps its day.
AddKeepingDay(table, s, discriminator) ==
    [k \in Slots |-> IF FirstFree(table, k) THEN [table[k] EXCEPT !.data = s] ELSE table[k]]

\* With no free slot the schedule is silently dropped.
farSchedulerAdd(table, s, discriminator) ==
    [k \in Slots |-> IF FirstFree(table, k)
                       THEN [dateDiscriminator |-> discriminator, data |-> s] ELSE table[k]]

Today(k) == schedules[k].dateDiscriminator = dateDiscriminator

IsDue(k) ==
    Today(k) /\ schedules[k].data # Null /\ scheduleTime[schedules[k].data] = now

\* Actioning a schedule nulls its pointer but not its day, so a slot of today's
\* may be read through the null pointer at every later minute.  What is there are
\* the core's registers: whether they match is anybody's guess, and the type of
\* event they then give is taken to have no subscriber.
NullReads == {k \in Slots : Today(k) /\ schedules[k].data = Null}

\* In the order of their slots.
Ascending(slots) == \A j, k \in DOMAIN slots : j < k => slots[j] < slots[k]

onTimeChanged ==
    \E matched \in SUBSET NullReads :
        \E slots \in SetToSeqs({k \in Slots : IsDue(k)} \cup matched) :
            /\ Ascending(slots)
            /\ Publish([n \in DOMAIN slots |->
                   IF slots[n] \in matched THEN "UNHEARD" ELSE Actioned[schedules[slots[n]].data]])
            /\ schedules' = [k \in Slots |->
                   IF IsDue(k) THEN [schedules[k] EXCEPT !.data = Null] ELSE schedules[k]]
-----------------------------------------------------------------------------
(***************************************************************************)
(* The door's handlers that keep its two schedules in the table.           *)
(***************************************************************************)
Unscheduled == farSchedulerRemove(farSchedulerRemove(schedules, "open"), "close")

\* Mutant of onDateOrNvmSettingsChanged: time-driven schedules are not removed.
AddWithoutRemoving(discriminator) ==
    IF nvmSettings.mode = "time"
      THEN /\ scheduleTime' = [open |-> nvmSettings.autoOpenTime,
                               close |-> nvmSettings.autoCloseTime]
           /\ schedules' = farSchedulerAdd(farSchedulerAdd(schedules, "open", discriminator),
                                           "close", discriminator)
      ELSE /\ schedules' = Unscheduled
           /\ UNCHANGED scheduleTime

\* discriminator: the far scheduler subscribed to DATE_CHANGED first.
onDateOrNvmSettingsChanged(discriminator) ==
    IF nvmSettings.mode = "time"
      THEN /\ scheduleTime' = [open |-> nvmSettings.autoOpenTime,
                               close |-> nvmSettings.autoCloseTime]
           /\ schedules' = farSchedulerAdd(farSchedulerAdd(Unscheduled, "open", discriminator),
                                           "close", discriminator)
      ELSE /\ schedules' = Unscheduled
           /\ UNCHANGED scheduleTime

\* Each of the two is removed just before it is added.
Replace(table, s) ==
    farSchedulerAdd(farSchedulerRemove(table, s), s, dateDiscriminator)

onSunEventsChanged ==
    IF nvmSettings.mode = "sun"
      THEN /\ scheduleTime' = sunEvents
           /\ schedules' = Replace(Replace(schedules, "open"), "close")
      ELSE UNCHANGED <<scheduleTime, schedules>>

\* sunEventsCalculate(), with its inputs as the handler has just set them.
sunEventsCalculate(day, place) == sunEvents' = SunTimes[day, place]
-----------------------------------------------------------------------------
(***************************************************************************)
(* Events.                                                                 *)
(***************************************************************************)
\* Mutant of DateChanged: the door hears of the date before the far scheduler.
DateChangedDoorFirst ==
    /\ Dispatching("DATE_CHANGED")
    /\ dateDiscriminator' = (dateDiscriminator + 1) % DiscriminatorModulus
    /\ sunDay' = today
    /\ sunEventsCalculate(today, sunLocation)
    /\ onDateOrNvmSettingsChanged(dateDiscriminator)
    /\ Publish(<<"SUN_EVENTS_CHANGED">>)
    /\ UNCHANGED <<clockVars, nvmSettings, location, sunLocation, history>>

\* The far scheduler, the sun's events and the door, in order of subscription.
DateChanged ==
    /\ Dispatching("DATE_CHANGED")
    /\ dateDiscriminator' = (dateDiscriminator + 1) % DiscriminatorModulus
    /\ sunDay' = today
    /\ sunEventsCalculate(today, sunLocation)
    /\ onDateOrNvmSettingsChanged(dateDiscriminator')
    /\ Publish(<<"SUN_EVENTS_CHANGED">>)
    /\ UNCHANGED <<clockVars, nvmSettings, location, sunLocation, history>>

TimeChanged ==
    /\ Dispatching("TIME_CHANGED")
    /\ onTimeChanged
    /\ obeyed' = [s \in DoorSchedules |->
           IF obeyed[s] < 2 /\ \E k \in Slots : schedules[k].data = s /\ IsDue(k)
             THEN obeyed[s] + 1 ELSE obeyed[s]]
    /\ UNCHANGED <<clockVars, nvmSettings, location, sunVars, scheduleTime, dateDiscriminator,
                   disturbed>>

SunEventsChanged ==
    /\ Dispatching("SUN_EVENTS_CHANGED")
    /\ onSunEventsChanged
    /\ Publish(<<>>)
    /\ UNCHANGED <<clockVars, nvmSettings, location, sunVars, dateDiscriminator, history>>

\* Location.c's handler and then the door's.
NvmSettingsChanged ==
    /\ Dispatching("NVM_SETTINGS_CHANGED")
    /\ location' = nvmSettings.location
    /\ Publish(IF nvmSettings.location = location THEN <<>> ELSE <<"LOCATION_CHANGED">>)
    /\ onDateOrNvmSettingsChanged(dateDiscriminator)
    /\ disturbed' = TRUE
    /\ UNCHANGED <<clockVars, nvmSettings, sunVars, dateDiscriminator, obeyed>>

LocationChanged ==
    /\ Dispatching("LOCATION_CHANGED")
    /\ sunLocation' = location
    /\ sunEventsCalculate(sunDay, location)
    /\ Publish(<<"SUN_EVENTS_CHANGED">>)
    /\ UNCHANGED <<clockVars, nvmSettings, location, sunDay, scheduleTime, farVars, history>>

ScheduleActioned ==
    /\ \E type \in {Actioned.open, Actioned.close, "UNHEARD"} : Dispatching(type)
    /\ Publish(<<>>)
    /\ UNCHANGED <<clockVars, nvmSettings, location, sunVars, scheduleTime, farVars, history>>
-----------------------------------------------------------------------------
(***************************************************************************)
(* The clock, the user and the power.                                      *)
(***************************************************************************)
\* clockTicked().  A minute is longer than it takes to dispatch what the last one
\* published.
clockTicked ==
    /\ \A type \in {"DATE_CHANGED", "TIME_CHANGED", "SUN_EVENTS_CHANGED"} : ~IsPending(type)
    /\ Len(queue) <= MaxPending
    /\ now' = (now + 1) % MinutesPerDay
    /\ IF now' = 0
         THEN /\ today' = (today + 1) % DaysPerYear
              /\ queue' = queue \o <<"DATE_CHANGED", "TIME_CHANGED">>
              /\ obeyed' = [s \in DoorSchedules |-> 0]
              /\ disturbed' = (IsPending("NVM_SETTINGS_CHANGED") \/ IsPending("LOCATION_CHANGED"))
         ELSE /\ queue' = Append(queue, "TIME_CHANGED")
              /\ UNCHANGED <<today, history>>
    /\ UNCHANGED <<nvmSettings, location, sunVars, scheduleTime, farVars>>

clockSetNowGmt ==
    /\ Len(queue) <= MaxPending
    /\ now' \in Minutes
    /\ today' \in Days
    /\ queue' = queue \o <<"DATE_CHANGED", "TIME_CHANGED">>
    /\ disturbed' = TRUE
    /\ UNCHANGED <<nvmSettings, location, sunVars, scheduleTime, farVars, obeyed>>

\* A store that fails because the memory is protected changes nothing.
nvmSettingsStore ==
    /\ Len(queue) <= MaxPending
    /\ nvmSettings' \in Settings
    /\ queue' = Append(queue, "NVM_SETTINGS_CHANGED")
    /\ disturbed' = TRUE
    /\ UNCHANGED <<clockVars, location, sunVars, scheduleTime, farVars, obeyed>>

Next == \/ DateChanged \/ TimeChanged \/ SunEventsChanged \/ NvmSettingsChanged
        \/ LocationChanged \/ ScheduleActioned
        \/ clockTicked \/ clockSetNowGmt \/ nvmSettingsStore \/ Restart

Spec == Init /\ [][Next]_vars
-----------------------------------------------------------------------------
(***************************************************************************)
(* Properties.                                                             *)
(***************************************************************************)

\* Every variable in its range.
TypeOK ==
    /\ now \in Minutes /\ {today, sunDay} \subseteq Days
    /\ nvmSettings \in Settings
    /\ {location, sunLocation} \subseteq Locations
    /\ sunEvents \in [DoorSchedules -> Minutes]
    /\ scheduleTime \in [DoorSchedules -> Minutes]
    /\ dateDiscriminator \in 0 .. DiscriminatorModulus - 1
    /\ schedules \in Tables
    /\ obeyed \in [DoorSchedules -> 0 .. 2]
    /\ disturbed \in BOOLEAN

\* However dates, settings and the sun's times follow each other, no schedule is
\* ever in two slots: it would be actioned twice, and leak a slot.
HeldOnce ==
    \A s \in DoorSchedules : \A j, k \in Slots :
        schedules[j].data = s /\ schedules[k].data = s => j = k

\* Once the chain of events has settled, what is in the table is for today and at
\* the times that the mode, the settings, today and the location call for.
Settled ==
    \A type \in {"DATE_CHANGED", "NVM_SETTINGS_CHANGED", "LOCATION_CHANGED",
                 "SUN_EVENTS_CHANGED"} : ~IsPending(type)

WantedTimes ==
    IF nvmSettings.mode = "time"
      THEN [open |-> nvmSettings.autoOpenTime, close |-> nvmSettings.autoCloseTime]
      ELSE SunTimes[today, nvmSettings.location]

TableIsCurrent ==
    Settled => \A k \in Slots : schedules[k].data # Null =>
        /\ nvmSettings.mode \in {"time", "sun"}
        /\ Today(k)
        /\ scheduleTime[schedules[k].data] = WantedTimes[schedules[k].data]

\* On a day on which nobody interferes, whatever happened on the days before, the
\* door is told to open and to close exactly once each; but the sun's times are
\* worked out too late for one that falls on midnight itself.
UndisturbedDaysAreObeyed ==
    [][clockTicked /\ now' = 0 /\ ~disturbed =>
        \A s \in DoorSchedules : obeyed[s] =
            (IF \/ nvmSettings.mode = "time"
                \/ nvmSettings.mode = "sun" /\ WantedTimes[s] # 0 THEN 1 ELSE 0)]_vars

=============================================================================

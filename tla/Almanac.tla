------------------------------ MODULE Almanac ------------------------------
(***************************************************************************)
(* The clock and what follows the sun by it: clock -> DATE_CHANGED ->      *)
(* sun's times.  The date is passed by pointer, so the handler sees the    *)
(* date as it is when the event is dispatched.                             *)
(***************************************************************************)
EXTENDS Clock, SunEvents

CONSTANT Places     \* offsets of latitude and longitude

ASSUME PlacesAssumption ==
    \A place \in Places : /\ place.latitudeOffset \in -59 .. 50
                          /\ place.longitudeOffset \in -100 .. 100

VARIABLE dateChanged    \* DATE_CHANGED is pending

almanacVars == <<vars, sunVars, dateChanged>>

AlmanacInit ==
    /\ Init
    /\ \E place \in Places : sunEventsInitialise(place)
    /\ dateChanged = TRUE

\* A minute is longer than it takes to dispatch what the last one published.
ClockSteps ==
    /\ TimerCounts \/ onWokenFromSleep \/ GetReadsSecond \/ GetLooksAtFlag \/ GetReturns
    /\ TMR0L' = 0 /\ TMR0L # 0 => ~dateChanged
    /\ dateChanged' = (dateChanged \/ clockNow'.date.day # clockNow.date.day)
    /\ UNCHANGED sunVars

SetClock ==
    /\ clockSetNowGmt
    /\ dateChanged' = TRUE
    /\ UNCHANGED sunVars

DispatchDateChanged ==
    /\ dateChanged
    /\ reading = "idle"
    /\ dateChanged' = FALSE
    /\ onDateChanged(clockNow.date.dayOfYear)
    /\ UNCHANGED vars

\* LOCATION_CHANGED, with settings that have been stored.
DispatchLocationChanged ==
    /\ reading = "idle"
    /\ \E place \in Places \ {inputs.place} : onLocationChanged(place)
    /\ UNCHANGED <<vars, dateChanged>>

AlmanacNext == ClockSteps \/ SetClock \/ DispatchDateChanged \/ DispatchLocationChanged

AlmanacSpec == AlmanacInit /\ [][AlmanacNext]_almanacVars
-----------------------------------------------------------------------------
(***************************************************************************)
(* Properties.                                                             *)
(***************************************************************************)

\* Once the date's event has been dispatched the sun's times are times of day
\* that are those of today's date and the place in the settings, to within six
\* minutes of the straight lines between the entries of the tables, at any
\* latitude and longitude, and the sun rises before it sets.
Today == DaysBeforeMonth(clockNow.date.month, clockNow.date.year) + clockNow.date.day - 1

SunTimesAreAccurate ==
    ~dateChanged =>
        /\ IsTime(eventArgs.sunrise) /\ IsTime(eventArgs.sunset)
        /\ IsWithin(6, eventArgs.sunrise, LinearTime(sunriseLookupTable, Today, inputs.place))
        /\ IsWithin(6, eventArgs.sunset, LinearTime(sunsetLookupTable, Today, inputs.place))
        /\ MinuteOf(eventArgs.sunrise) < MinuteOf(eventArgs.sunset)
=============================================================================

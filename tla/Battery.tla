------------------------------ MODULE Battery ------------------------------
(***************************************************************************)
(* Platform/Battery.c with what feeds it: PeriodicMonitor.c, which samples *)
(* the supply and the temperature every fourth minute, and Temperature.c,  *)
(* which turns the second of them into tenths of a degree.  The charger is *)
(* switched by one pin, LATB3, and says on another, RB5, whether it has    *)
(* the sun; an edge of RB5 wakes the processor.                            *)
(*                                                                         *)
(* Three inputs are decided upon, each when it changes, two of them after  *)
(* another event has been through the queue.  The pin may change between   *)
(* any two steps, those inside the handler of WOKEN_FROM_SLEEP included.   *)
(* Timestamps and differences of temperature, which nobody reads, are left *)
(* out; the arguments of the events are the static records of the code.    *)
(*                                                                         *)
(* `full' and `blind' are history variables: the battery has been full and *)
(* has not needed charging since; and how many samples since the last that *)
(* measured it, as far as BlindLimit.                                      *)
(***************************************************************************)
EXTENDS Integers, Sequences

CONSTANTS
    FvrSamples,             \* sums of eight conversions of the reference
    TemperatureSamples,     \* and of the temperature
    Minutes,                \* minutes of the hour that the clock comes to
    FVRA2X,                 \* the reference's millivolts, from the DIA
    temperatureCoefficient, temperatureHighAdc, temperatureHighCelsius,
    MaxSafetyCount          \* 255

BlindLimit == 3

ASSUME BatteryAssumption ==
    /\ FvrSamples \subseteq 0 .. 8 * 1023
    /\ TemperatureSamples \subseteq 0 .. 8 * 1023
    /\ Minutes \subseteq 0 .. 59 /\ 0 \in Minutes
    /\ {FVRA2X, temperatureCoefficient} \subseteq 0 .. 2^16 - 1
    /\ temperatureHighAdc \in 0 .. 1023
    /\ temperatureHighCelsius \in 0 .. 255
    /\ MaxSafetyCount \in Nat /\ MaxSafetyCount >= BlindLimit

VARIABLES
    queue,                  \* event types, in the order they were published
    sleeping,
    woken,                  \* WOKEN_FROM_SLEEP is being handled
    minute,                 \* of clockNow
    RB5, IOCBF5,            \* the charger's pin, high without the sun; its edge
    monitored,              \* the static MonitoredParametersSampled
    currentCelsius,         \* the static TemperatureSampled, in tenths
    isChargerGood, isTemperatureWithinChargingRange,
    batteryVoltageMillivolts, batteryVoltageSampledSafetyCount,
    LATB3,                  \* the charger is enabled
    full, blind             \* history, see above

loopVars == <<queue, sleeping, woken, minute>>
pinVars == <<RB5, IOCBF5>>
sampleVars == <<monitored, full, blind>>
batteryVars == <<isChargerGood, isTemperatureWithinChargingRange,
                 batteryVoltageMillivolts, batteryVoltageSampledSafetyCount, LATB3>>
vars == <<loopVars, pinVars, sampleVars, currentCelsius, batteryVars>>

-----------------------------------------------------------------------------
(***************************************************************************)
(* What the samples mean.                                                  *)
(***************************************************************************)
CELSIUS(celsius) == 10 * celsius

\* (x + 2^15) >> 16 with the sixteenth bits of the slope, and the int16_t of
\* the number of conversions' steps, which is within ten bits.
Celsius(temperature) ==
    ((-10) * temperatureCoefficient * ((temperature + 4) \div 8 - temperatureHighAdc)
        + (temperatureHighCelsius + 250) * 2^16 + 2^15) \div 2^16

InChargingRange(celsius) == celsius >= CELSIUS(5) /\ celsius <= CELSIUS(30)

\* While the regulator feeds the processor its supply says nothing of the battery.
Measures(sample) ==
    ~sample.isVddRegulated /\ sample.fvr >= 8 * 346 /\ sample.fvr <= 8 * 834

Millivolts(sample) == ((8192 * FVRA2X) \div sample.fvr) % 2^16

MINIMUM_BATTERY_MILLIVOLTS == 2500
BATTERY_START_CHARGING_MILLIVOLTS == 3850
BATTERY_STOP_CHARGING_MILLIVOLTS == 3930

temperatureInitialise == currentCelsius = 0

\* No sample yet, which the battery takes for an empty one.
batteryInitialise ==
    /\ isChargerGood = FALSE
    /\ isTemperatureWithinChargingRange = FALSE
    /\ batteryVoltageMillivolts = 0
    /\ batteryVoltageSampledSafetyCount = 0
    /\ LATB3 = FALSE

Init ==
    /\ queue = <<"TIME_CHANGED", "SYSTEM_INITIALISED">>
    /\ sleeping = FALSE
    /\ woken = FALSE
    /\ minute = 0
    /\ RB5 \in BOOLEAN
    /\ IOCBF5 = FALSE
    /\ monitored = [isVddRegulated |-> FALSE, fvr |-> 0, temperature |-> 0]
    /\ temperatureInitialise
    /\ batteryInitialise
    /\ full = FALSE
    /\ blind = 0
-----------------------------------------------------------------------------
(***************************************************************************)
(* The main loop and what goes on beside it.                               *)
(***************************************************************************)
Dispatching(type) ==
    /\ ~sleeping /\ ~woken
    /\ queue # <<>>
    /\ Head(queue) = type

Publish(events) == queue' = Tail(queue) \o events

AllEventsDispatched ==
    /\ ~sleeping /\ ~woken
    /\ queue = <<>>
    /\ queue' = <<"WOKEN_FROM_SLEEP">>
    /\ sleeping' = TRUE
    /\ UNCHANGED <<woken, minute, pinVars, sampleVars, currentCelsius, batteryVars>>

Wakes ==
    /\ sleeping
    /\ sleeping' = FALSE
    /\ UNCHANGED <<queue, woken, minute, pinVars, sampleVars, currentCelsius, batteryVars>>

\* Both edges raise the flag.
PinChanges ==
    /\ RB5' = ~RB5
    /\ IOCBF5' = TRUE
    /\ UNCHANGED <<loopVars, sampleVars, currentCelsius, batteryVars>>

\* A handler finds that the minute has ended, or the clock is set: what an
\* earlier minute published has been dispatched by then.
ClockTicks ==
    /\ ~sleeping
    /\ queue # <<>>
    /\ \A k \in 1 .. Len(queue) : queue[k] \in {"WOKEN_FROM_SLEEP", "SYSTEM_INITIALISED"}
    /\ minute' \in Minutes
    /\ queue' = Append(queue, "TIME_CHANGED")
    /\ UNCHANGED <<sleeping, woken, pinVars, sampleVars, currentCelsius, batteryVars>>

Unheard ==
    /\ \E type \in {"SYSTEM_INITIALISED", "BATTERY_VOLTAGE_SAMPLED",
                    "BATTERY_CHARGER_ENABLED", "BATTERY_CHARGER_DISABLED"} : Dispatching(type)
    /\ Publish(<<>>)
    /\ UNCHANGED <<sleeping, woken, minute, pinVars, sampleVars, currentCelsius, batteryVars>>
-----------------------------------------------------------------------------
(***************************************************************************)
(* The handlers.                                                           *)
(***************************************************************************)
IsSamplingTime == minute % 4 = 1

periodicMonitorSampleNow(sample) ==
    /\ monitored' = sample
    /\ blind' = IF Measures(sample) THEN 0
                ELSE IF blind < BlindLimit THEN blind + 1 ELSE blind
    /\ full' = IF Measures(sample)
                 THEN \/ Millivolts(sample) >= BATTERY_STOP_CHARGING_MILLIVOLTS
                      \/ full /\ Millivolts(sample) >= BATTERY_START_CHARGING_MILLIVOLTS
                 ELSE full

onTimeChanged ==
    /\ Dispatching("TIME_CHANGED")
    /\ IF IsSamplingTime
         THEN /\ \E regulated \in BOOLEAN, fvr \in FvrSamples, temperature \in TemperatureSamples :
                     periodicMonitorSampleNow([isVddRegulated |-> regulated, fvr |-> fvr,
                                               temperature |-> temperature])
              /\ Publish(<<"MONITORED_PARAMETERS_SAMPLED">>)
         ELSE Publish(<<>>) /\ UNCHANGED sampleVars
    /\ UNCHANGED <<sleeping, woken, minute, pinVars, currentCelsius, batteryVars>>

\* Mutant of BelowThreshold: one threshold, whether charging or not.
BelowStopThreshold(millivolts) == millivolts < BATTERY_STOP_CHARGING_MILLIVOLTS

BelowThreshold(millivolts) ==
    \/ LATB3 /\ millivolts < BATTERY_STOP_CHARGING_MILLIVOLTS
    \/ ~LATB3 /\ millivolts < BATTERY_START_CHARGING_MILLIVOLTS

\* To be conjoined after the handler has set the inputs it decides upon.
evaluateChargingConditions ==
    LATB3' = /\ isChargerGood'
             /\ isTemperatureWithinChargingRange'
             /\ batteryVoltageSampledSafetyCount' < BlindLimit
             /\ batteryVoltageMillivolts' >= MINIMUM_BATTERY_MILLIVOLTS
             /\ BelowThreshold(batteryVoltageMillivolts')

evaluateChargingConditionsEvents ==
    IF LATB3' = LATB3 THEN <<>>
    ELSE IF LATB3' THEN <<"BATTERY_CHARGER_ENABLED">> ELSE <<"BATTERY_CHARGER_DISABLED">>

CountedRoundTheByte == (batteryVoltageSampledSafetyCount + 1) % (MaxSafetyCount + 1)

Counted ==
    IF batteryVoltageSampledSafetyCount < MaxSafetyCount
      THEN batteryVoltageSampledSafetyCount + 1 ELSE batteryVoltageSampledSafetyCount

temperatureOnMonitoredParametersSampled == currentCelsius' = Celsius(monitored.temperature)

\* The temperature's handler, which subscribed first, and then the battery's.
onMonitoredParametersSampled ==
    /\ Dispatching("MONITORED_PARAMETERS_SAMPLED")
    /\ temperatureOnMonitoredParametersSampled
    /\ IF Measures(monitored)
         THEN /\ batteryVoltageMillivolts' = Millivolts(monitored)
              /\ batteryVoltageSampledSafetyCount' = 0
         ELSE /\ batteryVoltageSampledSafetyCount' = Counted
              /\ UNCHANGED batteryVoltageMillivolts
    /\ UNCHANGED <<isChargerGood, isTemperatureWithinChargingRange>>
    /\ evaluateChargingConditions
    /\ Publish(<<"TEMPERATURE_SAMPLED">>
                 \o (IF Measures(monitored) THEN <<"BATTERY_VOLTAGE_SAMPLED">> ELSE <<>>)
                 \o evaluateChargingConditionsEvents)
    /\ UNCHANGED <<sleeping, woken, minute, pinVars, sampleVars>>

\* Mutant of onTemperatureSampled: the decision waits for the next input.
TemperatureSampledUndecided ==
    /\ Dispatching("TEMPERATURE_SAMPLED")
    /\ isTemperatureWithinChargingRange' = InChargingRange(currentCelsius)
    /\ Publish(<<>>)
    /\ UNCHANGED <<isChargerGood, batteryVoltageMillivolts, batteryVoltageSampledSafetyCount,
                   LATB3, sleeping, woken, minute, pinVars, sampleVars, currentCelsius>>

onTemperatureSampled ==
    /\ Dispatching("TEMPERATURE_SAMPLED")
    /\ isTemperatureWithinChargingRange' = InChargingRange(currentCelsius)
    /\ UNCHANGED <<isChargerGood, batteryVoltageMillivolts, batteryVoltageSampledSafetyCount>>
    /\ evaluateChargingConditions
    /\ Publish(evaluateChargingConditionsEvents)
    /\ UNCHANGED <<sleeping, woken, minute, pinVars, sampleVars, currentCelsius>>

\* onWokenFromSleep(), in the two steps between which the pin may change.
WokenClearsEdge ==
    /\ Dispatching("WOKEN_FROM_SLEEP")
    /\ woken' = TRUE
    /\ IOCBF5' = FALSE
    /\ UNCHANGED <<queue, sleeping, minute, RB5, sampleVars, currentCelsius, batteryVars>>

\* Mutant of WokenReadsPin: the decision waits for the next input.
WokenUndecided ==
    /\ woken
    /\ woken' = FALSE
    /\ isChargerGood' = ~RB5
    /\ Publish(<<>>)
    /\ UNCHANGED <<isTemperatureWithinChargingRange, batteryVoltageMillivolts,
                   batteryVoltageSampledSafetyCount, LATB3, sleeping, minute, pinVars,
                   sampleVars, currentCelsius>>

WokenReadsPin ==
    /\ woken
    /\ woken' = FALSE
    /\ isChargerGood' = ~RB5
    /\ UNCHANGED <<isTemperatureWithinChargingRange, batteryVoltageMillivolts,
                   batteryVoltageSampledSafetyCount>>
    /\ evaluateChargingConditions
    /\ Publish(evaluateChargingConditionsEvents)
    /\ UNCHANGED <<sleeping, minute, pinVars, sampleVars, currentCelsius>>

Handlers ==
    \/ onTimeChanged
    \/ onMonitoredParametersSampled
    \/ onTemperatureSampled
    \/ WokenClearsEdge
    \/ WokenReadsPin
    \/ Unheard

Next == AllEventsDispatched \/ Wakes \/ PinChanges \/ ClockTicks \/ Handlers

Spec == Init /\ [][Next]_vars

\* main() polls, every handler returns, and what nothing else wakes the end of
\* the minute does.  The sun need never change, nor a sample ever be taken.
FairSpec == Spec /\ WF_vars(AllEventsDispatched) /\ WF_vars(Handlers) /\ WF_vars(Wakes)
-----------------------------------------------------------------------------
(***************************************************************************)
(* Properties.                                                             *)
(***************************************************************************)

\* A battery that has been full is not charged again before a sample finds it
\* below the lower threshold, whatever the sun, the temperature and the samples
\* that measure nothing do to the charger in between (Battery.c:103-105).
NeverRechargesFull == sleeping /\ LATB3 => ~full

\* The charger is not left on once three samples running measured nothing, and
\* no number of further ones brings it back (Battery.c:93, 102).
NeverChargedBlind == sleeping /\ LATB3 => blind < BlindLimit

\* The processor never sleeps with the charger on against its inputs: the last
\* sample was of a temperature to charge at and, if of a battery at all, of one
\* that needs it; and the sun is there, unless an edge is about to wake it.  It
\* is what the handlers owe together, two of them one event after the sample.
SafeAsleep ==
    sleeping /\ LATB3 =>
        /\ InChargingRange(Celsius(monitored.temperature))
        /\ Measures(monitored) =>
               Millivolts(monitored) \in
                   MINIMUM_BATTERY_MILLIVOLTS .. BATTERY_STOP_CHARGING_MILLIVOLTS - 1
        /\ RB5 => IOCBF5

\* The last sample, were it the battery's, is one to start charging at.
WantsCharge ==
    /\ ~RB5
    /\ InChargingRange(Celsius(monitored.temperature))
    /\ Measures(monitored)
    /\ Millivolts(monitored) \in
           MINIMUM_BATTERY_MILLIVOLTS .. BATTERY_START_CHARGING_MILLIVOLTS - 1

\* Once everything allows charging, in whatever order it came about and with the
\* sun already there when the power came on, the charger goes on without waiting
\* for a further sample or edge (Battery.c:107-114, 125-130).
ChargesWhenItCan == WantsCharge ~> (LATB3 \/ ~WantsCharge)
=============================================================================

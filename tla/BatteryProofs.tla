--------------------------- MODULE BatteryProofs ---------------------------
(***************************************************************************)
(* Proofs about module Battery, for any calibration, any samples and any   *)
(* end of the byte that counts the ones that measured nothing.             *)
(***************************************************************************)
EXTENDS Battery, TLAPS

\* The events of a sample, of which one follows from another.
Chain == {"TIME_CHANGED", "MONITORED_PARAMETERS_SAMPLED", "TEMPERATURE_SAMPLED"}
Others == {"WOKEN_FROM_SLEEP", "SYSTEM_INITIALISED", "BATTERY_VOLTAGE_SAMPLED",
           "BATTERY_CHARGER_ENABLED", "BATTERY_CHARGER_DISABLED"}
Types == Chain \cup Others

IsIn(q, type) == \E k \in 1 .. Len(q) : q[k] = type
OneOfChain(q) == \A j, k \in 1 .. Len(q) : q[j] \in Chain /\ q[k] \in Chain => j = k
NoneOfChain(q) == \A k \in 1 .. Len(q) : q[k] \notin Chain

MonitoredPending == IsIn(queue, "MONITORED_PARAMETERS_SAMPLED")
TemperaturePending == IsIn(queue, "TEMPERATURE_SAMPLED")

\* The types that the arithmetic needs.
TypesInv ==
    /\ queue \in Seq(Types)
    /\ sleeping \in BOOLEAN /\ woken \in BOOLEAN
    /\ RB5 \in BOOLEAN /\ IOCBF5 \in BOOLEAN
    /\ isChargerGood \in BOOLEAN /\ isTemperatureWithinChargingRange \in BOOLEAN
    /\ LATB3 \in BOOLEAN /\ full \in BOOLEAN
    /\ monitored \in [isVddRegulated : BOOLEAN, fvr : Nat, temperature : Int]
    /\ batteryVoltageMillivolts \in Int
    /\ batteryVoltageSampledSafetyCount \in 0 .. MaxSafetyCount
    /\ blind \in 0 .. BlindLimit

\* One sample at a time is on its way through the queue, and the processor sleeps
\* with only the wake-up in it.
QueueInv ==
    /\ OneOfChain(queue)
    /\ sleeping => queue = <<"WOKEN_FROM_SLEEP">> /\ ~woken
    /\ woken => queue # <<>> /\ Head(queue) = "WOKEN_FROM_SLEEP"

\* The pin is as was decided upon the inputs as the battery has them.
DecidedInv ==
    /\ LATB3 =>
         /\ isChargerGood /\ isTemperatureWithinChargingRange
         /\ batteryVoltageSampledSafetyCount < BlindLimit
         /\ batteryVoltageMillivolts >= MINIMUM_BATTERY_MILLIVOLTS
         /\ batteryVoltageMillivolts < BATTERY_STOP_CHARGING_MILLIVOLTS
    /\ isChargerGood /\ RB5 => IOCBF5 \/ woken

\* How the inputs as the battery has them lag behind the last sample.
VoltageInv ==
    ~MonitoredPending /\ Measures(monitored) => batteryVoltageMillivolts = Millivolts(monitored)

TemperatureInv ==
    ~MonitoredPending =>
        IF TemperaturePending THEN currentCelsius = Celsius(monitored.temperature)
        ELSE isTemperatureWithinChargingRange => InChargingRange(Celsius(monitored.temperature))

\* How the count of blind samples is behind, while one is on its way.
Saturated(count) == IF count < BlindLimit THEN count ELSE BlindLimit

BlindInv ==
    blind = IF ~MonitoredPending THEN Saturated(batteryVoltageSampledSafetyCount)
            ELSE IF Measures(monitored) THEN 0
            ELSE Saturated(batteryVoltageSampledSafetyCount + 1)

\* What is known of a full battery, when the last sample has been decided upon, and
\* what the decision upon it will need.
Rested ==
    /\ full => batteryVoltageMillivolts >= BATTERY_START_CHARGING_MILLIVOLTS
    /\ LATB3 => ~full

Measured ==
    full =>
      /\ Millivolts(monitored) >= BATTERY_START_CHARGING_MILLIVOLTS
      /\ \/ Millivolts(monitored) >= BATTERY_STOP_CHARGING_MILLIVOLTS
         \/ /\ ~LATB3
            /\ batteryVoltageMillivolts >= BATTERY_START_CHARGING_MILLIVOLTS

FullInv == IF MonitoredPending /\ Measures(monitored) THEN Measured ELSE Rested

IInv == /\ TypesInv /\ QueueInv /\ DecidedInv
        /\ VoltageInv /\ TemperatureInv /\ BlindInv /\ FullInv
-----------------------------------------------------------------------------
\* What of the assumption the proofs use.
LEMMA ConstantsAreNumbers ==
    /\ \A fvr \in FvrSamples : fvr \in Nat
    /\ \A temperature \in TemperatureSamples : temperature \in Int
    /\ MaxSafetyCount \in Nat /\ MaxSafetyCount >= 3
<1>1. FvrSamples \subseteq 0 .. 8 * 1023 /\ TemperatureSamples \subseteq 0 .. 8 * 1023
  BY BatteryAssumption
<1>2. MaxSafetyCount \in Nat /\ MaxSafetyCount >= 3
  BY BatteryAssumption DEF BlindLimit
<1>3. \A n \in 0 .. 8 * 1023 : n \in Nat /\ n \in Int
  OBVIOUS
<1> QED BY <1>1, <1>2, <1>3

(***************************************************************************)
(* The queue.                                                              *)
(***************************************************************************)

\* Taking the head off and adding events that are not the chain's leaves what there
\* was of the chain, less the head.
LEMMA OthersFollow ==
    ASSUME NEW q \in Seq(Types), q # <<>>, NEW events \in Seq(Others), OneOfChain(q)
    PROVE  /\ Tail(q) \o events \in Seq(Types)
           /\ OneOfChain(Tail(q) \o events)
           /\ \A type \in Chain : IsIn(Tail(q) \o events, type) <=> IsIn(q, type) /\ Head(q) # type
<1> DEFINE after == Tail(q) \o events
<1>1. /\ Len(q) \in Nat \ {0} /\ Len(events) \in Nat
      /\ Len(after) = Len(q) - 1 + Len(events)
      /\ \A k \in 1 .. Len(after) :
             after[k] = IF k < Len(q) THEN q[k + 1] ELSE events[k - (Len(q) - 1)]
      /\ after \in Seq(Types)
      /\ Head(q) = q[1]
  BY DEF Types
<1>2. \A k \in 1 .. Len(events) : events[k] \notin Chain
  BY DEF Others, Chain
<1> HIDE DEF after
<1>3. \A k \in 1 .. Len(after) : after[k] \in Chain => k < Len(q) /\ after[k] = q[k + 1]
  BY <1>1, <1>2
<1>4. OneOfChain(after)
  <2> SUFFICES ASSUME NEW j \in 1 .. Len(after), NEW k \in 1 .. Len(after),
                      after[j] \in Chain, after[k] \in Chain
               PROVE  j = k
    BY DEF OneOfChain
  <2>1. /\ j + 1 \in 1 .. Len(q) /\ q[j + 1] \in Chain
        /\ k + 1 \in 1 .. Len(q) /\ q[k + 1] \in Chain
    BY <1>1, <1>3
  <2>2. j + 1 = k + 1
    BY <2>1 DEF OneOfChain
  <2> QED BY <1>1, <2>2
<1>5. ASSUME NEW type \in Chain
      PROVE  IsIn(after, type) <=> IsIn(q, type) /\ Head(q) # type
  <2>1. ASSUME IsIn(after, type) PROVE IsIn(q, type) /\ Head(q) # type
    <3>1. PICK k \in 1 .. Len(after) : after[k] = type
      BY <2>1 DEF IsIn
    <3>2. k + 1 \in 1 .. Len(q) /\ q[k + 1] = type /\ k + 1 # 1
      BY <1>1, <1>3, <3>1
    <3> QED BY <1>1, <3>2 DEF IsIn, OneOfChain
  <2>2. ASSUME IsIn(q, type), Head(q) # type PROVE IsIn(after, type)
    <3>1. PICK k \in 1 .. Len(q) : q[k] = type
      BY <2>2 DEF IsIn
    <3>2. k - 1 \in 1 .. Len(after) /\ after[k - 1] = type
      BY <1>1, <2>2, <3>1
    <3> QED BY <3>2 DEF IsIn
  <2> QED BY <2>1, <2>2
<1> QED BY <1>1, <1>4, <1>5 DEF after

LEMMA ConcatenationAssociates ==
    ASSUME NEW event, NEW a \in Seq(Others), NEW b \in Seq(Others)
    PROVE  <<event>> \o a \o b = <<event>> \o (a \o b)
OBVIOUS

\* An event of the chain that follows another is the only one.
LEMMA NextOfChainFollows ==
    ASSUME NEW q \in Seq(Types), q # <<>>, Head(q) \in Chain, OneOfChain(q),
           NEW first \in Chain, NEW events \in Seq(Others)
    PROVE  /\ Tail(q) \o (<<first>> \o events) \in Seq(Types)
           /\ OneOfChain(Tail(q) \o (<<first>> \o events))
           /\ \A type \in Chain : IsIn(Tail(q) \o (<<first>> \o events), type) <=> type = first
<1> DEFINE after == Tail(q) \o (<<first>> \o events)
<1>1. /\ Len(q) \in Nat \ {0} /\ Len(events) \in Nat
      /\ Len(after) = Len(q) + Len(events)
      /\ \A k \in 1 .. Len(after) :
             after[k] = IF k < Len(q) THEN q[k + 1]
                        ELSE IF k = Len(q) THEN first ELSE events[k - Len(q)]
      /\ after \in Seq(Types)
      /\ Head(q) = q[1]
  BY DEF Types
<1>2. \A k \in 1 .. Len(events) : events[k] \notin Chain
  BY DEF Others, Chain
<1>3. \A k \in 2 .. Len(q) : q[k] \notin Chain
  BY <1>1 DEF OneOfChain
<1> HIDE DEF after
<1>4. \A k \in 1 .. Len(after) : after[k] \in Chain <=> k = Len(q)
  BY <1>1, <1>2, <1>3
<1>5. Len(q) \in 1 .. Len(after) /\ after[Len(q)] = first
  BY <1>1
<1> QED BY <1>1, <1>4, <1>5 DEF OneOfChain, IsIn, after
-----------------------------------------------------------------------------
(***************************************************************************)
(* The decision.                                                           *)
(***************************************************************************)
Samples == [isVddRegulated : BOOLEAN, fvr : Nat, temperature : Int]

LEMMA MillivoltsIsNumber ==
    ASSUME NEW sample \in Samples, Measures(sample)
    PROVE  Millivolts(sample) \in Int
<1>1. \A n \in Int, m \in Int : m > 0 => n \div m \in Int
  OBVIOUS
<1>2. \A n \in Int : n % 65536 \in Int
  OBVIOUS
<1>3. sample.fvr \in Int /\ sample.fvr > 0
  BY DEF Samples, Measures
<1>4. 8192 * FVRA2X \in Int
  <2>1. FVRA2X \in 0 .. 2^16 - 1
    BY BatteryAssumption
  <2>2. FVRA2X \in Int
    BY <2>1
  <2> QED BY <2>2
<1>5. 2^16 = 65536
  OBVIOUS
<1> QED BY <1>1, <1>2, <1>3, <1>4, <1>5 DEF Millivolts

\* What a decision leaves, of the inputs and of the pin before.
LEMMA DecisionDecides ==
    ASSUME TypesInv, batteryVoltageMillivolts' \in Int, evaluateChargingConditions
    PROVE  /\ LATB3' \in BOOLEAN
           /\ LATB3' =>
                /\ isChargerGood' /\ isTemperatureWithinChargingRange'
                /\ batteryVoltageSampledSafetyCount' < BlindLimit
                /\ batteryVoltageMillivolts' >= MINIMUM_BATTERY_MILLIVOLTS
                /\ batteryVoltageMillivolts' < BATTERY_STOP_CHARGING_MILLIVOLTS
                /\ ~LATB3 => batteryVoltageMillivolts' < BATTERY_START_CHARGING_MILLIVOLTS
           /\ evaluateChargingConditionsEvents \in Seq(Others)
<1>1. LATB3' \in BOOLEAN
  BY DEF evaluateChargingConditions
<1>2. LATB3' => /\ isChargerGood' /\ isTemperatureWithinChargingRange'
                /\ batteryVoltageSampledSafetyCount' < BlindLimit
                /\ batteryVoltageMillivolts' >= MINIMUM_BATTERY_MILLIVOLTS
                /\ BelowThreshold(batteryVoltageMillivolts')
  BY DEF evaluateChargingConditions
<1>3. BelowThreshold(batteryVoltageMillivolts') =>
        /\ batteryVoltageMillivolts' < BATTERY_STOP_CHARGING_MILLIVOLTS
        /\ ~LATB3 => batteryVoltageMillivolts' < BATTERY_START_CHARGING_MILLIVOLTS
  BY DEF BelowThreshold, BATTERY_STOP_CHARGING_MILLIVOLTS, BATTERY_START_CHARGING_MILLIVOLTS
<1>4. evaluateChargingConditionsEvents \in Seq(Others)
  <2>1. <<>> \in Seq(Others) /\ \A event \in Others : <<event>> \in Seq(Others)
    OBVIOUS
  <2>2. evaluateChargingConditionsEvents \in
          {<<>>, <<"BATTERY_CHARGER_ENABLED">>, <<"BATTERY_CHARGER_DISABLED">>}
    BY DEF evaluateChargingConditionsEvents
  <2>3. {"BATTERY_CHARGER_ENABLED", "BATTERY_CHARGER_DISABLED"} \subseteq Others
    BY DEF Others
  <2> QED BY <2>1, <2>2, <2>3
<1> QED BY <1>1, <1>2, <1>3, <1>4

\* While the voltage is the same a decision does not put a full battery on charge.
LEMMA DecisionSparesFull ==
    ASSUME TypesInv, evaluateChargingConditions, FullInv,
           UNCHANGED <<batteryVoltageMillivolts, full, monitored>>
    PROVE  (Rested => Rested') /\ (Measured => Measured')
<1>1. LATB3' /\ ~LATB3 => batteryVoltageMillivolts < BATTERY_START_CHARGING_MILLIVOLTS
  BY DecisionDecides DEF TypesInv
<1>2. batteryVoltageMillivolts \in Int /\ LATB3' \in BOOLEAN /\ LATB3 \in BOOLEAN
  BY DecisionDecides DEF TypesInv
<1>3. batteryVoltageMillivolts < BATTERY_START_CHARGING_MILLIVOLTS =>
        ~(batteryVoltageMillivolts >= BATTERY_START_CHARGING_MILLIVOLTS)
  BY <1>2 DEF BATTERY_START_CHARGING_MILLIVOLTS
<1>4. Millivolts(monitored)' = Millivolts(monitored)
  BY DEF Millivolts
<1> QED BY <1>1, <1>2, <1>3, <1>4 DEF Rested, Measured
-----------------------------------------------------------------------------
(***************************************************************************)
(* Every step preserves the invariant: first those that change no inputs,  *)
(* then those that do, in the order of a sample's way through the queue.   *)
(***************************************************************************)
inputVars == <<sampleVars, currentCelsius, batteryVars>>

\* What is pending of a sample is all of the queue that the last four parts look at.
LEMMA SameInputs ==
    ASSUME IInv, UNCHANGED inputVars,
           MonitoredPending' <=> MonitoredPending,
           TemperaturePending' <=> TemperaturePending
    PROVE  VoltageInv' /\ TemperatureInv' /\ BlindInv' /\ FullInv'
<1>1. /\ UNCHANGED <<monitored, full, blind, currentCelsius, isTemperatureWithinChargingRange,
                     batteryVoltageMillivolts, batteryVoltageSampledSafetyCount, LATB3>>
      /\ Measures(monitored)' = Measures(monitored)
      /\ Millivolts(monitored)' = Millivolts(monitored)
      /\ Celsius(monitored.temperature)' = Celsius(monitored.temperature)
  BY DEF inputVars, sampleVars, batteryVars, Measures, Millivolts, Celsius
<1>2. VoltageInv'
  BY <1>1 DEF IInv, VoltageInv
<1>3. TemperatureInv'
  BY <1>1 DEF IInv, TemperatureInv, InChargingRange, CELSIUS
<1>4. BlindInv'
  BY <1>1 DEF IInv, BlindInv, Saturated
<1>5. FullInv'
  BY <1>1 DEF IInv, FullInv, Rested, Measured
<1> QED BY <1>2, <1>3, <1>4, <1>5

LEMMA SleepPreserves ==
    ASSUME IInv, AllEventsDispatched \/ Wakes
    PROVE  IInv'
<1>1. CASE AllEventsDispatched
  <2>1. /\ queue' = <<"WOKEN_FROM_SLEEP">> /\ queue' \in Seq(Types)
        /\ OneOfChain(queue)'
        /\ queue = <<>> /\ sleeping' = TRUE /\ ~woken'
        /\ UNCHANGED <<woken, pinVars, inputVars>>
    BY <1>1 DEF AllEventsDispatched, OneOfChain, Types, Others, Chain, inputVars
  <2>2. /\ ~MonitoredPending /\ ~TemperaturePending
        /\ ~MonitoredPending' /\ ~TemperaturePending'
    BY <2>1 DEF MonitoredPending, TemperaturePending, IsIn
  <2>3. TypesInv' /\ QueueInv' /\ DecidedInv'
    BY <2>1 DEF IInv, TypesInv, QueueInv, DecidedInv, inputVars, sampleVars, batteryVars, pinVars
  <2> QED BY <2>1, <2>2, <2>3, SameInputs DEF IInv
<1>2. CASE Wakes
  <2>1. UNCHANGED <<queue, woken, pinVars, inputVars>> /\ sleeping' = FALSE
    BY <1>2 DEF Wakes, inputVars
  <2>2. MonitoredPending' = MonitoredPending /\ TemperaturePending' = TemperaturePending
    BY <2>1 DEF MonitoredPending, TemperaturePending, IsIn
  <2>3. TypesInv' /\ QueueInv' /\ DecidedInv'
    BY <2>1 DEF IInv, TypesInv, QueueInv, DecidedInv, OneOfChain,
                inputVars, sampleVars, batteryVars, pinVars
  <2> QED BY <2>1, <2>2, <2>3, SameInputs DEF IInv
<1> QED BY <1>1, <1>2

LEMMA PinPreserves ==
    ASSUME IInv, PinChanges
    PROVE  IInv'
<1>1. /\ UNCHANGED <<queue, sleeping, woken, inputVars>>
      /\ IOCBF5' = TRUE /\ RB5' \in BOOLEAN
  BY DEF PinChanges, loopVars, inputVars, IInv, TypesInv
<1>2. MonitoredPending' = MonitoredPending /\ TemperaturePending' = TemperaturePending
  BY <1>1 DEF MonitoredPending, TemperaturePending, IsIn
<1>3. TypesInv' /\ QueueInv' /\ DecidedInv'
  BY <1>1 DEF IInv, TypesInv, QueueInv, DecidedInv, OneOfChain, inputVars, sampleVars, batteryVars
<1> QED BY <1>1, <1>2, <1>3, SameInputs DEF IInv

LEMMA ClockPreserves ==
    ASSUME IInv, ClockTicks
    PROVE  IInv'
<1>1. /\ queue \in Seq(Types) /\ queue # <<>> /\ ~sleeping /\ ~sleeping'
      /\ queue' = Append(queue, "TIME_CHANGED")
      /\ \A k \in 1 .. Len(queue) : queue[k] \in {"WOKEN_FROM_SLEEP", "SYSTEM_INITIALISED"}
      /\ UNCHANGED <<woken, pinVars, inputVars>>
  BY DEF ClockTicks, inputVars, IInv, TypesInv
<1>2. /\ queue' \in Seq(Types) /\ Head(queue') = Head(queue) /\ queue' # <<>>
      /\ Len(queue) \in Nat /\ Len(queue') = Len(queue) + 1
      /\ \A k \in 1 .. Len(queue') :
             queue'[k] = IF k = Len(queue') THEN "TIME_CHANGED" ELSE queue[k]
  BY <1>1 DEF Types, Chain
<1>3. \A k \in 1 .. Len(queue') : queue'[k] \in Chain => k = Len(queue')
  BY <1>1, <1>2 DEF Chain
<1>4. OneOfChain(queue)'
  BY <1>3 DEF OneOfChain
<1>5. /\ ~MonitoredPending /\ ~TemperaturePending
      /\ ~MonitoredPending' /\ ~TemperaturePending'
  BY <1>1, <1>2 DEF MonitoredPending, TemperaturePending, IsIn
<1>6. TypesInv'
  BY <1>1, <1>2 DEF IInv, TypesInv, inputVars, sampleVars, batteryVars, pinVars, ClockTicks
<1>7. QueueInv' /\ DecidedInv'
  BY <1>1, <1>2, <1>4 DEF IInv, QueueInv, DecidedInv, inputVars, batteryVars, pinVars
<1> QED BY <1>1, <1>5, <1>6, <1>7, SameInputs DEF IInv

LEMMA UnheardPreserves ==
    ASSUME IInv, Unheard
    PROVE  IInv'
<1>1. /\ queue \in Seq(Types) /\ queue # <<>> /\ OneOfChain(queue)
      /\ Head(queue) \notin Chain
      /\ <<>> \in Seq(Others) /\ queue' = Tail(queue) \o <<>>
      /\ ~sleeping' /\ ~woken'
      /\ UNCHANGED <<sleeping, woken, pinVars, inputVars>>
  BY DEF Unheard, Dispatching, Publish, inputVars, IInv, TypesInv, QueueInv, Chain
<1>2. /\ queue' \in Seq(Types) /\ OneOfChain(queue)'
      /\ \A type \in Chain : IsIn(queue', type) <=> IsIn(queue, type)
  BY <1>1, OthersFollow DEF OneOfChain
<1>3. (MonitoredPending' <=> MonitoredPending) /\ (TemperaturePending' <=> TemperaturePending)
  BY <1>2 DEF MonitoredPending, TemperaturePending, Chain, IsIn
<1>4. TypesInv'
  BY <1>1, <1>2 DEF IInv, TypesInv, inputVars, sampleVars, batteryVars, pinVars
<1>5. QueueInv' /\ DecidedInv'
  BY <1>1, <1>2 DEF IInv, QueueInv, DecidedInv, inputVars, batteryVars, pinVars
<1> QED BY <1>1, <1>3, <1>4, <1>5, SameInputs DEF IInv

\* The wake-up in its two steps.
LEMMA WokenPreserves ==
    ASSUME IInv, WokenClearsEdge \/ WokenReadsPin
    PROVE  IInv'
<1>1. CASE WokenClearsEdge
  <2>1. /\ UNCHANGED <<queue, sleeping, inputVars>> /\ ~sleeping /\ queue # <<>>
        /\ Head(queue) = "WOKEN_FROM_SLEEP"
        /\ woken' = TRUE /\ IOCBF5' = FALSE /\ RB5' = RB5
    BY <1>1 DEF WokenClearsEdge, Dispatching, inputVars
  <2>2. MonitoredPending' = MonitoredPending /\ TemperaturePending' = TemperaturePending
    BY <2>1 DEF MonitoredPending, TemperaturePending, IsIn
  <2>3. TypesInv' /\ QueueInv' /\ DecidedInv'
    BY <2>1 DEF IInv, TypesInv, QueueInv, DecidedInv, OneOfChain, inputVars, sampleVars, batteryVars
  <2> QED BY <2>1, <2>2, <2>3, SameInputs DEF IInv
<1>2. CASE WokenReadsPin
  <2> DEFINE events == evaluateChargingConditionsEvents
  <2>1. /\ woken /\ ~woken' /\ ~sleeping
        /\ UNCHANGED <<sleeping, pinVars, sampleVars, currentCelsius>>
        /\ isChargerGood' = ~RB5
        /\ UNCHANGED <<isTemperatureWithinChargingRange, batteryVoltageMillivolts,
                       batteryVoltageSampledSafetyCount>>
        /\ evaluateChargingConditions
        /\ queue' = Tail(queue) \o events
        /\ queue \in Seq(Types) /\ queue # <<>> /\ OneOfChain(queue)
        /\ Head(queue) = "WOKEN_FROM_SLEEP"
    BY <1>2 DEF WokenReadsPin, Publish, IInv, TypesInv, QueueInv
  <2>2. /\ LATB3' \in BOOLEAN /\ events \in Seq(Others)
        /\ LATB3' => /\ isChargerGood' /\ isTemperatureWithinChargingRange'
                     /\ batteryVoltageSampledSafetyCount' < BlindLimit
                     /\ batteryVoltageMillivolts' >= MINIMUM_BATTERY_MILLIVOLTS
                     /\ batteryVoltageMillivolts' < BATTERY_STOP_CHARGING_MILLIVOLTS
    BY <2>1, DecisionDecides DEF IInv, TypesInv
  <2> HIDE DEF events
  <2>3. /\ queue' \in Seq(Types) /\ OneOfChain(queue)'
        /\ \A type \in Chain : IsIn(queue', type) <=> IsIn(queue, type)
    <3>1. \A type \in Chain : Head(queue) # type
      BY <2>1 DEF Chain
    <3>2. /\ queue' \in Seq(Types) /\ OneOfChain(queue')
          /\ \A type \in Chain : IsIn(queue', type) <=> IsIn(queue, type) /\ Head(queue) # type
      BY <2>1, <2>2, OthersFollow
    <3> QED BY <3>1, <3>2 DEF OneOfChain
  <2>4. (MonitoredPending' <=> MonitoredPending) /\ (TemperaturePending' <=> TemperaturePending)
    BY <2>3 DEF MonitoredPending, TemperaturePending, Chain, IsIn
  <2>5. TypesInv'
    <3>1. RB5 \in BOOLEAN /\ isChargerGood' \in BOOLEAN /\ woken' \in BOOLEAN
      BY <1>2, <2>1 DEF IInv, TypesInv, WokenReadsPin
    <3> QED BY <2>1, <2>2, <2>3, <3>1 DEF IInv, TypesInv, sampleVars, pinVars
  <2>6. QueueInv' /\ DecidedInv'
    BY <2>1, <2>2, <2>3 DEF IInv, TypesInv, QueueInv, DecidedInv, pinVars
  <2>7. /\ UNCHANGED <<monitored, full, blind>>
        /\ Measures(monitored)' = Measures(monitored)
        /\ Millivolts(monitored)' = Millivolts(monitored)
        /\ Celsius(monitored.temperature)' = Celsius(monitored.temperature)
    BY <2>1 DEF sampleVars, Measures, Millivolts, Celsius
  <2>8. VoltageInv' /\ TemperatureInv' /\ BlindInv'
    BY <2>1, <2>4, <2>7 DEF IInv, VoltageInv, TemperatureInv, BlindInv, Saturated,
                            InChargingRange, CELSIUS
  <2>9. FullInv'
    BY <2>1, <2>4, <2>7, DecisionSparesFull DEF IInv, FullInv
  <2> QED BY <2>5, <2>6, <2>8, <2>9 DEF IInv
<1> QED BY <1>1, <1>2

\* A minute, in which a sample may be taken: the history knows of it at once.
LEMMA TimeChangedPreserves ==
    ASSUME IInv, onTimeChanged
    PROVE  IInv'
<1>1. /\ queue \in Seq(Types) /\ queue # <<>> /\ OneOfChain(queue)
      /\ Head(queue) = "TIME_CHANGED" /\ Head(queue) \in Chain
      /\ ~sleeping' /\ ~woken'
      /\ UNCHANGED <<sleeping, woken, pinVars, currentCelsius, batteryVars>>
  BY DEF onTimeChanged, Dispatching, IInv, TypesInv, QueueInv, Chain
<1>2. /\ <<>> \in Seq(Others)
      /\ \A type \in Chain : IsIn(queue, type) => type = "TIME_CHANGED"
  BY <1>1 DEF IsIn, OneOfChain, Chain
<1>3. ~MonitoredPending /\ ~TemperaturePending
  BY <1>2 DEF MonitoredPending, TemperaturePending, Chain
<1>4. CASE ~IsSamplingTime
  <2>1. queue' = Tail(queue) \o <<>> /\ UNCHANGED <<pinVars, inputVars>>
    BY <1>4 DEF onTimeChanged, Publish, inputVars
  <2>2. /\ queue' \in Seq(Types) /\ OneOfChain(queue)'
        /\ \A type \in Chain : IsIn(queue', type) => IsIn(queue, type)
    BY <1>1, <1>2, <2>1, OthersFollow DEF OneOfChain
  <2>3. ~MonitoredPending' /\ ~TemperaturePending'
    BY <1>3, <2>2 DEF MonitoredPending, TemperaturePending, Chain, IsIn
  <2>4. TypesInv'
    BY <1>1, <2>1, <2>2 DEF IInv, TypesInv, inputVars, sampleVars, batteryVars, pinVars
  <2>5. QueueInv' /\ DecidedInv'
    BY <1>1, <2>1, <2>2 DEF IInv, QueueInv, DecidedInv, inputVars, batteryVars, pinVars
  <2> QED BY <1>3, <2>1, <2>3, <2>4, <2>5, SameInputs DEF IInv
<1>5. CASE IsSamplingTime
  <2>1. PICK regulated \in BOOLEAN, fvr \in FvrSamples, temperature \in TemperatureSamples :
            periodicMonitorSampleNow([isVddRegulated |-> regulated, fvr |-> fvr,
                                      temperature |-> temperature])
    BY <1>5 DEF onTimeChanged
  <2> DEFINE sample == [isVddRegulated |-> regulated, fvr |-> fvr, temperature |-> temperature]
  <2>2. sample \in Samples
    <3>1. fvr \in Nat /\ temperature \in Int
      BY ConstantsAreNumbers, Zenon
    <3> QED BY <3>1 DEF Samples
  <2> HIDE DEF sample
  <2>3. /\ queue' = Tail(queue) \o <<"MONITORED_PARAMETERS_SAMPLED">>
        /\ monitored' = sample
        /\ blind' = IF Measures(sample) THEN 0
                    ELSE IF blind < BlindLimit THEN blind + 1 ELSE blind
        /\ full' = IF Measures(sample)
                     THEN \/ Millivolts(sample) >= BATTERY_STOP_CHARGING_MILLIVOLTS
                          \/ full /\ Millivolts(sample) >= BATTERY_START_CHARGING_MILLIVOLTS
                     ELSE full
    BY <1>5, <2>1 DEF onTimeChanged, Publish, periodicMonitorSampleNow, sample
  <2>4. <<"MONITORED_PARAMETERS_SAMPLED">> \o <<>> = <<"MONITORED_PARAMETERS_SAMPLED">>
    OBVIOUS
  <2>5. /\ queue' \in Seq(Types) /\ OneOfChain(queue)'
        /\ \A type \in Chain : IsIn(queue', type) <=> type = "MONITORED_PARAMETERS_SAMPLED"
    <3>1. "MONITORED_PARAMETERS_SAMPLED" \in Chain
      BY DEF Chain
    <3>2. queue' = Tail(queue) \o (<<"MONITORED_PARAMETERS_SAMPLED">> \o <<>>)
      BY <2>3, <2>4
    <3>3. /\ queue' \in Seq(Types) /\ OneOfChain(queue')
          /\ \A type \in Chain : IsIn(queue', type) <=> type = "MONITORED_PARAMETERS_SAMPLED"
      BY <1>1, <1>2, <3>1, <3>2, NextOfChainFollows
    <3> QED BY <3>3 DEF OneOfChain
  <2>6. MonitoredPending' /\ ~TemperaturePending'
    BY <2>5 DEF MonitoredPending, TemperaturePending, Chain, IsIn
  <2>7. /\ Measures(monitored)' = Measures(sample)
        /\ Millivolts(monitored)' = Millivolts(sample)
        /\ Measures(sample) => Millivolts(sample) \in Int
    BY <2>2, <2>3, MillivoltsIsNumber DEF Measures, Millivolts
  <2>8. full' \in BOOLEAN /\ blind' \in 0 .. BlindLimit
    <3>1. blind \in 0 .. BlindLimit /\ full \in BOOLEAN
      BY DEF IInv, TypesInv
    <3>2. blind' \in 0 .. BlindLimit
      BY <2>3, <3>1 DEF BlindLimit
    <3>3. full' \in BOOLEAN
      BY <2>3, <3>1
    <3> QED BY <3>2, <3>3
  <2>9. TypesInv'
    BY <1>1, <2>2, <2>3, <2>5, <2>8 DEF IInv, TypesInv, Samples, batteryVars, pinVars
  <2>10. QueueInv' /\ DecidedInv'
    BY <1>1, <2>5 DEF IInv, QueueInv, DecidedInv, batteryVars, pinVars
  <2>11. VoltageInv' /\ TemperatureInv'
    BY <2>6 DEF VoltageInv, TemperatureInv
  <2>12. BlindInv'
    <3>1. blind = Saturated(batteryVoltageSampledSafetyCount)
      BY <1>3 DEF IInv, BlindInv
    <3>2. /\ batteryVoltageSampledSafetyCount' = batteryVoltageSampledSafetyCount
          /\ batteryVoltageSampledSafetyCount \in 0 .. MaxSafetyCount
      BY <1>1 DEF batteryVars, IInv, TypesInv
    <3> QED BY <2>3, <2>6, <2>7, <3>1, <3>2 DEF BlindInv, Saturated, BlindLimit
  <2>13. FullInv'
    <3>1. Rested /\ UNCHANGED <<LATB3, batteryVoltageMillivolts>>
      BY <1>1, <1>3 DEF IInv, FullInv, batteryVars
    <3>2. CASE ~Measures(sample)
      BY <2>3, <2>7, <3>1, <3>2 DEF FullInv, Rested
    <3>3. CASE Measures(sample)
      BY <2>3, <2>6, <2>7, <3>1, <3>3
         DEF FullInv, Rested, Measured, BATTERY_START_CHARGING_MILLIVOLTS,
             BATTERY_STOP_CHARGING_MILLIVOLTS
    <3> QED BY <3>2, <3>3
  <2> QED BY <2>9, <2>10, <2>11, <2>12, <2>13 DEF IInv
<1> QED BY <1>4, <1>5

\* The voltage is decided upon, and the temperature is known.
LEMMA MonitoredPreserves ==
    ASSUME IInv, onMonitoredParametersSampled
    PROVE  IInv'
<1> DEFINE decided == evaluateChargingConditionsEvents
           sampled == IF Measures(monitored) THEN <<"BATTERY_VOLTAGE_SAMPLED">> ELSE <<>>
<1>1. /\ queue \in Seq(Types) /\ queue # <<>> /\ OneOfChain(queue)
      /\ Head(queue) = "MONITORED_PARAMETERS_SAMPLED" /\ Head(queue) \in Chain
      /\ ~sleeping' /\ ~woken /\ ~woken'
      /\ UNCHANGED <<sleeping, woken, pinVars, sampleVars>>
      /\ UNCHANGED <<isChargerGood, isTemperatureWithinChargingRange>>
      /\ currentCelsius' = Celsius(monitored.temperature)
      /\ evaluateChargingConditions
  BY DEF onMonitoredParametersSampled, Dispatching, temperatureOnMonitoredParametersSampled,
         IInv, TypesInv, QueueInv, Chain
<1>2. /\ Measures(monitored) => /\ batteryVoltageMillivolts' = Millivolts(monitored)
                                /\ batteryVoltageSampledSafetyCount' = 0
      /\ ~Measures(monitored) => /\ batteryVoltageMillivolts' = batteryVoltageMillivolts
                                 /\ batteryVoltageSampledSafetyCount' = Counted
  BY DEF onMonitoredParametersSampled
<1>3. queue' = Tail(queue) \o (<<"TEMPERATURE_SAMPLED">> \o sampled \o decided)
  BY DEF onMonitoredParametersSampled, Publish
<1>4. /\ monitored \in Samples /\ batteryVoltageMillivolts' \in Int
      /\ batteryVoltageSampledSafetyCount' \in 0 .. MaxSafetyCount
  <2>1. monitored \in Samples /\ batteryVoltageMillivolts \in Int
        /\ batteryVoltageSampledSafetyCount \in 0 .. MaxSafetyCount
    BY DEF IInv, TypesInv, Samples
  <2>2. batteryVoltageMillivolts' \in Int
    BY <1>2, <2>1, MillivoltsIsNumber
  <2>3. batteryVoltageSampledSafetyCount' \in 0 .. MaxSafetyCount
    <3>1. MaxSafetyCount \in Nat /\ 0 \in 0 .. MaxSafetyCount
      BY ConstantsAreNumbers
    <3>2. Counted \in 0 .. MaxSafetyCount
      BY <2>1, <3>1 DEF Counted
    <3> QED BY <1>2, <3>1, <3>2
  <2> QED BY <2>1, <2>2, <2>3
<1>5. /\ LATB3' \in BOOLEAN /\ decided \in Seq(Others)
      /\ LATB3' => /\ isChargerGood' /\ isTemperatureWithinChargingRange'
                   /\ batteryVoltageSampledSafetyCount' < BlindLimit
                   /\ batteryVoltageMillivolts' >= MINIMUM_BATTERY_MILLIVOLTS
                   /\ batteryVoltageMillivolts' < BATTERY_STOP_CHARGING_MILLIVOLTS
                   /\ ~LATB3 => batteryVoltageMillivolts' < BATTERY_START_CHARGING_MILLIVOLTS
  BY <1>1, <1>4, DecisionDecides DEF IInv
<1>6. sampled \in Seq(Others)
  <2>1. <<>> \in Seq(Others) /\ <<"BATTERY_VOLTAGE_SAMPLED">> \in Seq(Others)
    BY "BATTERY_VOLTAGE_SAMPLED" \in Others DEF Others
  <2> QED BY <2>1
<1> HIDE DEF decided, sampled
<1>6a. /\ sampled \o decided \in Seq(Others)
       /\ queue' = Tail(queue) \o (<<"TEMPERATURE_SAMPLED">> \o (sampled \o decided))
  <2>1. sampled \o decided \in Seq(Others)
    BY <1>5, <1>6
  <2>2. <<"TEMPERATURE_SAMPLED">> \o sampled \o decided
          = <<"TEMPERATURE_SAMPLED">> \o (sampled \o decided)
    BY <1>5, <1>6, ConcatenationAssociates
  <2> QED BY <1>3, <2>1, <2>2
<1>7. /\ queue' \in Seq(Types) /\ OneOfChain(queue)'
      /\ \A type \in Chain : IsIn(queue', type) <=> type = "TEMPERATURE_SAMPLED"
  <2>1. "TEMPERATURE_SAMPLED" \in Chain
    BY DEF Chain
  <2>2. /\ queue' \in Seq(Types) /\ OneOfChain(queue')
        /\ \A type \in Chain : IsIn(queue', type) <=> type = "TEMPERATURE_SAMPLED"
    BY <1>1, <1>6a, <2>1, NextOfChainFollows
  <2> QED BY <2>2 DEF OneOfChain
<1>8. MonitoredPending /\ ~MonitoredPending' /\ TemperaturePending'
  <2>1. MonitoredPending
    BY <1>1 DEF MonitoredPending, IsIn, Types
  <2> QED BY <1>7, <2>1 DEF MonitoredPending, TemperaturePending, Chain, IsIn
<1>9. /\ UNCHANGED <<monitored, full, blind>>
      /\ Measures(monitored)' = Measures(monitored)
      /\ Millivolts(monitored)' = Millivolts(monitored)
      /\ Celsius(monitored.temperature)' = Celsius(monitored.temperature)
  BY <1>1 DEF sampleVars, Measures, Millivolts, Celsius
<1>10. TypesInv'
  BY <1>1, <1>4, <1>5, <1>7, <1>9 DEF IInv, TypesInv, pinVars
<1>11. QueueInv' /\ DecidedInv'
  BY <1>1, <1>5, <1>7 DEF IInv, QueueInv, DecidedInv, pinVars
<1>12. VoltageInv' /\ TemperatureInv'
  BY <1>1, <1>2, <1>8, <1>9 DEF VoltageInv, TemperatureInv
<1>13. BlindInv'
  <2>1. blind = IF Measures(monitored) THEN 0 ELSE Saturated(batteryVoltageSampledSafetyCount + 1)
    BY <1>8 DEF IInv, BlindInv
  <2>2. batteryVoltageSampledSafetyCount \in 0 .. MaxSafetyCount
    BY DEF IInv, TypesInv
  <2>3. blind = Saturated(batteryVoltageSampledSafetyCount')
    <3>1. CASE Measures(monitored)
      BY <1>2, <2>1, <3>1 DEF Saturated, BlindLimit
    <3>2. CASE ~Measures(monitored)
      <4>1. MaxSafetyCount \in Nat /\ MaxSafetyCount >= 3
        BY ConstantsAreNumbers
      <4>2. Saturated(batteryVoltageSampledSafetyCount + 1) = Saturated(Counted)
        BY <2>2, <4>1 DEF Saturated, Counted, BlindLimit
      <4> QED BY <1>2, <2>1, <3>2, <4>2
    <3> QED BY <3>1, <3>2
  <2> QED BY <1>8, <1>9, <2>3 DEF BlindInv, Saturated
<1>14. FullInv'
  <2>1. LATB3 \in BOOLEAN /\ full \in BOOLEAN
    BY DEF IInv, TypesInv
  <2>2. CASE ~Measures(monitored)
    <3>1. Rested
      BY <2>2 DEF IInv, FullInv
    <3>2. Rested'
      BY <1>2, <1>4, <1>5, <1>9, <2>1, <2>2, <3>1 DEF Rested, BATTERY_START_CHARGING_MILLIVOLTS
    <3> QED BY <1>8, <3>2 DEF FullInv
  <2>3. CASE Measures(monitored)
    <3>1. Measured
      BY <1>8, <2>3 DEF IInv, FullInv
    <3>2. Rested'
      BY <1>2, <1>4, <1>5, <1>9, <2>1, <2>3, <3>1
         DEF Rested, Measured, BATTERY_START_CHARGING_MILLIVOLTS, BATTERY_STOP_CHARGING_MILLIVOLTS
    <3> QED BY <1>8, <3>2 DEF FullInv
  <2> QED BY <2>2, <2>3
<1> QED BY <1>10, <1>11, <1>12, <1>13, <1>14 DEF IInv

\* The temperature is decided upon.
LEMMA TemperaturePreserves ==
    ASSUME IInv, onTemperatureSampled
    PROVE  IInv'
<1> DEFINE events == evaluateChargingConditionsEvents
<1>1. /\ queue \in Seq(Types) /\ queue # <<>> /\ OneOfChain(queue)
      /\ Head(queue) = "TEMPERATURE_SAMPLED"
      /\ ~sleeping' /\ ~woken /\ ~woken'
      /\ UNCHANGED <<sleeping, woken, pinVars, sampleVars, currentCelsius>>
      /\ isTemperatureWithinChargingRange' = InChargingRange(currentCelsius)
      /\ UNCHANGED <<isChargerGood, batteryVoltageMillivolts, batteryVoltageSampledSafetyCount>>
      /\ evaluateChargingConditions
      /\ queue' = Tail(queue) \o events
  BY DEF onTemperatureSampled, Dispatching, Publish, IInv, TypesInv, QueueInv
<1>2. /\ LATB3' \in BOOLEAN /\ events \in Seq(Others)
      /\ LATB3' => /\ isChargerGood' /\ isTemperatureWithinChargingRange'
                   /\ batteryVoltageSampledSafetyCount' < BlindLimit
                   /\ batteryVoltageMillivolts' >= MINIMUM_BATTERY_MILLIVOLTS
                   /\ batteryVoltageMillivolts' < BATTERY_STOP_CHARGING_MILLIVOLTS
  BY <1>1, DecisionDecides DEF IInv, TypesInv
<1> HIDE DEF events
<1>3. /\ queue' \in Seq(Types) /\ OneOfChain(queue')
      /\ \A type \in Chain : IsIn(queue', type) <=> IsIn(queue, type) /\ Head(queue) # type
  BY <1>1, <1>2, OthersFollow
<1>4. \A type \in Chain : IsIn(queue, type) => type = "TEMPERATURE_SAMPLED"
  BY <1>1 DEF IsIn, OneOfChain, Chain
<1>5. /\ TemperaturePending /\ ~MonitoredPending
      /\ ~TemperaturePending' /\ ~MonitoredPending'
  <2>1. TemperaturePending
    BY <1>1 DEF TemperaturePending, IsIn, Types
  <2> QED BY <1>1, <1>3, <1>4, <2>1 DEF MonitoredPending, TemperaturePending, Chain, IsIn
<1>6. InChargingRange(currentCelsius) \in BOOLEAN
  BY DEF InChargingRange
<1>7. TypesInv'
  BY <1>1, <1>2, <1>3, <1>6 DEF IInv, TypesInv, sampleVars, pinVars
<1>8. QueueInv' /\ DecidedInv'
  BY <1>1, <1>2, <1>3 DEF IInv, QueueInv, DecidedInv, OneOfChain, pinVars
<1>9. /\ UNCHANGED <<monitored, full, blind>>
      /\ Measures(monitored)' = Measures(monitored)
      /\ Millivolts(monitored)' = Millivolts(monitored)
      /\ Celsius(monitored.temperature)' = Celsius(monitored.temperature)
  BY <1>1 DEF sampleVars, Measures, Millivolts, Celsius
<1>10. VoltageInv' /\ BlindInv'
  BY <1>1, <1>5, <1>9 DEF IInv, VoltageInv, BlindInv, Saturated
<1>11. TemperatureInv'
  <2>1. currentCelsius = Celsius(monitored.temperature)
    BY <1>5 DEF IInv, TemperatureInv
  <2> QED BY <1>1, <1>5, <1>9, <2>1 DEF TemperatureInv, InChargingRange, CELSIUS
<1>12. FullInv'
  BY <1>1, <1>5, <1>9, DecisionSparesFull DEF IInv, FullInv
<1> QED BY <1>7, <1>8, <1>10, <1>11, <1>12 DEF IInv
-----------------------------------------------------------------------------
(***************************************************************************)
(* The theorems.                                                           *)
(***************************************************************************)
LEMMA InitHolds == Init => IInv
<1> SUFFICES ASSUME Init PROVE IInv
  OBVIOUS
<1>1. /\ queue = <<"TIME_CHANGED", "SYSTEM_INITIALISED">>
      /\ ~sleeping /\ ~woken /\ ~LATB3 /\ ~isChargerGood /\ ~isTemperatureWithinChargingRange
      /\ batteryVoltageSampledSafetyCount = 0 /\ ~full /\ blind = 0
      /\ monitored = [isVddRegulated |-> FALSE, fvr |-> 0, temperature |-> 0]
  BY DEF Init, batteryInitialise
<1>2. TypesInv
  <2>1. queue \in Seq(Types)
    BY <1>1 DEF Types, Chain, Others
  <2>2. monitored \in [isVddRegulated : BOOLEAN, fvr : Nat, temperature : Int]
    BY <1>1
  <2>3. batteryVoltageSampledSafetyCount \in 0 .. MaxSafetyCount /\ blind \in 0 .. BlindLimit
    BY <1>1, ConstantsAreNumbers DEF BlindLimit
  <2>4. /\ sleeping \in BOOLEAN /\ woken \in BOOLEAN /\ RB5 \in BOOLEAN /\ IOCBF5 \in BOOLEAN
        /\ isChargerGood \in BOOLEAN /\ isTemperatureWithinChargingRange \in BOOLEAN
        /\ LATB3 \in BOOLEAN /\ full \in BOOLEAN
    BY DEF Init, batteryInitialise
  <2>5. batteryVoltageMillivolts \in Int
    BY DEF Init, batteryInitialise
  <2> QED BY <2>1, <2>2, <2>3, <2>4, <2>5, Zenon DEF TypesInv
<1>3. ~MonitoredPending /\ ~TemperaturePending /\ OneOfChain(queue)
  BY <1>1 DEF MonitoredPending, TemperaturePending, IsIn, OneOfChain, Chain
<1>4. ~Measures(monitored)
  BY <1>1 DEF Measures
<1>5. QueueInv /\ DecidedInv /\ VoltageInv /\ TemperatureInv /\ FullInv
  BY <1>1, <1>3, <1>4 DEF QueueInv, DecidedInv, VoltageInv, TemperatureInv, FullInv, Rested
<1>6. BlindInv
  BY <1>1, <1>3 DEF BlindInv, Saturated, BlindLimit
<1> QED BY <1>2, <1>5, <1>6 DEF IInv

LEMMA StepPreserves == IInv /\ [Next]_vars => IInv'
<1> SUFFICES ASSUME IInv, [Next]_vars PROVE IInv'
  OBVIOUS
<1>1. CASE UNCHANGED vars
  BY <1>1 DEF vars, loopVars, pinVars, sampleVars, batteryVars, IInv, TypesInv, QueueInv,
              DecidedInv, VoltageInv, TemperatureInv, BlindInv, FullInv, Rested, Measured,
              MonitoredPending, TemperaturePending, OneOfChain, IsIn, Saturated,
              Measures, Millivolts, Celsius, InChargingRange, CELSIUS
<1>2. CASE AllEventsDispatched \/ Wakes
  BY <1>2, SleepPreserves
<1>3. CASE PinChanges
  BY <1>3, PinPreserves
<1>4. CASE ClockTicks
  BY <1>4, ClockPreserves
<1>5. CASE Handlers
  BY <1>5, TimeChangedPreserves, MonitoredPreserves, TemperaturePreserves, WokenPreserves,
     UnheardPreserves DEF Handlers
<1> QED BY <1>1, <1>2, <1>3, <1>4, <1>5 DEF Next

LEMMA InvariantHolds == Spec => []IInv
<1>1. Init => IInv
  BY InitHolds
<1>2. IInv /\ [Next]_vars => IInv'
  BY StepPreserves
<1> QED BY <1>1, <1>2, PTL DEF Spec

\* Asleep, nothing of a sample is pending.
LEMMA AsleepAllIsDecided ==
    ASSUME IInv, sleeping
    PROVE  ~MonitoredPending /\ ~TemperaturePending /\ ~woken
<1>1. queue = <<"WOKEN_FROM_SLEEP">> /\ ~woken
  BY DEF IInv, QueueInv
<1> QED BY <1>1 DEF MonitoredPending, TemperaturePending, IsIn

\* A full battery is not put on charge again before a sample finds it below the lower
\* threshold (Battery.c:103-105), whatever the glitches of the other inputs.
THEOREM FullIsNotRecharged == Spec => []NeverRechargesFull
<1>1. IInv => NeverRechargesFull
  BY AsleepAllIsDecided DEF NeverRechargesFull, IInv, FullInv, Rested
<1> QED BY <1>1, InvariantHolds, PTL

\* However many samples measure nothing, and whatever the end of the byte that counts
\* them, they do not bring the charger back (Battery.c:93, 102).
THEOREM BlindIsNotCharged == Spec => []NeverChargedBlind
<1>1. IInv => NeverChargedBlind
  <2> SUFFICES ASSUME IInv, sleeping, LATB3 PROVE blind < BlindLimit
    BY DEF NeverChargedBlind
  <2>1. blind = Saturated(batteryVoltageSampledSafetyCount)
    BY AsleepAllIsDecided DEF IInv, BlindInv
  <2>2. batteryVoltageSampledSafetyCount < BlindLimit
    BY DEF IInv, DecidedInv
  <2> QED BY <2>1, <2>2 DEF Saturated
<1> QED BY <1>1, InvariantHolds, PTL

\* Asleep with the charger on, the last sample and the sun allow it (Battery.c:99-114),
\* though no decision was made on all of them at once.
THEOREM AsleepIsSafe == Spec => []SafeAsleep
<1>1. IInv => SafeAsleep
  <2> SUFFICES ASSUME IInv, sleeping, LATB3
               PROVE  /\ InChargingRange(Celsius(monitored.temperature))
                      /\ Measures(monitored) =>
                           Millivolts(monitored) \in MINIMUM_BATTERY_MILLIVOLTS ..
                                                     BATTERY_STOP_CHARGING_MILLIVOLTS - 1
                      /\ RB5 => IOCBF5
    BY DEF SafeAsleep
  <2>1. InChargingRange(Celsius(monitored.temperature))
    BY AsleepAllIsDecided DEF IInv, TemperatureInv, DecidedInv
  <2>2. RB5 => IOCBF5
    BY AsleepAllIsDecided DEF IInv, DecidedInv
  <2>3. /\ Measures(monitored) => batteryVoltageMillivolts = Millivolts(monitored)
        /\ batteryVoltageMillivolts \in Int
        /\ batteryVoltageMillivolts >= MINIMUM_BATTERY_MILLIVOLTS
        /\ batteryVoltageMillivolts < BATTERY_STOP_CHARGING_MILLIVOLTS
    BY AsleepAllIsDecided DEF IInv, TypesInv, VoltageInv, DecidedInv
  <2>4. Measures(monitored) =>
            Millivolts(monitored) \in MINIMUM_BATTERY_MILLIVOLTS ..
                                      BATTERY_STOP_CHARGING_MILLIVOLTS - 1
    BY <2>3 DEF MINIMUM_BATTERY_MILLIVOLTS, BATTERY_STOP_CHARGING_MILLIVOLTS
  <2> QED BY <2>1, <2>2, <2>4
<1> QED BY <1>1, InvariantHolds, PTL
=============================================================================

-------------------------- MODULE DoorSystemProofs --------------------------
(***************************************************************************)
(* Proofs about module DoorSystem, attended or not, whatever the buttons,  *)
(* the winch, its encoder and the schedules do: the two reference counts   *)
(* agree with their clients, the supply comes up in order, a motor that is *)
(* driven is watched, and the buttons are dead just while a calibration    *)
(* goes on or its result is on the way.  And unattended, with an encoder   *)
(* that works: the door rests where it was last wanted, got there by the   *)
(* encoder, leaves nothing on, and so implements DoorPromise.              *)
(*                                                                         *)
(* Each invariant rests on the one before: IInv on the counts, SupplyInv on*)
(* the waits of the supply and of the motor, WatchInv on the motor's       *)
(* monitor and CalibrationInv on the events that end a calibration.        *)
(***************************************************************************)
EXTENDS DoorSystem, TLAPS

\* The screen times out only while it is on: a callback that is due was found
\* pending by the wake-up in progress, and the screen only goes off by it.
ScreenInv == "screen" \in due => isScreenOn

CountsInRange == motorEnableCount \in Nat /\ isScreenOn \in BOOLEAN

\* The property, with the two outputs told by the counts beside them.
CountsMatch == vregEnableCount = Clients /\ pwmEnableCount = Clients
OutputsMatch == /\ LATB2 = (vregEnableCount # 0)
                /\ T2ON = (pwmEnableCount # 0)

IInv == CountsInRange /\ CountsMatch /\ OutputsMatch /\ ScreenInv

counted == <<vregEnableCount, LATB2, pwmVars, motorEnableCount>>
-----------------------------------------------------------------------------
(***************************************************************************)
(* What the operations of the supply and of the timer do to their counts.  *)
(***************************************************************************)
Decrement(n) == IF n = 0 THEN 0 ELSE n - 1

LEMMA SupplyEnable ==
    ASSUME vregEnableCount \in Nat, voltageRegulatorEnable
    PROVE  vregEnableCount' = vregEnableCount + 1 /\ LATB2' = (vregEnableCount' # 0)
<1>1. vregEnableCount' = vregEnableCount + 1
  BY DEF voltageRegulatorEnable
<1>2. vregEnableCount' # 0
  BY <1>1
<1>3. LATB2' = TRUE
  BY DEF voltageRegulatorEnable
<1> QED BY <1>1, <1>2, <1>3

LEMMA SupplyDisable ==
    ASSUME vregEnableCount \in Nat, LATB2 = (vregEnableCount # 0), voltageRegulatorDisable
    PROVE  vregEnableCount' = Decrement(vregEnableCount) /\ LATB2' = (vregEnableCount' # 0)
<1>1. CASE LastClient
  <2>1. vregEnableCount' = 0 /\ LATB2' = FALSE
    BY <1>1 DEF voltageRegulatorDisable
  <2>2. Decrement(vregEnableCount) = 0
    BY <1>1 DEF LastClient, Decrement
  <2> QED BY <2>1, <2>2
<1>2. CASE ~LastClient
  <2>1. vregEnableCount' = vregEnableCount - 1 /\ LATB2' = LATB2
    BY <1>2 DEF voltageRegulatorDisable
  <2>2. vregEnableCount # 0 /\ vregEnableCount - 1 # 0
    BY <1>2 DEF LastClient
  <2> QED BY <2>1, <2>2 DEF Decrement
<1> QED BY <1>1, <1>2

LEMMA TimerEnable ==
    ASSUME pwmEnableCount \in Nat, pwmTimerEnable
    PROVE  pwmEnableCount' = pwmEnableCount + 1 /\ T2ON' = (pwmEnableCount' # 0)
<1>1. pwmEnableCount' = pwmEnableCount + 1
  BY DEF pwmTimerEnable
<1>2. pwmEnableCount' # 0
  BY <1>1
<1>3. T2ON' = TRUE
  BY DEF pwmTimerEnable
<1> QED BY <1>1, <1>2, <1>3

LEMMA TimerDisable ==
    ASSUME pwmEnableCount \in Nat, T2ON = (pwmEnableCount # 0), pwmTimerDisable
    PROVE  pwmEnableCount' = Decrement(pwmEnableCount) /\ T2ON' = (pwmEnableCount' # 0)
<1>1. CASE pwmEnableCount <= 1
  <2>1. pwmEnableCount' = 0 /\ T2ON' = FALSE
    BY <1>1 DEF pwmTimerDisable
  <2>2. Decrement(pwmEnableCount) = 0
    BY <1>1 DEF Decrement
  <2> QED BY <2>1, <2>2
<1>2. CASE ~(pwmEnableCount <= 1)
  <2>1. pwmEnableCount' = pwmEnableCount - 1 /\ T2ON' = T2ON
    BY <1>2 DEF pwmTimerDisable
  <2>2. pwmEnableCount # 0 /\ pwmEnableCount - 1 # 0
    BY <1>2
  <2> QED BY <2>1, <2>2 DEF Decrement
<1> QED BY <1>1, <1>2
-----------------------------------------------------------------------------
(***************************************************************************)
(* The door's clients: enabling and disabling the motor, while the screen  *)
(* stays as it is.                                                         *)
(***************************************************************************)
LEMMA CountsAreNaturals ==
    ASSUME IInv
    PROVE  /\ Clients \in Nat
           /\ vregEnableCount \in Nat /\ vregEnableCount = Clients
           /\ pwmEnableCount \in Nat /\ pwmEnableCount = Clients
BY DEF IInv, CountsInRange, CountsMatch, Clients

LEMMA MotorEnableCounts ==
    ASSUME IInv, motorEnable, UNCHANGED isScreenOn
    PROVE  CountsInRange' /\ CountsMatch' /\ OutputsMatch'
<1>1. motorEnableCount \in Nat /\ isScreenOn \in BOOLEAN /\ OutputsMatch
  BY DEF IInv, CountsInRange
<1>2. motorEnableCount' = motorEnableCount + 1
  BY DEF motorEnable
<1>3. CASE motorEnableCount = 0
  <2>1. voltageRegulatorEnable /\ pwmTimerEnable
    BY <1>3 DEF motorEnable
  <2>2. vregEnableCount' = vregEnableCount + 1 /\ pwmEnableCount' = pwmEnableCount + 1
        /\ OutputsMatch'
    BY <2>1, CountsAreNaturals, SupplyEnable, TimerEnable DEF OutputsMatch
  <2>3. Clients' = Clients + 1
    BY <1>1, <1>2, <1>3 DEF Clients
  <2> QED BY <1>1, <1>2, <2>2, <2>3, CountsAreNaturals DEF CountsInRange, CountsMatch
<1>4. CASE motorEnableCount # 0
  <2>1. UNCHANGED <<vregEnableCount, LATB2, pwmEnableCount, T2ON>>
    BY <1>4 DEF motorEnable, vregVars, pwmVars
  <2>2. Clients' = Clients
    BY <1>1, <1>2, <1>4 DEF Clients
  <2> QED BY <1>1, <1>2, <2>1, <2>2, CountsAreNaturals
          DEF CountsInRange, CountsMatch, OutputsMatch
<1> QED BY <1>3, <1>4

LEMMA MotorDisableCounts ==
    ASSUME IInv, motorDisable, UNCHANGED isScreenOn
    PROVE  CountsInRange' /\ CountsMatch' /\ OutputsMatch'
<1>1. motorEnableCount \in Nat /\ isScreenOn \in BOOLEAN /\ OutputsMatch
  BY DEF IInv, CountsInRange
<1>2. CASE motorEnableCount = 1
  <2>1. voltageRegulatorDisable /\ pwmTimerDisable /\ motorEnableCount' = 0
    BY <1>2 DEF motorDisable
  <2>2. /\ vregEnableCount' = Decrement(vregEnableCount)
        /\ pwmEnableCount' = Decrement(pwmEnableCount)
        /\ OutputsMatch'
    BY <1>1, <2>1, CountsAreNaturals, SupplyDisable, TimerDisable DEF OutputsMatch
  <2>3. Clients' = Decrement(Clients)
    BY <1>1, <1>2, <2>1 DEF Clients, Decrement
  <2> QED BY <1>1, <2>1, <2>2, <2>3, CountsAreNaturals DEF CountsInRange, CountsMatch
<1>3. CASE motorEnableCount # 1
  <2>1. /\ motorEnableCount' = IF motorEnableCount = 0 THEN 0 ELSE motorEnableCount - 1
        /\ UNCHANGED <<vregEnableCount, LATB2, pwmEnableCount, T2ON>>
    BY <1>3 DEF motorDisable, vregVars, pwmVars
  <2>2. Clients' = Clients /\ motorEnableCount' \in Nat
    BY <1>1, <1>3, <2>1 DEF Clients
  <2> QED BY <1>1, <2>1, <2>2, CountsAreNaturals
          DEF CountsInRange, CountsMatch, OutputsMatch
<1> QED BY <1>2, <1>3

\* Whatever a handler does with the motor, it enables it once, disables it once or
\* leaves every count alone.
Effect == motorEnable \/ motorDisable \/ UNCHANGED counted

LEMMA EffectCounts ==
    ASSUME IInv, Effect, UNCHANGED isScreenOn
    PROVE  CountsInRange' /\ CountsMatch' /\ OutputsMatch'
<1>1. CASE UNCHANGED counted
  BY <1>1 DEF IInv, CountsInRange, CountsMatch, OutputsMatch, Clients, counted, pwmVars
<1> QED BY <1>1, MotorEnableCounts, MotorDisableCounts DEF Effect
-----------------------------------------------------------------------------
(***************************************************************************)
(* Each handler of the door has such an effect.                            *)
(***************************************************************************)
LEMMA EnableVarsAreCounted == UNCHANGED enableVars => UNCHANGED counted
BY DEF enableVars, counted, vregVars

LEMMA SchedulesHaveEffect ==
    doorOnOpenScheduleActioned \/ doorOnCloseScheduleActioned => Effect
BY EnableVarsAreCounted
DEF doorOnOpenScheduleActioned, doorOnCloseScheduleActioned, AlreadyThere, StartFromUnknown,
    OnlyRemember, Effect

LEMMA MotorEnabledHasEffect == doorOnMotorEnabled => Effect
BY EnableVarsAreCounted DEF doorOnMotorEnabled, Effect

LEMMA FaultHasEffect == \A fault : MotorFaulted(fault) => Effect
BY DEF MotorFaulted, Effect

LEMMA ArrivalHasEffect == \A state, event : ArrivedAt(state, event) => Effect
BY DEF ArrivedAt, Effect

LEMMA MotorStoppedHasEffect == doorOnMotorStopped => Effect
<1>1. OpeningStopped => Effect
  BY EnableVarsAreCounted, FaultHasEffect, ArrivalHasEffect DEF OpeningStopped, Effect
<1>2. ClosingStopped => Effect
  BY EnableVarsAreCounted, FaultHasEffect, ArrivalHasEffect DEF ClosingStopped, Effect
<1>3. FindBottomStopped => Effect
  <2>1. \A count, iterations : TriesAgain(count, iterations) => Effect
    BY EnableVarsAreCounted DEF TriesAgain, Effect
  <2>2. FoundBottom => Effect
    BY EnableVarsAreCounted DEF FoundBottom, Effect
  <2> QED BY <2>1, <2>2, FaultHasEffect DEF FindBottomStopped
<1>4. \A fault : ManualStopped(fault) => Effect
  BY FaultHasEffect DEF ManualStopped, Effect
<1> QED BY <1>1, <1>2, <1>3, <1>4, EnableVarsAreCounted DEF doorOnMotorStopped, Effect

LEMMA CallsHaveEffect ==
    doorManualStartOpening \/ doorManualStartClosing \/ doorManualStop \/ doorCalibrate
        \/ onDoorClosedForCalibration \/ onDoorAbortedForCalibration => Effect
BY EnableVarsAreCounted
DEF doorManualStartOpening, doorManualStartClosing, doorManualStop, doorCalibrate,
    onDoorClosedForCalibration, onDoorAbortedForCalibration, Effect
-----------------------------------------------------------------------------
(***************************************************************************)
(* Every step has such an effect or switches the screen.                   *)
(***************************************************************************)
\* A step that leaves the screen as it is keeps its callback from coming due.
StaysDue == "screen" \in due' => "screen" \in due

LEMMA EffectKeepsIInv ==
    ASSUME IInv, Effect, UNCHANGED isScreenOn, StaysDue
    PROVE  IInv'
BY EffectCounts DEF IInv, ScreenInv, StaysDue

LEMMA WakeUpKeepsIInv ==
    ASSUME IInv, WakeUp
    PROVE  IInv'
<1>1. Effect /\ UNCHANGED isScreenOn
  BY EnableVarsAreCounted DEF WakeUp, Effect, uiVars
<1>2. "screen" \in due' => isScreenOn
  BY DEF WakeUp, Wake, Pending, VregPending, MotorPending, ScreenMayTimeOut
<1> QED BY <1>1, <1>2, EffectCounts DEF IInv, ScreenInv

LEMMA ScreenOnKeepsIInv ==
    ASSUME IInv, ButtonsPressedWhenScreenIsOff
    PROVE  IInv'
<1>1. /\ isScreenOn = FALSE /\ isScreenOn' = TRUE /\ UNCHANGED motorEnableCount
      /\ voltageRegulatorEnable /\ pwmTimerEnable
  BY DEF ButtonsPressedWhenScreenIsOff, IInv, CountsInRange
<1>2. motorEnableCount \in Nat /\ OutputsMatch
  BY DEF IInv, CountsInRange
<1>3. vregEnableCount' = vregEnableCount + 1 /\ pwmEnableCount' = pwmEnableCount + 1
      /\ OutputsMatch'
  BY <1>1, CountsAreNaturals, SupplyEnable, TimerEnable DEF OutputsMatch
<1>4. Clients' = Clients + 1
  BY <1>1, <1>2 DEF Clients
<1>5. CountsInRange' /\ CountsMatch' /\ ScreenInv'
  BY <1>1, <1>2, <1>3, <1>4, CountsAreNaturals DEF CountsInRange, CountsMatch, ScreenInv
<1> QED BY <1>3, <1>5 DEF IInv

LEMMA ScreenOffKeepsIInv ==
    ASSUME IInv, ScreenTimesOut
    PROVE  IInv'
<1>1. /\ isScreenOn = TRUE /\ isScreenOn' = FALSE /\ UNCHANGED motorEnableCount
      /\ voltageRegulatorDisable /\ pwmTimerDisable
      /\ "screen" \notin due'
  BY DEF ScreenTimesOut, Calling, IInv, CountsInRange, ScreenInv
<1>2. motorEnableCount \in Nat /\ OutputsMatch
  BY DEF IInv, CountsInRange
<1>3. /\ vregEnableCount' = Decrement(vregEnableCount)
      /\ pwmEnableCount' = Decrement(pwmEnableCount)
      /\ OutputsMatch'
  BY <1>1, <1>2, CountsAreNaturals, SupplyDisable, TimerDisable DEF OutputsMatch
<1>4. Clients' = Decrement(Clients)
  BY <1>1, <1>2 DEF Clients, Decrement
<1>5. CountsInRange' /\ CountsMatch' /\ ScreenInv'
  BY <1>1, <1>2, <1>3, <1>4, CountsAreNaturals DEF CountsInRange, CountsMatch, ScreenInv
<1> QED BY <1>3, <1>5 DEF IInv

LEMMA CallbackKeepsIInv ==
    ASSUME IInv, Callback
    PROVE  IInv'
<1>1. CASE RegulatedStabilises \/ McuStabilises
  <2>1. Effect /\ UNCHANGED isScreenOn
    BY <1>1 DEF RegulatedStabilises, McuStabilises, onRegulatedVoltageRailStabilised,
                onMcuVoltageRailStabilised, Effect, counted, uiVars
  <2>2. StaysDue
    BY <1>1 DEF RegulatedStabilises, McuStabilises, Calling, StaysDue
  <2> QED BY <2>1, <2>2, EffectKeepsIInv
<1>2. CASE Ramp \/ Monitor
  <2>1. Effect /\ UNCHANGED isScreenOn
    BY <1>2, EnableVarsAreCounted
    DEF Ramp, Monitor, incrementPwmDutyCycle, motorRunningStateMonitor, Effect, uiVars
  <2>2. StaysDue
    BY <1>2 DEF Ramp, Monitor, Calling, StaysDue
  <2> QED BY <2>1, <2>2, EffectKeepsIInv
<1>3. CASE onButtonsStoppedBouncing
  <2>1. Effect /\ UNCHANGED isScreenOn
    BY <1>3, EnableVarsAreCounted DEF onButtonsStoppedBouncing, Effect
  <2>2. StaysDue
    BY <1>3 DEF onButtonsStoppedBouncing, Calling, StaysDue
  <2> QED BY <2>1, <2>2, EffectKeepsIInv
<1> QED BY <1>1, <1>2, <1>3, ScreenOffKeepsIInv DEF Callback

LEMMA DispatchKeepsIInv ==
    ASSUME IInv, Dispatch
    PROVE  IInv'
<1>1. CASE VregEnabled \/ VregDisabled
  <2>1. Effect /\ UNCHANGED isScreenOn /\ UNCHANGED due
    BY <1>1, EnableVarsAreCounted
    DEF VregEnabled, VregDisabled, onVoltageRegulatorEnabled, onVoltageRegulatorDisabled,
        Effect, counted, vregVars, uiVars
  <2> QED BY <2>1, EffectKeepsIInv DEF StaysDue
<1>2. CASE MotorEnabled \/ MotorStopped
  <2>1. Effect /\ UNCHANGED isScreenOn /\ UNCHANGED due
    BY <1>2, MotorEnabledHasEffect, MotorStoppedHasEffect
    DEF MotorEnabled, MotorStopped, uiVars
  <2> QED BY <2>1, EffectKeepsIInv DEF StaysDue
<1>3. CASE OpenScheduleActioned \/ CloseScheduleActioned
  <2>1. Effect /\ UNCHANGED isScreenOn /\ UNCHANGED due
    BY <1>3, SchedulesHaveEffect DEF OpenScheduleActioned, CloseScheduleActioned, uiVars
  <2> QED BY <2>1, EffectKeepsIInv DEF StaysDue
<1>4. CASE DoorClosedEvent \/ DoorAbortedEvent
  <2>1. Effect /\ UNCHANGED isScreenOn /\ UNCHANGED due
    BY <1>4, CallsHaveEffect DEF DoorClosedEvent, DoorAbortedEvent, uiVars
  <2> QED BY <2>1, EffectKeepsIInv DEF StaysDue
<1>5. CASE TimeChanged \/ Unheard \/ DoorCalibratedEvent
  <2>1. Effect /\ UNCHANGED isScreenOn /\ UNCHANGED due
    BY <1>5, EnableVarsAreCounted DEF TimeChanged, Unheard, DoorCalibratedEvent, Effect, uiVars
  <2> QED BY <2>1, EffectKeepsIInv DEF StaysDue
<1>6. CASE ButtonsPressedWhenScreenIsOn
  <2>1. Effect
    BY <1>6, CallsHaveEffect, EnableVarsAreCounted
    DEF ButtonsPressedWhenScreenIsOn, OptionSelected, Effect
  <2>2. UNCHANGED isScreenOn /\ UNCHANGED due
    BY <1>6 DEF ButtonsPressedWhenScreenIsOn
  <2> QED BY <2>1, <2>2, EffectKeepsIInv DEF StaysDue
<1>7. CASE ButtonsReleased
  <2>1. Effect
    BY <1>7, CallsHaveEffect, EnableVarsAreCounted
    DEF ButtonsReleased, OptionAfterSelected, Effect
  <2>2. UNCHANGED isScreenOn /\ UNCHANGED due
    BY <1>7 DEF ButtonsReleased
  <2> QED BY <2>1, <2>2, EffectKeepsIInv DEF StaysDue
<1> QED BY <1>1, <1>2, <1>3, <1>4, <1>5, <1>6, <1>7, ScreenOnKeepsIInv DEF Dispatch

LEMMA StepKeepsIInv ==
    ASSUME IInv, [Next]_vars
    PROVE  IInv'
<1>1. CASE WokenEnds
  <2>1. Effect /\ UNCHANGED isScreenOn /\ UNCHANGED due
    BY <1>1, EnableVarsAreCounted DEF WokenEnds, onWokenFromSleep, Effect, uiVars
  <2> QED BY <2>1, EffectKeepsIInv DEF StaysDue
<1>2. CASE Winch
  <2>1. Effect
    BY <1>2, EnableVarsAreCounted DEF Winch, EncoderPulse, CurrentTrip, EncoderOverflow, Effect
  <2>2. UNCHANGED isScreenOn /\ UNCHANGED due
    BY <1>2 DEF Winch, uiVars, loopVars
  <2> QED BY <2>1, <2>2, EffectKeepsIInv DEF StaysDue
<1>3. CASE UNCHANGED vars
  <2>1. Effect /\ UNCHANGED isScreenOn /\ UNCHANGED due
    BY <1>3, EnableVarsAreCounted DEF vars, uiVars, loopVars, Effect
  <2> QED BY <2>1, EffectKeepsIInv DEF StaysDue
<1> QED BY <1>1, <1>2, <1>3, WakeUpKeepsIInv, CallbackKeepsIInv, DispatchKeepsIInv DEF Next

LEMMA InitIsCounted == Init => IInv
<1> SUFFICES ASSUME Init PROVE IInv
  OBVIOUS
<1>1. /\ motorEnableCount = 0 /\ isScreenOn = FALSE /\ due = {}
      /\ vregEnableCount = 0 /\ LATB2 = FALSE /\ pwmEnableCount = 0 /\ T2ON = FALSE
  BY DEF Init, motorInitialise, voltageRegulatorInitialise, pwmTimerInitialise
<1>2. Clients = 0
  BY <1>1 DEF Clients
<1> QED BY <1>1, <1>2 DEF IInv, CountsInRange, CountsMatch, OutputsMatch, ScreenInv

LEMMA Invariant == Spec => []IInv
<1>1. IInv /\ [Next]_vars => IInv'
  BY StepKeepsIInv
<1> QED BY InitIsCounted, <1>1, PTL DEF Spec

\* For any heights, ramps and options, however schedules, presses, faults and the
\* screen's timeout interleave, the supply and the timer are on exactly while the
\* motor or the screen wants them (VoltageRegulator.c, PwmTimer.c).
THEOREM SupplyIsBalanced == Spec => []ClientsAreCounted
<1>1. IInv => ClientsAreCounted
  BY DEF IInv, CountsMatch, OutputsMatch, ClientsAreCounted
<1> QED BY Invariant, <1>1, PTL
-----------------------------------------------------------------------------
(***************************************************************************)
(* What a handler leaves pending, by the types of the events it publishes. *)
(***************************************************************************)
Plain == {"MOTOR_ENABLED", "MOTOR_STARTED", "MOTOR_DISABLED", "VOLTAGE_REGULATOR_DISABLED",
          "DOOR_OPENED", "DOOR_CLOSED", "LCD_DISABLED", "TIME_CHANGED", "BUTTONS_PRESSED",
          "BUTTONS_RELEASED", "DOOR_OPEN_SCHEDULE_ACTIONED", "DOOR_CLOSE_SCHEDULE_ACTIONED"}
Telling == {"MOTOR_STOPPED", "VOLTAGE_REGULATOR_ENABLED", "DOOR_ABORTED", "DOOR_CALIBRATED"}

QueueOK == queue \in Seq(Plain \cup Telling)
Handling == waking \/ queue # <<>>

IsPending(type) == \E k \in 1 .. Len(queue) : queue[k] = type
Once(type) == \A j, k \in 1 .. Len(queue) : queue[j] = type /\ queue[k] = type => j = k

Publishes(types) == \E events \in Seq(types) : Publish(events)

LEMMA PublishedQueue ==
    ASSUME QueueOK, Handling, NEW types \in SUBSET (Plain \cup Telling),
           NEW events \in Seq(types), Publish(events)
    PROVE  /\ QueueOK'
           /\ Rest \in Seq(Plain \cup Telling)
           /\ Len(queue') = Len(Rest) + Len(events)
           /\ \A k \in 1 .. Len(Rest) : queue'[k] = Rest[k]
           /\ \A k \in 1 .. Len(events) : queue'[Len(Rest) + k] = events[k]
<1>1. Rest \in Seq(Plain \cup Telling)
  BY DEF Rest, QueueOK, Handling
<1>2. events \in Seq(Plain \cup Telling)
  OBVIOUS
<1>3. queue' = Rest \o events
  BY DEF Publish
<1> QED BY <1>1, <1>2, <1>3 DEF QueueOK

\* What a handler does not publish is pending after it only if it was before, and
\* no longer if it was what is handled.
LEMMA PublishedPending ==
    ASSUME QueueOK, Handling, NEW types \in SUBSET (Plain \cup Telling), Publishes(types)
    PROVE  /\ QueueOK'
           /\ \A type :
                 type \notin types =>
                     /\ IsPending(type)' => IsPending(type)
                     /\ Once(type) => Once(type)'
                     /\ Once(type) /\ Dispatching(type) => ~IsPending(type)'
           /\ \A type : IsPending(type) /\ ~Dispatching(type) => IsPending(type)'
<1>1. PICK events \in Seq(types) : Publish(events)
  BY DEF Publishes
<1>2. /\ QueueOK'
      /\ Rest \in Seq(Plain \cup Telling)
      /\ Len(queue') = Len(Rest) + Len(events)
      /\ \A k \in 1 .. Len(Rest) : queue'[k] = Rest[k]
      /\ \A k \in 1 .. Len(events) : queue'[Len(Rest) + k] = events[k]
  BY <1>1, PublishedQueue
<1> DEFINE n == Len(Rest)
           shift == IF waking THEN 0 ELSE 1
<1>3. /\ n \in Nat /\ Len(events) \in Nat /\ Len(queue) = n + shift
      /\ \A k \in 1 .. n : k + shift \in 1 .. Len(queue) /\ Rest[k] = queue[k + shift]
      /\ \A k \in 1 .. Len(queue) : k - shift \in 1 .. n \/ (~waking /\ k = 1)
  BY DEF Rest, QueueOK, Handling
<1>4. /\ \A k \in 1 .. Len(events) : events[k] \in types
      /\ shift \in Int
  OBVIOUS
<1>5. \A type : Dispatching(type) <=> ~waking /\ queue[1] = type
  BY DEF Dispatching, QueueOK, Handling
<1> HIDE DEF n, shift
<1>6. \A k \in 1 .. Len(queue') : k \in 1 .. n \/ (k - n \in 1 .. Len(events) /\ n + (k - n) = k)
  BY <1>2, <1>3 DEF n
<1>7. ASSUME NEW type, type \notin types, NEW k \in 1 .. Len(queue'), queue'[k] = type
      PROVE  k \in 1 .. n /\ k + shift \in 1 .. Len(queue) /\ queue[k + shift] = type
  <2>1. ~(k - n \in 1 .. Len(events) /\ n + (k - n) = k)
    BY <1>2, <1>4, <1>7 DEF n
  <2>2. k \in 1 .. n
    BY <1>6, <2>1
  <2> QED BY <1>2, <1>3, <1>7, <2>2 DEF n
<1>8. ASSUME NEW type, type \notin types
      PROVE  /\ IsPending(type)' => IsPending(type)
             /\ Once(type) => Once(type)'
             /\ Once(type) /\ Dispatching(type) => ~IsPending(type)'
  <2>1. IsPending(type)' => IsPending(type)
    BY <1>7, <1>8 DEF IsPending
  <2>2. ASSUME Once(type) PROVE Once(type)'
    <3>1. ASSUME NEW j \in 1 .. Len(queue'), NEW k \in 1 .. Len(queue'),
                 queue'[j] = type, queue'[k] = type
          PROVE  j = k
      <4>1. j + shift = k + shift
        BY <1>7, <1>8, <2>2, <3>1 DEF Once
      <4>2. j \in 1 .. n /\ k \in 1 .. n
        BY <1>7, <1>8, <3>1
      <4> QED BY <1>3, <1>4, <4>1, <4>2
    <3> QED BY <3>1 DEF Once
  <2>3. ASSUME Once(type), Dispatching(type), IsPending(type)' PROVE FALSE
    <3>1. PICK k \in 1 .. Len(queue') : queue'[k] = type
      BY <2>3 DEF IsPending
    <3>2. k \in 1 .. n /\ k + shift \in 1 .. Len(queue) /\ queue[k + shift] = type
      BY <1>7, <1>8, <3>1
    <3>3. queue[1] = type /\ shift = 1 /\ 1 \in 1 .. Len(queue)
      BY <1>3, <1>5, <2>3, <3>2 DEF shift
    <3>4. k + shift = 1
      BY <2>3, <3>2, <3>3 DEF Once
    <3> QED BY <1>3, <3>2, <3>3, <3>4
  <2> QED BY <2>1, <2>2, <2>3
<1>9. ASSUME NEW type, IsPending(type), ~Dispatching(type) PROVE IsPending(type)'
  <2>1. PICK k \in 1 .. Len(queue) : queue[k] = type
    BY <1>9 DEF IsPending
  <2>2. k - shift \in 1 .. n
    BY <1>3, <1>5, <1>9, <2>1
  <2>3. queue'[k - shift] = Rest[k - shift] /\ Rest[k - shift] = queue[(k - shift) + shift]
    BY <1>2, <1>3, <2>2 DEF n
  <2>4. (k - shift) + shift = k
    BY <1>3, <1>4
  <2>5. k - shift \in 1 .. Len(queue')
    BY <1>2, <1>3, <2>2 DEF n
  <2> QED BY <2>1, <2>3, <2>4, <2>5 DEF IsPending
<1> QED BY <1>2, <1>8, <1>9

\* A single event is pending once if it was not pending before.
LEMMA PublishedOne ==
    ASSUME QueueOK, Handling, NEW type \in Plain \cup Telling, Publish(<<type>>)
    PROVE  IsPending(type)' /\ (~IsPending(type) => Once(type)')
<1> DEFINE events == <<type>>
<1>1. events \in Seq({type}) /\ Len(events) = 1 /\ events[1] = type
  OBVIOUS
<1>2. Publish(events) /\ {type} \in SUBSET (Plain \cup Telling)
  OBVIOUS
<1> HIDE DEF events
<1> DEFINE types == {type}
<1>a. types \in SUBSET (Plain \cup Telling) /\ events \in Seq(types)
  BY <1>1, <1>2
<1> HIDE DEF types
<1>b. /\ Rest \in Seq(Plain \cup Telling)
      /\ Len(queue') = Len(Rest) + Len(events)
      /\ \A k \in 1 .. Len(Rest) : queue'[k] = Rest[k]
      /\ \A k \in 1 .. Len(events) : queue'[Len(Rest) + k] = events[k]
  BY <1>2, <1>a, PublishedQueue
<1>3. /\ Rest \in Seq(Plain \cup Telling)
      /\ Len(queue') = Len(Rest) + 1
      /\ \A k \in 1 .. Len(Rest) : queue'[k] = Rest[k]
      /\ queue'[Len(Rest) + 1] = type
  BY <1>1, <1>b
<1>4. IsPending(type)'
  BY <1>3 DEF IsPending
<1>5. ASSUME ~IsPending(type) PROVE Once(type)'
  <2>1. \A k \in 1 .. Len(Rest) : Rest[k] # type
    <3>1. CASE waking
      BY <1>5, <3>1 DEF Rest, IsPending
    <3>2. CASE ~waking
      <4>1. \A k \in 1 .. Len(Rest) : k + 1 \in 1 .. Len(queue) /\ Rest[k] = queue[k + 1]
        BY <3>2 DEF Rest, QueueOK, Handling
      <4> QED BY <1>5, <4>1 DEF IsPending
    <3> QED BY <3>1, <3>2
  <2>2. \A k \in 1 .. Len(queue') : queue'[k] = type => k = Len(Rest) + 1
    BY <1>3, <2>1
  <2> QED BY <2>2 DEF Once
<1> QED BY <1>4, <1>5
-----------------------------------------------------------------------------
(***************************************************************************)
(* What each handler publishes.                                            *)
(***************************************************************************)
LEMMA EventsArePlain ==
    /\ motorEnableEvents \in Seq(Plain) /\ motorDisableEvents \in Seq(Plain)
    /\ onVoltageRegulatorEnabledEvents \in Seq(Plain)
    /\ voltageRegulatorDisableEvents \in Seq(Plain)
    /\ StartEvents \in Seq(Plain)
    /\ \A count : motorOnEvents(count) \in Seq(Plain)
    /\ <<>> \in Seq(Plain) /\ \A event \in Plain : <<event>> \in Seq(Plain)
    /\ \A first, second \in Seq(Plain) : first \o second \in Seq(Plain)
<1>1. <<>> \in Seq(Plain) /\ \A event \in Plain : <<event>> \in Seq(Plain)
  OBVIOUS
<1>2. \A first, second \in Seq(Plain) : first \o second \in Seq(Plain)
  OBVIOUS
<1> DEFINE Single(event) == <<event>>
<1>a. /\ Single("VOLTAGE_REGULATOR_DISABLED") \in Seq(Plain) /\ Single("MOTOR_ENABLED") \in Seq(Plain)
      /\ Single("MOTOR_STARTED") \in Seq(Plain) /\ Single("MOTOR_DISABLED") \in Seq(Plain)
  BY <1>1 DEF Plain
<1> DEFINE None == <<>>
<1>b. None \in Seq(Plain)
  BY <1>1
<1>c. /\ voltageRegulatorDisableEvents \in {Single("VOLTAGE_REGULATOR_DISABLED"), None}
      /\ motorEnableEvents \in {Single("MOTOR_ENABLED"), None}
      /\ onVoltageRegulatorEnabledEvents \in {Single("MOTOR_ENABLED"), None}
      /\ \A count : motorOnEvents(count) \in {Single("MOTOR_STARTED"), None}
  BY DEF voltageRegulatorDisableEvents, motorEnableEvents, onVoltageRegulatorEnabledEvents,
         motorOnEvents
<1>d. StartEvents \in {motorOnEvents(1), None}
  BY DEF StartEvents
<1> HIDE DEF Single, None
<1>3. voltageRegulatorDisableEvents \in Seq(Plain)
  BY <1>a, <1>b, <1>c
<1>4. motorEnableEvents \in Seq(Plain) /\ onVoltageRegulatorEnabledEvents \in Seq(Plain)
      /\ StartEvents \in Seq(Plain) /\ \A count : motorOnEvents(count) \in Seq(Plain)
  BY <1>a, <1>b, <1>c, <1>d
<1>5. motorDisableEvents \in Seq(Plain)
  <2>1. <<"MOTOR_DISABLED">> \in Seq(Plain)
    BY <1>a DEF Single
  <2>2. <<"MOTOR_DISABLED">> \o voltageRegulatorDisableEvents \in Seq(Plain)
    BY <1>2, <1>3, <2>1
  <2> QED BY <1>1, <2>2 DEF motorDisableEvents
<1> QED BY <1>1, <1>2, <1>3, <1>4, <1>5

\* How the events of a handler are put together.
LEMMA PublishingPlain ==
    /\ \A first \in Seq(Plain) : Publish(first) => Publishes(Plain)
    /\ \A first, second \in Seq(Plain) : Publish(first \o second) => Publishes(Plain)
BY EventsArePlain DEF Publishes

LEMMA SchedulesPublish ==
    doorOnOpenScheduleActioned \/ doorOnCloseScheduleActioned => Publishes(Plain)
BY PublishingPlain, EventsArePlain
DEF doorOnOpenScheduleActioned, doorOnCloseScheduleActioned, AlreadyThere, StartFromUnknown,
    OnlyRemember

LEMMA MotorEnabledPublishes == doorOnMotorEnabled => Publishes(Plain)
BY PublishingPlain, EventsArePlain DEF doorOnMotorEnabled

LEMMA FaultPublishes == \A fault : MotorFaulted(fault) => Publishes(Plain \cup {"DOOR_ABORTED"})
<1>1. motorDisableEvents \o <<"DOOR_ABORTED">> \in Seq(Plain \cup {"DOOR_ABORTED"})
  <2>1. motorDisableEvents \in Seq(Plain \cup {"DOOR_ABORTED"})
    BY EventsArePlain
  <2>2. <<"DOOR_ABORTED">> \in Seq(Plain \cup {"DOOR_ABORTED"})
    OBVIOUS
  <2> QED BY <2>1, <2>2
<1> QED BY <1>1 DEF MotorFaulted, Publishes

LEMMA ArrivalPublishes ==
    \A state, event : event \in Plain /\ ArrivedAt(state, event) => Publishes(Plain)
BY PublishingPlain, EventsArePlain DEF ArrivedAt

LEMMA PlainIsMore == Publishes(Plain) => Publishes(Plain \cup {"DOOR_ABORTED"})
<1>1. \A events \in Seq(Plain) : events \in Seq(Plain \cup {"DOOR_ABORTED"})
  OBVIOUS
<1> QED BY <1>1 DEF Publishes

LEMMA MotorStoppedPublishes == doorOnMotorStopped => Publishes(Plain \cup {"DOOR_ABORTED"})
<1>0. "DOOR_OPENED" \in Plain /\ "DOOR_CLOSED" \in Plain
  BY DEF Plain
<1>1. OpeningStopped => Publishes(Plain \cup {"DOOR_ABORTED"})
  BY <1>0, PublishingPlain, EventsArePlain, FaultPublishes, ArrivalPublishes, PlainIsMore
  DEF OpeningStopped
<1>2. ClosingStopped => Publishes(Plain \cup {"DOOR_ABORTED"})
  BY <1>0, PublishingPlain, EventsArePlain, FaultPublishes, ArrivalPublishes, PlainIsMore
  DEF ClosingStopped
<1>3. \A count, iterations : TriesAgain(count, iterations) => Publishes(Plain)
  BY PublishingPlain, EventsArePlain DEF TriesAgain
<1>4. FoundBottom => Publishes(Plain)
  BY <1>0, PublishingPlain, EventsArePlain DEF FoundBottom
<1>5. FindBottomStopped => Publishes(Plain \cup {"DOOR_ABORTED"})
  BY <1>3, <1>4, FaultPublishes, PlainIsMore DEF FindBottomStopped
<1>6. \A fault : ManualStopped(fault) => Publishes(Plain \cup {"DOOR_ABORTED"})
  BY PublishingPlain, EventsArePlain, FaultPublishes, PlainIsMore DEF ManualStopped
<1> QED BY <1>1, <1>2, <1>5, <1>6, PublishingPlain, EventsArePlain, PlainIsMore
        DEF doorOnMotorStopped

LEMMA CallsPublish ==
    doorManualStartOpening \/ doorManualStartClosing \/ doorManualStop \/ doorCalibrate
        \/ onDoorAbortedForCalibration => Publishes(Plain)
BY PublishingPlain, EventsArePlain
DEF doorManualStartOpening, doorManualStartClosing, doorManualStop, doorCalibrate,
    onDoorAbortedForCalibration

\* So of what tells something, a handler of an event publishes no more than that the
\* door was aborted or calibrated.
LEMMA DispatchPublishes ==
    ASSUME QueueOK, Dispatch
    PROVE  /\ ~waking /\ ~waking' /\ due' = due /\ Handling
           /\ Publishes(Plain \cup {"DOOR_ABORTED", "DOOR_CALIBRATED"})
           /\ ~MotorStopped /\ ~DoorClosedEvent => Publishes(Plain)
           /\ MotorStopped => Publishes(Plain \cup {"DOOR_ABORTED"})
<1>1. ~waking /\ ~waking' /\ due' = due /\ Handling
  BY DEF Dispatch, VregEnabled, VregDisabled, MotorEnabled, MotorStopped, TimeChanged,
         OpenScheduleActioned, CloseScheduleActioned, DoorClosedEvent, DoorAbortedEvent,
         Unheard, ButtonsPressedWhenScreenIsOff, ButtonsPressedWhenScreenIsOn,
         ButtonsReleased, DoorCalibratedEvent, Dispatching, Handling
<1>2. ASSUME ~MotorStopped, ~DoorClosedEvent PROVE Publishes(Plain)
  <2>1. CASE VregEnabled \/ VregDisabled \/ MotorEnabled
    BY <2>1, PublishingPlain, EventsArePlain, MotorEnabledPublishes
    DEF VregEnabled, VregDisabled, MotorEnabled
  <2>2. CASE TimeChanged
    <3>1. \A first \in {<<>>, <<"DOOR_OPEN_SCHEDULE_ACTIONED">>,
                        <<"DOOR_CLOSE_SCHEDULE_ACTIONED">>} : first \in Seq(Plain)
      BY EventsArePlain DEF Plain
    <3> QED BY <2>2, <3>1, PublishingPlain DEF TimeChanged
  <2>3. CASE OpenScheduleActioned \/ CloseScheduleActioned \/ DoorAbortedEvent
    BY <2>3, SchedulesPublish, CallsPublish
    DEF OpenScheduleActioned, CloseScheduleActioned, DoorAbortedEvent
  <2>4. CASE Unheard \/ ButtonsPressedWhenScreenIsOff \/ DoorCalibratedEvent
    BY <2>4, PublishingPlain, EventsArePlain
    DEF Unheard, ButtonsPressedWhenScreenIsOff, DoorCalibratedEvent
  <2>5. CASE ButtonsPressedWhenScreenIsOn
    BY <2>5, PublishingPlain, EventsArePlain, CallsPublish
    DEF ButtonsPressedWhenScreenIsOn, OptionSelected
  <2>6. CASE ButtonsReleased
    BY <2>6, PublishingPlain, EventsArePlain, CallsPublish
    DEF ButtonsReleased, OptionAfterSelected
  <2> QED BY <1>2, <2>1, <2>2, <2>3, <2>4, <2>5, <2>6 DEF Dispatch
<1>3. MotorStopped => Publishes(Plain \cup {"DOOR_ABORTED"})
  BY MotorStoppedPublishes DEF MotorStopped
<1>4. DoorClosedEvent => Publishes(Plain \cup {"DOOR_CALIBRATED"})
  <2>1. <<>> \in Seq(Plain \cup {"DOOR_CALIBRATED"})
        /\ <<"DOOR_CALIBRATED">> \in Seq(Plain \cup {"DOOR_CALIBRATED"})
    OBVIOUS
  <2> QED BY <2>1 DEF DoorClosedEvent, onDoorClosedForCalibration, Publishes
<1>5. /\ Publishes(Plain) => Publishes(Plain \cup {"DOOR_ABORTED", "DOOR_CALIBRATED"})
      /\ Publishes(Plain \cup {"DOOR_ABORTED"}) =>
            Publishes(Plain \cup {"DOOR_ABORTED", "DOOR_CALIBRATED"})
      /\ Publishes(Plain \cup {"DOOR_CALIBRATED"}) =>
            Publishes(Plain \cup {"DOOR_ABORTED", "DOOR_CALIBRATED"})
  <2>1. \A events : events \in Seq(Plain) \/ events \in Seq(Plain \cup {"DOOR_ABORTED"})
                      \/ events \in Seq(Plain \cup {"DOOR_CALIBRATED"})
                => events \in Seq(Plain \cup {"DOOR_ABORTED", "DOOR_CALIBRATED"})
    OBVIOUS
  <2> QED BY <2>1 DEF Publishes
<1> QED BY <1>1, <1>2, <1>3, <1>4, <1>5
-----------------------------------------------------------------------------
(***************************************************************************)
(* The order the supply comes up in.                                       *)
(*                                                                         *)
(* The waits of the supply are never cancelled, so what keeps a wait from  *)
(* firing into a later enabling is that nobody switches the supply off     *)
(* while one is pending (WaitsInv).  The screen is on for longer; the door *)
(* only disables the motor at MOTOR_STOPPED, and a motor that runs, or is  *)
(* about to be told stopped, is fully enabled (RunInv).                    *)
(***************************************************************************)
Running == motorRunningState # "STOPPED"
StopPending == IsPending("MOTOR_STOPPED")

RunInv ==
    /\ Running \/ StopPending => isFullyEnabled
    /\ Running /\ StopPending => motorEnableCount >= 2
    /\ isFullyEnabled => motorEnableCount # 0 /\ fullyEnabled
    /\ current \in Waiting => ~Running /\ ~StopPending
    /\ Once("MOTOR_STOPPED")

WaitsInv ==
    /\ regulatedWaits \in Nat /\ mcuWaits \in Nat
    /\ regulatedWaits + mcuWaits = IF vregEnableCount # 0 /\ ~fullyEnabled THEN 1 ELSE 0
    /\ fullyEnabled => vregEnableCount # 0 /\ LATB0
    /\ mcuWaits # 0 => LATB0
    /\ LATB0 => vregEnableCount # 0

\* A callback that is due was found pending by the wake-up in progress.
DueInv ==
    /\ ~waking => due = {}
    /\ "monitor" \in due => ~StopPending
    /\ "mcu" \in due => mcuWaits # 0
    /\ "regulated" \in due => regulatedWaits # 0
    /\ "screen" \in due => regulatedWaits = 0 /\ mcuWaits = 0

\* Nothing switches the supply off before its being up has been heard of.
HeardInv ==
    IsPending("VOLTAGE_REGULATOR_ENABLED") =>
        /\ fullyEnabled /\ ~StopPending
        /\ waking => ~Running /\ "screen" \notin due

SupplyInv == IInv /\ QueueOK /\ RunInv /\ WaitsInv /\ DueInv /\ HeardInv

\* What a handler of an event does to the supply and to the run of the motor.
SupplyEffect ==
    \/ UNCHANGED vregVars
    \/ voltageRegulatorEnable
    \/ voltageRegulatorDisable /\ Dispatching("MOTOR_STOPPED")

RunEffect ==
    \/ /\ UNCHANGED <<motorEnableCount, isFullyEnabled, fullyEnabled, motorRunningState>>
       /\ current' \in Waiting => current \in Waiting
    \/ /\ motorEnable
       /\ IF isFullyEnabled' THEN current' \notin Waiting ELSE UNCHANGED motorRunningState
    \/ /\ UNCHANGED enableVars
       /\ isFullyEnabled /\ (StopPending => Dispatching("MOTOR_STOPPED"))
       /\ current' \notin Waiting
    \/ /\ motorDisable /\ Dispatching("MOTOR_STOPPED")
       /\ UNCHANGED motorRunningState
       /\ current' \notin Waiting

LEMMA DispatchedIsPending ==
    ASSUME QueueOK, NEW type, Dispatching(type)
    PROVE  IsPending(type)
<1>1. 1 \in 1 .. Len(queue) /\ queue[1] = type
  BY DEF QueueOK, Dispatching
<1> QED BY <1>1 DEF IsPending

LEMMA SupplyEffectKeepsWaitsInv ==
    ASSUME SupplyInv, SupplyEffect
    PROVE  WaitsInv'
<1>1. vregEnableCount \in Nat
  BY CountsAreNaturals DEF SupplyInv
<1>2. CASE UNCHANGED vregVars
  BY <1>2 DEF SupplyInv, WaitsInv, vregVars
<1>3. CASE voltageRegulatorEnable
  BY <1>1, <1>3 DEF SupplyInv, WaitsInv, voltageRegulatorEnable
<1>4. CASE voltageRegulatorDisable /\ Dispatching("MOTOR_STOPPED")
  <2>1. StopPending
    BY <1>4, DispatchedIsPending DEF SupplyInv, StopPending
  <2>2. fullyEnabled /\ regulatedWaits = 0 /\ mcuWaits = 0
    BY <2>1 DEF SupplyInv, RunInv, WaitsInv
  <2>3. CASE LastClient
    <3>1. vregEnableCount = 1
      BY <1>1, <2>2, <2>3 DEF LastClient, SupplyInv, WaitsInv
    <3>2. /\ vregEnableCount' = 0 /\ ~fullyEnabled' /\ ~LATB0'
          /\ regulatedWaits' = 0 /\ mcuWaits' = 0
      BY <1>4, <2>2, <2>3, <3>1 DEF voltageRegulatorDisable
    <3> QED BY <3>2 DEF WaitsInv
  <2>4. CASE ~LastClient
    <3>1. /\ vregEnableCount' = vregEnableCount - 1 /\ vregEnableCount' # 0
          /\ UNCHANGED <<fullyEnabled, LATB0, regulatedWaits, mcuWaits>>
      <4>1. /\ vregEnableCount' = vregEnableCount - 1
            /\ UNCHANGED <<fullyEnabled, LATB0, regulatedWaits, mcuWaits>>
        BY <1>4, <2>4 DEF voltageRegulatorDisable
      <4>2. vregEnableCount > 1
        BY <1>1, <2>4 DEF LastClient
      <4> QED BY <1>1, <4>1, <4>2
    <3> QED BY <2>2, <3>1 DEF SupplyInv, WaitsInv
  <2> QED BY <2>3, <2>4
<1> QED BY <1>2, <1>3, <1>4 DEF SupplyEffect

\* An event's handler tells of no stop and of no supply being up.
LEMMA NothingIsTold ==
    ASSUME SupplyInv, Dispatch
    PROVE  /\ QueueOK'
           /\ StopPending' => StopPending
           /\ Once("MOTOR_STOPPED")'
           /\ Dispatching("MOTOR_STOPPED") => StopPending /\ ~StopPending'
           /\ IsPending("VOLTAGE_REGULATOR_ENABLED")' => IsPending("VOLTAGE_REGULATOR_ENABLED")
<1> DEFINE types == Plain \cup {"DOOR_ABORTED", "DOOR_CALIBRATED"}
<1>1. types \in SUBSET (Plain \cup Telling) /\ "MOTOR_STOPPED" \notin types
      /\ "VOLTAGE_REGULATOR_ENABLED" \notin types
  BY DEF Plain, Telling
<1>2. Handling /\ Publishes(types) /\ QueueOK
  BY DispatchPublishes DEF SupplyInv
<1> HIDE DEF types
<1>3. /\ QueueOK'
      /\ \A type :
            type \notin types =>
                /\ IsPending(type)' => IsPending(type)
                /\ Once(type) => Once(type)'
                /\ Once(type) /\ Dispatching(type) => ~IsPending(type)'
  BY <1>1, <1>2, PublishedPending
<1>4. Once("MOTOR_STOPPED") /\ (Dispatching("MOTOR_STOPPED") => StopPending)
  BY <1>2, DispatchedIsPending DEF SupplyInv, RunInv, StopPending
<1> QED BY <1>1, <1>3, <1>4 DEF StopPending

LEMMA RunEffectKeepsRunInv ==
    ASSUME SupplyInv, Dispatch, RunEffect
    PROVE  RunInv'
<1>1. motorEnableCount \in Nat /\ RunInv
  BY DEF SupplyInv, IInv, CountsInRange
<1>2. /\ StopPending' => StopPending
      /\ Once("MOTOR_STOPPED")'
      /\ Dispatching("MOTOR_STOPPED") => StopPending /\ ~StopPending'
  BY NothingIsTold
<1>3. CASE /\ UNCHANGED <<motorEnableCount, isFullyEnabled, fullyEnabled, motorRunningState>>
           /\ current' \in Waiting => current \in Waiting
  BY <1>1, <1>2, <1>3 DEF RunInv, Running
<1>4. CASE /\ motorEnable
           /\ IF isFullyEnabled' THEN current' \notin Waiting ELSE UNCHANGED motorRunningState
  <2>1. motorEnableCount' = motorEnableCount + 1 /\ UNCHANGED fullyEnabled
    BY <1>4 DEF motorEnable, voltageRegulatorEnable, vregVars
  <2>2. isFullyEnabled => isFullyEnabled'
    BY <1>4 DEF motorEnable
  <2>3. isFullyEnabled' => fullyEnabled
    BY <1>1, <1>4 DEF motorEnable, RunInv
  <2> QED BY <1>1, <1>2, <1>4, <2>1, <2>2, <2>3 DEF RunInv, Running
<1>5. CASE /\ UNCHANGED enableVars
           /\ isFullyEnabled /\ (StopPending => Dispatching("MOTOR_STOPPED"))
           /\ current' \notin Waiting
  <2>1. UNCHANGED <<motorEnableCount, isFullyEnabled, fullyEnabled>>
    BY <1>5 DEF enableVars, vregVars
  <2> QED BY <1>1, <1>2, <1>5, <2>1 DEF RunInv
<1>6. CASE /\ motorDisable /\ Dispatching("MOTOR_STOPPED")
           /\ UNCHANGED motorRunningState
           /\ current' \notin Waiting
  <2>1. isFullyEnabled /\ motorEnableCount # 0 /\ ~StopPending'
    BY <1>1, <1>2, <1>6 DEF RunInv
  <2>2. CASE motorEnableCount = 1
    <3>1. ~Running
      BY <1>1, <1>2, <1>6, <2>2 DEF RunInv
    <3>2. motorEnableCount' = 0 /\ ~isFullyEnabled'
      BY <1>6, <2>2 DEF motorDisable
    <3> QED BY <1>2, <1>6, <2>1, <3>1, <3>2 DEF RunInv, Running
  <2>3. CASE motorEnableCount # 1
    <3>1. /\ motorEnableCount' = motorEnableCount - 1 /\ motorEnableCount' # 0
          /\ UNCHANGED <<isFullyEnabled, fullyEnabled>>
      BY <1>1, <1>6, <2>1, <2>3 DEF motorDisable, vregVars
    <3> QED BY <1>1, <1>2, <1>6, <2>1, <3>1 DEF RunInv, Running
  <2> QED BY <2>2, <2>3
<1> QED BY <1>3, <1>4, <1>5, <1>6 DEF RunEffect
-----------------------------------------------------------------------------
(***************************************************************************)
(* Every handler of an event has such effects.                             *)
(***************************************************************************)
LEMMA MotorEnableSupplies ==
    /\ motorEnable => UNCHANGED vregVars \/ voltageRegulatorEnable
    /\ motorDisable => UNCHANGED vregVars \/ voltageRegulatorDisable
BY DEF motorEnable, motorDisable

LEMMA EnableVarsAreKept ==
    UNCHANGED enableVars =>
        UNCHANGED <<vregVars, motorEnableCount, isFullyEnabled, fullyEnabled>>
BY DEF enableVars, vregVars

\* A movement is started with the motor enabled, or its enabling is waited for.
LEMMA StartEffect ==
    ASSUME NEW load, NEW count, NEW enabledState, NEW disabledState,
           enabledState \notin Waiting,
           Start(load, count, enabledState, disabledState)
    PROVE  /\ isFullyEnabled' => current' \notin Waiting
           /\ ~isFullyEnabled' => UNCHANGED motorRunningState /\ current' = disabledState
BY DEF Start, driveVars, runVars

LEMMA StartingEffect ==
    ASSUME NEW enabledState, NEW disabledState, enabledState \notin Waiting,
           \/ doorStartOpening(enabledState, disabledState)
           \/ doorStartClosing(enabledState, disabledState)
           \/ doorStartFindingBottom(enabledState, disabledState)
    PROVE  /\ isFullyEnabled' => current' \notin Waiting
           /\ ~isFullyEnabled' => UNCHANGED motorRunningState /\ current' = disabledState
BY StartEffect DEF doorStartOpening, doorStartClosing, doorStartFindingBottom

\* The door's own states, none of which waits for the motor.
LEMMA MovingIsNotWaiting ==
    /\ \A state \in Moving \cup Resting : state \notin Waiting
    /\ {"Opening", "Closing", "FindBottom", "ManualOpening", "ManualClosing"} \subseteq Moving
    /\ {"Unknown", "Fault", "Opened", "Closed"} \subseteq Resting
BY DEF Moving, Resting, Waiting

LEMMA SchedulesRun ==
    doorOnOpenScheduleActioned \/ doorOnCloseScheduleActioned => SupplyEffect /\ RunEffect
<1>1. ASSUME NEW state \in {"Opened", "Closed"}, AlreadyThere(state) \/ OnlyRemember("Open")
                \/ OnlyRemember("Close")
      PROVE  SupplyEffect /\ RunEffect
  BY <1>1, EnableVarsAreKept
  DEF AlreadyThere, OnlyRemember, SupplyEffect, RunEffect, driveVars, runVars
<1>2. ASSUME motorEnable, NEW enabledState \in Moving, NEW disabledState,
             \/ doorStartOpening(enabledState, disabledState)
             \/ doorStartClosing(enabledState, disabledState)
             \/ doorStartFindingBottom(enabledState, disabledState)
      PROVE  SupplyEffect /\ RunEffect
  BY <1>2, StartingEffect, MovingIsNotWaiting, MotorEnableSupplies DEF SupplyEffect, RunEffect
<1> QED BY <1>1, <1>2, MovingIsNotWaiting
        DEF doorOnOpenScheduleActioned, doorOnCloseScheduleActioned, StartFromUnknown

LEMMA CallsRun ==
    ASSUME \/ doorManualStartOpening \/ doorManualStartClosing \/ doorManualStop
           \/ doorCalibrate \/ onDoorClosedForCalibration \/ onDoorAbortedForCalibration
    PROVE  SupplyEffect /\ RunEffect
<1>1. CASE doorManualStop \/ onDoorClosedForCalibration \/ onDoorAbortedForCalibration
  BY <1>1, EnableVarsAreKept
  DEF doorManualStop, motorOff, onDoorClosedForCalibration, onDoorAbortedForCalibration,
      SupplyEffect, RunEffect, driveVars, runVars, doorVars
<1>2. CASE doorManualStartOpening \/ doorManualStartClosing \/ doorCalibrate
  <2>1. motorEnable
    BY <1>2 DEF doorManualStartOpening, doorManualStartClosing, doorCalibrate
  <2>2. \E enabledState \in Moving, disabledState \in Waiting :
            \/ doorStartOpening(enabledState, disabledState)
            \/ doorStartClosing(enabledState, disabledState)
            \/ doorStartFindingBottom(enabledState, disabledState)
    BY <1>2
    DEF doorManualStartOpening, doorManualStartClosing, doorCalibrate, Moving, Waiting
  <2> QED BY <2>1, <2>2, StartingEffect, MovingIsNotWaiting, MotorEnableSupplies
          DEF SupplyEffect, RunEffect
<1> QED BY <1>1, <1>2

\* When the motor turns out enabled no stop is pending: the door was waiting.
LEMMA MotorEnabledRuns ==
    ASSUME SupplyInv, doorOnMotorEnabled
    PROVE  SupplyEffect /\ RunEffect
<1>1. UNCHANGED enableVars /\ UNCHANGED vregVars
  BY EnableVarsAreKept DEF doorOnMotorEnabled
<1>2. CASE current \notin Waiting
  BY <1>1, <1>2, EnableVarsAreKept
  DEF doorOnMotorEnabled, SupplyEffect, RunEffect, driveVars, runVars, Waiting
<1>3. CASE current \in Waiting
  <2>1. ~StopPending
    BY <1>3 DEF SupplyInv, RunInv
  <2>2. \E enabledState \in Moving :
            \/ doorStartOpening(enabledState, "Unknown")
            \/ doorStartClosing(enabledState, "Unknown")
            \/ doorStartFindingBottom(enabledState, "Unknown")
    BY <1>3 DEF doorOnMotorEnabled, Moving
  <2>3. /\ isFullyEnabled' => current' \notin Waiting
        /\ ~isFullyEnabled' => UNCHANGED motorRunningState /\ current' = "Unknown"
    BY <2>2, StartingEffect, MovingIsNotWaiting
  <2>4. UNCHANGED <<motorEnableCount, isFullyEnabled, fullyEnabled>>
    BY <1>1, EnableVarsAreKept
  <2> QED BY <1>1, <2>1, <2>3, <2>4, MovingIsNotWaiting DEF SupplyEffect, RunEffect
<1> QED BY <1>2, <1>3

LEMMA MotorStoppedRuns ==
    ASSUME SupplyInv, doorOnMotorStopped, Dispatching("MOTOR_STOPPED")
    PROVE  SupplyEffect /\ RunEffect
<1>1. StopPending /\ isFullyEnabled /\ current \notin Waiting
  BY DispatchedIsPending DEF SupplyInv, RunInv, StopPending
<1>2. ASSUME motorDisable, UNCHANGED driveVars, current' \in Resting
      PROVE  SupplyEffect /\ RunEffect
  BY <1>2, MotorEnableSupplies, MovingIsNotWaiting DEF SupplyEffect, RunEffect, driveVars, runVars
<1>3. ASSUME UNCHANGED enableVars, current' \in Moving \cup Resting
      PROVE  SupplyEffect /\ RunEffect
  BY <1>1, <1>3, EnableVarsAreKept, MovingIsNotWaiting DEF SupplyEffect, RunEffect
<1>4. \A fault : MotorFaulted(fault) => SupplyEffect /\ RunEffect
  BY <1>2, MovingIsNotWaiting DEF MotorFaulted
<1>5. \A state \in Resting : \A event : ArrivedAt(state, event) => SupplyEffect /\ RunEffect
  BY <1>2 DEF ArrivedAt
<1>6. \A state \in Moving :
          UNCHANGED enableVars
              /\ (doorStartOpening(state, state) \/ doorStartClosing(state, state))
          => SupplyEffect /\ RunEffect
  BY <1>3 DEF Start, doorStartOpening, doorStartClosing
<1>7. OpeningStopped \/ ClosingStopped => SupplyEffect /\ RunEffect
  BY <1>4, <1>5, <1>6, MovingIsNotWaiting DEF OpeningStopped, ClosingStopped
<1>8. current = "FindBottom" /\ FindBottomStopped => SupplyEffect /\ RunEffect
  <2>1. \A count, iterations :
            current = "FindBottom" /\ TriesAgain(count, iterations)
                => SupplyEffect /\ RunEffect
    BY <1>3, MovingIsNotWaiting DEF TriesAgain
  <2>2. FoundBottom => SupplyEffect /\ RunEffect
    BY <1>2, <1>6, MovingIsNotWaiting DEF FoundBottom
  <2> QED BY <1>4, <2>1, <2>2 DEF FindBottomStopped
<1>9. \A fault : ManualStopped(fault) => SupplyEffect /\ RunEffect
  BY <1>2, <1>4, MovingIsNotWaiting DEF ManualStopped
<1>10. CASE /\ current \in {"Fault", "Unknown", "Opened", "Closed"}
            /\ UNCHANGED enableVars
            /\ current' \in Resting
  BY <1>3, <1>10
<1> QED BY <1>1, <1>7, <1>8, <1>9, <1>10, MovingIsNotWaiting
        DEF doorOnMotorStopped, doorVars, Waiting

LEMMA DispatchRuns ==
    ASSUME SupplyInv, Dispatch, ~VregEnabled
    PROVE  SupplyEffect /\ RunEffect
<1>1. CASE VregDisabled \/ TimeChanged \/ Unheard \/ DoorCalibratedEvent
  BY <1>1, EnableVarsAreKept
  DEF VregDisabled, TimeChanged, Unheard, DoorCalibratedEvent, onVoltageRegulatorDisabled,
      SupplyEffect, RunEffect, driveVars, runVars, doorVars
<1>2. CASE MotorEnabled \/ MotorStopped
  BY <1>2, MotorEnabledRuns, MotorStoppedRuns DEF MotorEnabled, MotorStopped
<1>3. CASE OpenScheduleActioned \/ CloseScheduleActioned \/ DoorClosedEvent \/ DoorAbortedEvent
  BY <1>3, SchedulesRun, CallsRun
  DEF OpenScheduleActioned, CloseScheduleActioned, DoorClosedEvent, DoorAbortedEvent
<1>4. CASE ButtonsPressedWhenScreenIsOff
  BY <1>4 DEF ButtonsPressedWhenScreenIsOff, voltageRegulatorEnable, SupplyEffect, RunEffect,
              driveVars, runVars, doorVars
<1>5. ASSUME UNCHANGED <<enableVars, driveVars, doorVars>> PROVE SupplyEffect /\ RunEffect
  BY <1>5, EnableVarsAreKept DEF SupplyEffect, RunEffect, driveVars, runVars, doorVars
<1>6. CASE ButtonsPressedWhenScreenIsOn
  BY <1>5, <1>6, CallsRun DEF ButtonsPressedWhenScreenIsOn, OptionSelected
<1>7. CASE ButtonsReleased
  BY <1>5, <1>7, CallsRun DEF ButtonsReleased, OptionAfterSelected
<1> QED BY <1>1, <1>2, <1>3, <1>4, <1>6, <1>7 DEF Dispatch

LEMMA DispatchKeepsSupplyInv ==
    ASSUME SupplyInv, Dispatch
    PROVE  SupplyInv'
<1>1. IInv'
  BY DispatchKeepsIInv DEF SupplyInv
<1>2. ~waking /\ ~waking' /\ due' = due /\ due = {}
  BY DispatchPublishes DEF SupplyInv, DueInv
<1>3. DueInv'
  BY <1>2 DEF DueInv
<1>4. /\ QueueOK'
      /\ StopPending' => StopPending
      /\ Once("MOTOR_STOPPED")'
      /\ Dispatching("MOTOR_STOPPED") => StopPending
      /\ IsPending("VOLTAGE_REGULATOR_ENABLED")' => IsPending("VOLTAGE_REGULATOR_ENABLED")
  BY NothingIsTold
<1>5. CASE VregEnabled
  <2>1. /\ IsPending("VOLTAGE_REGULATOR_ENABLED")
        /\ UNCHANGED <<vregVars, motorEnableCount, motorRunningState, current>>
        /\ isFullyEnabled' <=> isFullyEnabled \/ motorEnableCount # 0
    BY <1>5, DispatchedIsPending DEF SupplyInv, VregEnabled, onVoltageRegulatorEnabled, doorVars
  <2>2. fullyEnabled /\ ~StopPending
    BY <2>1 DEF SupplyInv, HeardInv
  <2>3. RunInv'
    BY <1>4, <2>1, <2>2 DEF SupplyInv, RunInv, Running, vregVars
  <2>4. WaitsInv' /\ HeardInv'
    BY <1>2, <1>4, <2>1, <2>2 DEF SupplyInv, WaitsInv, HeardInv, vregVars
  <2> QED BY <1>1, <1>3, <1>4, <2>3, <2>4 DEF SupplyInv
<1>6. CASE ~VregEnabled
  <2>1. SupplyEffect /\ RunEffect
    BY <1>6, DispatchRuns
  <2>2. WaitsInv' /\ RunInv'
    BY <2>1, SupplyEffectKeepsWaitsInv, RunEffectKeepsRunInv
  <2>3. ASSUME IsPending("VOLTAGE_REGULATOR_ENABLED")' PROVE fullyEnabled' /\ ~StopPending'
    <3>1. fullyEnabled /\ ~StopPending
      BY <1>4, <2>3 DEF SupplyInv, HeardInv
    <3>2. fullyEnabled' = fullyEnabled
      BY <1>4, <2>1, <3>1 DEF SupplyEffect, voltageRegulatorEnable, vregVars
    <3> QED BY <1>4, <3>1, <3>2
  <2> QED BY <1>1, <1>2, <1>3, <1>4, <2>2, <2>3 DEF SupplyInv, HeardInv
<1> QED BY <1>5, <1>6
-----------------------------------------------------------------------------
(***************************************************************************)
(* The steps of a wake-up, and the winch.                                  *)
(***************************************************************************)
LEMMA CallbackHandles ==
    ASSUME SupplyInv, Callback
    PROVE  waking /\ waking' /\ Handling /\ due' \subseteq due
BY DEF Callback, RegulatedStabilises, McuStabilises, Ramp, Monitor, ScreenTimesOut,
       onButtonsStoppedBouncing, Calling, Handling

LEMMA NonePublished ==
    ASSUME SupplyInv, Handling, waking, Publish(<<>>)
    PROVE  /\ QueueOK'
           /\ \A type : IsPending(type)' <=> IsPending(type)
           /\ \A type : Once(type)' <=> Once(type)
<1>1. queue' = queue
  BY DEF Publish, Rest, SupplyInv, QueueOK
<1> QED BY <1>1 DEF SupplyInv, QueueOK, IsPending, Once

LEMMA RegulatedKeepsSupplyInv ==
    ASSUME SupplyInv, RegulatedStabilises
    PROVE  SupplyInv'
<1>1. IInv' /\ waking /\ waking' /\ Handling /\ "regulated" \in due /\ due' = due \ {"regulated"}
  BY CallbackKeepsIInv, CallbackHandles DEF SupplyInv, Callback, RegulatedStabilises, Calling
<1>2. regulatedWaits = 1 /\ mcuWaits = 0 /\ vregEnableCount # 0 /\ ~fullyEnabled
  BY <1>1 DEF SupplyInv, WaitsInv, DueInv
<1>3. /\ regulatedWaits' = 0 /\ mcuWaits' = 1 /\ LATB0'
      /\ UNCHANGED <<vregEnableCount, fullyEnabled, motorEnableCount, isFullyEnabled,
                     motorRunningState, current>>
  BY <1>2 DEF RegulatedStabilises, onRegulatedVoltageRailStabilised, driveVars, runVars, doorVars
<1>4. /\ QueueOK'
      /\ \A type : IsPending(type)' <=> IsPending(type)
      /\ \A type : Once(type)' <=> Once(type)
  BY <1>1, NonePublished DEF RegulatedStabilises
<1>5. RunInv'
  BY <1>3, <1>4 DEF SupplyInv, RunInv, Running, StopPending
<1>6. WaitsInv'
  BY <1>2, <1>3 DEF WaitsInv
<1>7. DueInv'
  BY <1>1, <1>2, <1>3, <1>4 DEF SupplyInv, DueInv, StopPending
<1>8. HeardInv'
  BY <1>2, <1>4 DEF SupplyInv, HeardInv
<1> QED BY <1>1, <1>4, <1>5, <1>6, <1>7, <1>8 DEF SupplyInv

LEMMA McuKeepsSupplyInv ==
    ASSUME SupplyInv, McuStabilises
    PROVE  SupplyInv'
<1>1. IInv' /\ waking /\ waking' /\ Handling /\ "mcu" \in due /\ due' = due \ {"mcu"}
  BY CallbackKeepsIInv, CallbackHandles DEF SupplyInv, Callback, McuStabilises, Calling
<1>2. regulatedWaits = 0 /\ mcuWaits = 1 /\ vregEnableCount # 0 /\ ~fullyEnabled /\ LATB0
  BY <1>1 DEF SupplyInv, WaitsInv, DueInv
<1>3. /\ regulatedWaits' = 0 /\ mcuWaits' = 0 /\ fullyEnabled'
      /\ UNCHANGED <<vregEnableCount, LATB0, motorEnableCount, isFullyEnabled,
                     motorRunningState, current>>
  <2>1. /\ mcuWaits' = mcuWaits - 1
        /\ UNCHANGED <<vregEnableCount, LATB0, regulatedWaits, motorEnableCount,
                       isFullyEnabled, motorRunningState, current>>
    BY DEF McuStabilises, onMcuVoltageRailStabilised, driveVars, runVars, doorVars
  <2>2. fullyEnabled'
    BY <1>2 DEF McuStabilises, onMcuVoltageRailStabilised
  <2> QED BY <1>2, <2>1, <2>2
<1>4. ~isFullyEnabled /\ ~Running /\ ~StopPending /\ "screen" \notin due
  BY <1>2 DEF SupplyInv, RunInv, DueInv
<1> DEFINE events == <<"VOLTAGE_REGULATOR_ENABLED">>
           types == {"VOLTAGE_REGULATOR_ENABLED"}
<1>5. Publish(events)
  BY <1>2 DEF McuStabilises, onMcuVoltageRailStabilisedEvents
<1>6. events \in Seq(types) /\ types \in SUBSET (Plain \cup Telling)
      /\ "MOTOR_STOPPED" \notin types
  BY DEF Telling
<1> HIDE DEF events, types
<1>7. Publishes(types)
  BY <1>5, <1>6 DEF Publishes
<1>8. QueueOK' /\ (StopPending' => StopPending) /\ Once("MOTOR_STOPPED")'
  <2>1. /\ QueueOK'
        /\ \A type :
              type \notin types =>
                  /\ IsPending(type)' => IsPending(type)
                  /\ Once(type) => Once(type)'
                  /\ Once(type) /\ Dispatching(type) => ~IsPending(type)'
    BY <1>1, <1>6, <1>7, PublishedPending DEF SupplyInv
  <2> QED BY <1>6, <2>1 DEF SupplyInv, RunInv, StopPending
<1>9. RunInv'
  BY <1>3, <1>4, <1>8 DEF RunInv, Running
<1>10. WaitsInv'
  BY <1>2, <1>3 DEF WaitsInv
<1>11. DueInv'
  BY <1>1, <1>2, <1>3, <1>4, <1>8 DEF SupplyInv, DueInv
<1>12. HeardInv'
  BY <1>1, <1>3, <1>4, <1>8 DEF HeardInv, Running
<1> QED BY <1>1, <1>8, <1>9, <1>10, <1>11, <1>12 DEF SupplyInv

LEMMA MonitorKeepsSupplyInv ==
    ASSUME SupplyInv, Monitor
    PROVE  SupplyInv'
<1>1. IInv' /\ waking /\ waking' /\ Handling /\ "monitor" \in due /\ due' = due \ {"monitor"}
  BY CallbackKeepsIInv, CallbackHandles DEF SupplyInv, Callback, Monitor, Calling
<1>2. ~StopPending
  BY <1>1 DEF SupplyInv, DueInv
<1>3. /\ UNCHANGED enableVars
      /\ UNCHANGED <<vregVars, motorEnableCount, isFullyEnabled, fullyEnabled, current>>
  BY EnableVarsAreKept DEF Monitor, motorRunningStateMonitor, doorVars
<1>4. WaitsInv'
  BY <1>3 DEF SupplyInv, WaitsInv, vregVars
<1>5. CASE ~HasStopped
  <2>1. Publish(<<>>)
    BY <1>5 DEF Monitor, motorRunningStateMonitorEvents
  <2>2. /\ QueueOK'
        /\ \A type : IsPending(type)' <=> IsPending(type)
        /\ \A type : Once(type)' <=> Once(type)
    BY <1>1, <2>1, NonePublished
  <2>3. Running' <=> Running
    BY <1>5 DEF Monitor, motorRunningStateMonitor, Running
  <2>4. RunInv' /\ HeardInv'
    BY <1>1, <1>3, <2>2, <2>3 DEF SupplyInv, RunInv, HeardInv, StopPending
  <2>5. DueInv'
    BY <1>1, <1>3, <2>2 DEF SupplyInv, DueInv, StopPending, vregVars
  <2> QED BY <1>1, <1>4, <2>2, <2>4, <2>5 DEF SupplyInv
<1>6. CASE HasStopped
  <2>1. Publish(<<"MOTOR_STOPPED">>) /\ Running /\ ~Running'
    BY <1>6 DEF Monitor, motorRunningStateMonitorEvents, motorRunningStateMonitor, HasStopped,
                IsStatic, Running
  <2>2. Once("MOTOR_STOPPED")'
    BY <1>1, <1>2, <2>1, PublishedOne DEF SupplyInv, StopPending, Telling
  <2> DEFINE events == <<"MOTOR_STOPPED">>
             types == {"MOTOR_STOPPED"}
  <2>3. Publish(events) /\ events \in Seq(types) /\ types \in SUBSET (Plain \cup Telling)
        /\ "VOLTAGE_REGULATOR_ENABLED" \notin types
    BY <2>1 DEF Telling
  <2> HIDE DEF events, types
  <2>4. Publishes(types)
    BY <2>3 DEF Publishes
  <2>5. /\ QueueOK'
        /\ IsPending("VOLTAGE_REGULATOR_ENABLED")' => IsPending("VOLTAGE_REGULATOR_ENABLED")
    BY <1>1, <2>3, <2>4, PublishedPending DEF SupplyInv
  <2>6. isFullyEnabled /\ current \notin Waiting /\ ~IsPending("VOLTAGE_REGULATOR_ENABLED")
    BY <1>1, <2>1 DEF SupplyInv, RunInv, HeardInv
  <2>7. RunInv' /\ HeardInv'
    BY <1>3, <2>1, <2>2, <2>5, <2>6 DEF SupplyInv, RunInv, HeardInv
  <2>8. DueInv'
    BY <1>1, <1>3 DEF SupplyInv, DueInv, vregVars
  <2> QED BY <1>1, <1>4, <2>5, <2>7, <2>8 DEF SupplyInv
<1> QED BY <1>5, <1>6

\* The screen goes off only when no wait is pending, and does not take the supply
\* from a motor that is enabled.
LEMMA ScreenKeepsSupplyInv ==
    ASSUME SupplyInv, ScreenTimesOut
    PROVE  SupplyInv'
<1>1. IInv' /\ waking /\ waking' /\ Handling /\ "screen" \in due /\ due' = due \ {"screen"}
  BY CallbackKeepsIInv, CallbackHandles DEF SupplyInv, Callback, ScreenTimesOut, Calling
<1>2. /\ regulatedWaits = 0 /\ mcuWaits = 0 /\ isScreenOn = TRUE
      /\ ~IsPending("VOLTAGE_REGULATOR_ENABLED")
  BY <1>1 DEF SupplyInv, DueInv, HeardInv, IInv, ScreenInv, CountsInRange
<1>3. /\ voltageRegulatorDisable
      /\ UNCHANGED <<motorEnableCount, isFullyEnabled, motorRunningState, current>>
  BY DEF ScreenTimesOut, driveVars, runVars, doorVars
<1>4. QueueOK' /\ \A type \in Telling : /\ IsPending(type)' => IsPending(type)
                                        /\ Once(type) => Once(type)'
  <2> DEFINE events == <<"LCD_DISABLED">> \o voltageRegulatorDisableEvents
  <2>1. "LCD_DISABLED" \in Plain /\ \A type \in Telling : type \notin Plain
    BY DEF Plain, Telling
  <2>2. Publishes(Plain)
    BY <2>1, PublishingPlain, EventsArePlain DEF ScreenTimesOut
  <2>3. Plain \in SUBSET (Plain \cup Telling)
    OBVIOUS
  <2> QED BY <1>1, <2>1, <2>2, <2>3, PublishedPending DEF SupplyInv
<1>5. QueueOK' /\ (StopPending' => StopPending) /\ Once("MOTOR_STOPPED")'
      /\ ~IsPending("VOLTAGE_REGULATOR_ENABLED")'
  BY <1>2, <1>4 DEF SupplyInv, RunInv, StopPending, Telling
<1>6. vregEnableCount \in Nat /\ motorEnableCount \in Nat /\ vregEnableCount = Clients
  BY CountsAreNaturals DEF SupplyInv, IInv, CountsInRange
<1>7. CASE motorEnableCount # 0
  <2>1. vregEnableCount = 2
    BY <1>2, <1>6, <1>7 DEF Clients
  <2>2. /\ vregEnableCount' = 1
        /\ UNCHANGED <<fullyEnabled, LATB0, regulatedWaits, mcuWaits>>
    BY <1>3, <2>1 DEF voltageRegulatorDisable, LastClient
  <2>3. WaitsInv'
    BY <1>2, <2>1, <2>2 DEF SupplyInv, WaitsInv
  <2>4. RunInv'
    BY <1>3, <1>5, <2>2 DEF SupplyInv, RunInv, Running
  <2> QED BY <1>1, <1>2, <1>5, <2>2, <2>3, <2>4 DEF SupplyInv, DueInv, HeardInv
<1>8. CASE motorEnableCount = 0
  <2>1. vregEnableCount = 1 /\ ~isFullyEnabled
    BY <1>2, <1>6, <1>8 DEF Clients, SupplyInv, RunInv
  <2>2. /\ vregEnableCount' = 0 /\ ~fullyEnabled' /\ ~LATB0'
        /\ UNCHANGED <<regulatedWaits, mcuWaits>>
    BY <1>3, <2>1 DEF voltageRegulatorDisable, LastClient
  <2>3. WaitsInv'
    BY <1>2, <2>2 DEF WaitsInv
  <2>4. RunInv'
    BY <1>3, <1>5, <2>1 DEF SupplyInv, RunInv, Running
  <2> QED BY <1>1, <1>2, <1>5, <2>2, <2>3, <2>4 DEF SupplyInv, DueInv, HeardInv
<1> QED BY <1>6, <1>7, <1>8

LEMMA OtherCallbackKeepsSupplyInv ==
    ASSUME SupplyInv, Ramp \/ onButtonsStoppedBouncing
    PROVE  SupplyInv'
<1>1. IInv' /\ waking /\ waking' /\ Handling /\ due' \subseteq due
  BY CallbackKeepsIInv, CallbackHandles DEF SupplyInv, Callback
<1>2. /\ UNCHANGED enableVars
      /\ UNCHANGED <<vregVars, motorEnableCount, isFullyEnabled, fullyEnabled,
                     motorRunningState, current>>
  BY EnableVarsAreKept
  DEF Ramp, onButtonsStoppedBouncing, incrementPwmDutyCycle, driveVars, runVars, doorVars
<1>3. Publishes(Plain)
  <2>1. "BUTTONS_PRESSED" \in Plain /\ "BUTTONS_RELEASED" \in Plain
    BY DEF Plain
  <2> QED BY <2>1, PublishingPlain, EventsArePlain DEF Ramp, onButtonsStoppedBouncing
<1>4. QueueOK' /\ \A type \in Telling : /\ IsPending(type)' => IsPending(type)
                                        /\ Once(type) => Once(type)'
  <2>1. \A type \in Telling : type \notin Plain
    BY DEF Plain, Telling
  <2>2. Plain \in SUBSET (Plain \cup Telling)
    OBVIOUS
  <2> QED BY <1>1, <1>3, <2>1, <2>2, PublishedPending DEF SupplyInv
<1>5. QueueOK' /\ (StopPending' => StopPending) /\ Once("MOTOR_STOPPED")'
      /\ (IsPending("VOLTAGE_REGULATOR_ENABLED")' => IsPending("VOLTAGE_REGULATOR_ENABLED"))
  BY <1>4 DEF SupplyInv, RunInv, StopPending, Telling
<1>6. RunInv'
  BY <1>2, <1>5 DEF SupplyInv, RunInv, Running
<1>7. WaitsInv'
  BY <1>2 DEF SupplyInv, WaitsInv, vregVars
<1>8. DueInv'
  BY <1>1, <1>2, <1>5 DEF SupplyInv, DueInv, vregVars
<1>9. HeardInv'
  BY <1>1, <1>2, <1>5 DEF SupplyInv, HeardInv, Running
<1> QED BY <1>1, <1>5, <1>6, <1>7, <1>8, <1>9 DEF SupplyInv

LEMMA WakeUpKeepsSupplyInv ==
    ASSUME SupplyInv, WakeUp
    PROVE  SupplyInv'
<1>1. IInv' /\ waking' /\ queue' \in {<<>>, <<"TIME_CHANGED">>} /\ due' \in SUBSET Pending
  BY WakeUpKeepsIInv DEF SupplyInv, WakeUp, Wake
<1>2. UNCHANGED <<vregVars, motorEnableCount, isFullyEnabled, fullyEnabled,
                  motorRunningState, current>>
  BY EnableVarsAreKept DEF WakeUp, driveVars, runVars, doorVars
<1>3. QueueOK' /\ \A type \in Telling : ~IsPending(type)' /\ Once(type)'
  <2>1. CASE queue' = <<>>
    BY <2>1 DEF QueueOK, IsPending, Once
  <2>2. CASE queue' = <<"TIME_CHANGED">>
    <3>1. Len(queue') = 1 /\ queue'[1] = "TIME_CHANGED"
      BY <2>2
    <3>2. "TIME_CHANGED" \in Plain /\ "TIME_CHANGED" \notin Telling
      BY DEF Plain, Telling
    <3>3. QueueOK'
      BY <2>2, <3>2 DEF QueueOK
    <3> QED BY <3>1, <3>2, <3>3 DEF IsPending, Once
  <2> QED BY <1>1, <2>1, <2>2
<1>4. ~StopPending' /\ ~IsPending("VOLTAGE_REGULATOR_ENABLED")' /\ Once("MOTOR_STOPPED")'
  BY <1>3 DEF Telling, StopPending
<1>5. RunInv'
  BY <1>2, <1>4 DEF SupplyInv, RunInv, Running
<1>6. WaitsInv'
  BY <1>2 DEF SupplyInv, WaitsInv, vregVars
<1>7. /\ "mcu" \in due' => mcuWaits # 0
      /\ "regulated" \in due' => regulatedWaits # 0
      /\ "screen" \in due' => regulatedWaits = 0 /\ mcuWaits = 0
  BY <1>1 DEF Pending, VregPending, MotorPending, ScreenMayTimeOut
<1>8. DueInv'
  BY <1>1, <1>2, <1>4, <1>7 DEF DueInv, vregVars
<1>9. HeardInv'
  BY <1>4 DEF HeardInv
<1> QED BY <1>1, <1>3, <1>5, <1>6, <1>8, <1>9 DEF SupplyInv

\* Nor do the end of a wake-up, the winch or a step that changes nothing.
LEMMA RestKeepsSupplyInv ==
    ASSUME SupplyInv, WokenEnds \/ Winch \/ UNCHANGED vars
    PROVE  SupplyInv'
<1>1. IInv'
  BY StepKeepsIInv DEF SupplyInv, Next
<1>2. /\ UNCHANGED <<queue, due, vregVars, motorEnableCount, isFullyEnabled, fullyEnabled,
                     motorRunningState, current>>
      /\ waking' = waking \/ (waking' = FALSE /\ due = {})
  BY EnableVarsAreKept
  DEF WokenEnds, Winch, onWokenFromSleep, motorOff, EncoderPulse, CurrentTrip,
      EncoderOverflow, vars, loopVars, driveVars, runVars, doorVars
<1>3. /\ QueueOK' /\ (Once("MOTOR_STOPPED")' <=> Once("MOTOR_STOPPED"))
      /\ \A type : IsPending(type)' <=> IsPending(type)
  BY <1>2 DEF SupplyInv, QueueOK, Once, IsPending
<1> QED BY <1>1, <1>2, <1>3
        DEF SupplyInv, RunInv, WaitsInv, DueInv, HeardInv, Running, StopPending, vregVars

LEMMA InitSupplyInv == Init => SupplyInv
<1> SUFFICES ASSUME Init PROVE SupplyInv
  OBVIOUS
<1>1. IInv
  BY InitIsCounted
<1>2. QueueOK /\ \A type : ~IsPending(type) /\ Once(type)
  BY DEF Init, QueueOK, IsPending, Once
<1>3. RunInv
  BY <1>2 DEF Init, motorInitialise, doorInitialise, RunInv, Running, StopPending, Waiting
<1>4. WaitsInv
  BY DEF Init, motorInitialise, voltageRegulatorInitialise, WaitsInv
<1>5. DueInv /\ HeardInv
  BY <1>2 DEF Init, DueInv, HeardInv
<1> QED BY <1>1, <1>2, <1>3, <1>4, <1>5 DEF SupplyInv

LEMMA NextKeepsSupplyInv == SupplyInv /\ [Next]_vars => SupplyInv'
BY WakeUpKeepsSupplyInv, RegulatedKeepsSupplyInv, McuKeepsSupplyInv, MonitorKeepsSupplyInv,
   ScreenKeepsSupplyInv, OtherCallbackKeepsSupplyInv, DispatchKeepsSupplyInv,
   RestKeepsSupplyInv
DEF Next, Callback

LEMMA SupplyInvAlways == Spec => []SupplyInv
<1> QED BY InitSupplyInv, NextKeepsSupplyInv, PTL DEF Spec

\* Whichever wait fires, and whoever enables or disables the supply meanwhile, the
\* motor never counts as enabled before the supply, nor the supply before the rail
\* it feeds, nor that rail before the regulator.
THEOREM SupplyComesUpInOrder == Spec => []SupplyInOrder
<1>1. SupplyInv => SupplyInOrder
  BY DEF SupplyInv, IInv, OutputsMatch, RunInv, WaitsInv, SupplyInOrder
<1> QED BY <1>1, SupplyInvAlways, PTL
-----------------------------------------------------------------------------
(***************************************************************************)
(* The watch on a run.                                                     *)
(*                                                                         *)
(* The monitor ends its watch at the second sample in a row without a      *)
(* pulse.  While the motor is driven, with an encoder that works, a sample *)
(* without one is found only after a shutdown, whose flag has the wake-up  *)
(* in progress end with motorOff(), before there is another sample.        *)
(***************************************************************************)
On == steering # "off"
Started == On /\ motorRunningState = "STARTED"
Flagged == CWG1IF \/ TMR1IF \/ C1IF

RunsAreScheduled ==
    /\ TMR1 \in Nat /\ previousEncoderValue \in Nat /\ encoderStaticCount \in Nat
    /\ On => modulesOn /\ Running
    /\ On /\ SHUTDOWN => CWG1IF
    /\ Running => monitorScheduled

SamplesAreFlagged ==
    /\ Started => TMR1 >= previousEncoderValue \/ TMR1IF
    /\ Started /\ encoderStaticCount # 0 => waking /\ "monitor" \notin due /\ Flagged
    /\ Started /\ "monitor" \in due => TMR1 # previousEncoderValue \/ Flagged

WatchInv == RunsAreScheduled /\ SamplesAreFlagged

\* What a handler of an event does to the run.
DriveEffect ==
    \/ UNCHANGED <<modulesOn, runVars>>
    \/ /\ steering' = "off"
       /\ TMR1' \in {TMR1, 0}
       /\ UNCHANGED stopped \/ motorOff
       /\ UNCHANGED <<motorRunningState, startedCount, monitorVars, monitorScheduled>>
    \/ (\E count \in Int : motorOn(count)) /\ UNCHANGED modulesOn

LEMMA DriveVarsAreKept == UNCHANGED driveVars => UNCHANGED <<modulesOn, runVars>>
BY DEF driveVars

LEMMA StartDrives ==
    ASSUME NEW enabledState, NEW disabledState,
           \/ doorStartOpening(enabledState, disabledState)
           \/ doorStartClosing(enabledState, disabledState)
           \/ doorStartFindingBottom(enabledState, disabledState)
    PROVE  DriveEffect
<1>1. \A load, count :
          count \in Int /\ Start(load, count, enabledState, disabledState) => DriveEffect
  BY DriveVarsAreKept DEF Start, DriveEffect
<1>2. /\ Height \in Int /\ -Height \in Int /\ FindBottomLowering \in Int
      /\ ManualMovementLimit \in Int /\ -ManualMovementLimit \in Int
  BY DoorAssumption
<1> QED BY <1>1, <1>2 DEF doorStartOpening, doorStartClosing, doorStartFindingBottom

LEMMA OffDrives == motorOff => DriveEffect
BY DEF motorOff, DriveEffect

LEMMA SchedulesDrive ==
    doorOnOpenScheduleActioned \/ doorOnCloseScheduleActioned \/ doorOnMotorEnabled
        => DriveEffect
<1>1. UNCHANGED driveVars => DriveEffect
  BY DriveVarsAreKept DEF DriveEffect
<1>2. doorOnOpenScheduleActioned => DriveEffect
  BY <1>1, StartDrives DEF doorOnOpenScheduleActioned, AlreadyThere, StartFromUnknown, OnlyRemember
<1>3. doorOnCloseScheduleActioned => DriveEffect
  BY <1>1, StartDrives DEF doorOnCloseScheduleActioned, AlreadyThere, StartFromUnknown, OnlyRemember
<1>4. doorOnMotorEnabled => DriveEffect
  BY <1>1, StartDrives DEF doorOnMotorEnabled, driveVars
<1> QED BY <1>2, <1>3, <1>4

LEMMA CallsDrive ==
    doorManualStartOpening \/ doorManualStartClosing \/ doorManualStop \/ doorCalibrate
        \/ onDoorClosedForCalibration \/ onDoorAbortedForCalibration => DriveEffect
<1>1. UNCHANGED driveVars => DriveEffect
  BY DriveVarsAreKept DEF DriveEffect
<1>2. doorManualStartOpening \/ doorManualStartClosing \/ doorCalibrate => DriveEffect
  BY StartDrives DEF doorManualStartOpening, doorManualStartClosing, doorCalibrate
<1> QED BY <1>1, <1>2, OffDrives
        DEF doorManualStop, onDoorClosedForCalibration, onDoorAbortedForCalibration

LEMMA MotorStoppedDrives == doorOnMotorStopped => DriveEffect
<1>1. UNCHANGED driveVars => DriveEffect
  BY DriveVarsAreKept DEF DriveEffect
<1>2. \A fault : MotorFaulted(fault) => DriveEffect
  BY <1>1 DEF MotorFaulted
<1>3. \A state, event : ArrivedAt(state, event) => DriveEffect
  BY <1>1 DEF ArrivedAt
<1>4. OpeningStopped \/ ClosingStopped => DriveEffect
  BY <1>2, <1>3, StartDrives DEF OpeningStopped, ClosingStopped
<1>5. \A count \in Int : \A iterations : TriesAgain(count, iterations) => DriveEffect
  BY DEF TriesAgain, DriveEffect
<1>6. FoundBottom => DriveEffect
  BY <1>1, StartDrives DEF FoundBottom
<1>7. FindBottomStopped => DriveEffect
  <2>1. FindBottomRaising \in Int /\ FindBottomLowering \in Int
    BY DoorAssumption
  <2> QED BY <1>2, <1>5, <1>6, <2>1 DEF FindBottomStopped
<1>8. \A fault : ManualStopped(fault) => DriveEffect
  BY <1>1, <1>2 DEF ManualStopped
<1> QED BY <1>1, <1>4, <1>7, <1>8 DEF doorOnMotorStopped

LEMMA DispatchDrives == Dispatch => DriveEffect
<1>1. UNCHANGED driveVars => DriveEffect
  BY DriveVarsAreKept DEF DriveEffect
<1>2. VregEnabled \/ VregDisabled => DriveEffect
  BY DEF VregEnabled, VregDisabled, onVoltageRegulatorEnabled, onVoltageRegulatorDisabled,
         DriveEffect
<1>3. MotorEnabled \/ MotorStopped \/ OpenScheduleActioned \/ CloseScheduleActioned
        \/ DoorClosedEvent \/ DoorAbortedEvent => DriveEffect
  BY SchedulesDrive, MotorStoppedDrives, CallsDrive
  DEF MotorEnabled, MotorStopped, OpenScheduleActioned, CloseScheduleActioned,
      DoorClosedEvent, DoorAbortedEvent
<1>4. TimeChanged \/ Unheard \/ DoorCalibratedEvent \/ ButtonsPressedWhenScreenIsOff
        => DriveEffect
  BY <1>1 DEF TimeChanged, Unheard, DoorCalibratedEvent, ButtonsPressedWhenScreenIsOff
<1>5. ButtonsPressedWhenScreenIsOn => DriveEffect
  BY <1>1, CallsDrive DEF ButtonsPressedWhenScreenIsOn, OptionSelected
<1>6. ButtonsReleased => DriveEffect
  BY <1>1, CallsDrive DEF ButtonsReleased, OptionAfterSelected
<1> QED BY <1>2, <1>3, <1>4, <1>5, <1>6 DEF Dispatch

LEMMA DispatchKeepsWatchInv ==
    ASSUME SupplyInv, WatchInv, Dispatch
    PROVE  WatchInv'
<1>1. ~waking /\ ~waking' /\ due' = due /\ due = {}
  BY DispatchPublishes DEF SupplyInv, DueInv
<1>2. ~(Started /\ encoderStaticCount # 0)
  BY <1>1 DEF WatchInv, SamplesAreFlagged
<1>3. CASE UNCHANGED <<modulesOn, runVars>>
  BY <1>1, <1>2, <1>3
  DEF WatchInv, RunsAreScheduled, SamplesAreFlagged, On, Running, Started, Flagged, runVars,
      flagVars, monitorVars
<1>4. CASE /\ steering' = "off"
           /\ TMR1' \in {TMR1, 0}
           /\ UNCHANGED stopped \/ motorOff
           /\ UNCHANGED <<motorRunningState, startedCount, monitorVars, monitorScheduled>>
  BY <1>4 DEF WatchInv, RunsAreScheduled, SamplesAreFlagged, On, Running, Started, monitorVars
<1>5. ASSUME NEW count, motorOn(count), Startable(count), UNCHANGED modulesOn
      PROVE  WatchInv'
  <2>1. /\ motorRunningState' = "STARTING" /\ monitorScheduled' = TRUE
        /\ SHUTDOWN' = FALSE /\ TMR1' = 0
        /\ steering' # "off" => modulesOn
        /\ UNCHANGED monitorVars
    BY <1>5 DEF motorOn
  <2> QED BY <1>5, <2>1
          DEF WatchInv, RunsAreScheduled, SamplesAreFlagged, On, Running, Started, monitorVars
<1>6. \A count : motorOn(count) /\ ~Startable(count) => UNCHANGED runVars
  BY DEF motorOn
<1> QED BY <1>3, <1>4, <1>5, <1>6, DispatchDrives DEF DriveEffect

\* The monitor finds a second sample without a pulse only of a motor that is off.
LEMMA MonitorKeepsWatchInv ==
    ASSUME SupplyInv, WatchInv, Monitor
    PROVE  WatchInv'
<1>1. waking /\ "monitor" \in due /\ "monitor" \notin due' /\ waking'
  BY DEF Monitor, Calling
<1>2. /\ encoderStaticCount' = IF IsStatic THEN encoderStaticCount + 1 ELSE 0
      /\ UNCHANGED <<modulesOn, steering, TMR1, flagVars>>
  BY DEF Monitor, motorRunningStateMonitor
<1>3. encoderStaticCount' \in Nat
  BY <1>2 DEF WatchInv, RunsAreScheduled
<1>4. CASE HasStopped
  <2>1. motorRunningState = "STARTED" /\ encoderStaticCount # 0
    BY <1>4, MotorAssumption DEF HasStopped, IsStatic, WatchInv, RunsAreScheduled
  <2>2. ~On
    BY <1>1, <2>1 DEF WatchInv, SamplesAreFlagged, Started
  <2>3. motorRunningState' = "STOPPED" /\ UNCHANGED previousEncoderValue
    BY <1>4 DEF Monitor, motorRunningStateMonitor
  <2> QED BY <1>2, <1>3, <2>2, <2>3
          DEF WatchInv, RunsAreScheduled, SamplesAreFlagged, On, Running, Started
<1>5. CASE ~HasStopped
  <2>1. /\ motorRunningState' =
             IF motorRunningState = "STARTING" THEN "STARTED" ELSE motorRunningState
        /\ previousEncoderValue' = TMR1 /\ monitorScheduled' = TRUE
        /\ UNCHANGED SHUTDOWN
    BY <1>5 DEF Monitor, motorRunningStateMonitor
  <2>2. RunsAreScheduled'
    BY <1>2, <1>3, <2>1 DEF WatchInv, RunsAreScheduled, On, Running, flagVars
  <2>3. Started' /\ encoderStaticCount' # 0 => Flagged'
    BY <1>1, <1>2 DEF IsStatic, WatchInv, SamplesAreFlagged, Started, On, Flagged, flagVars
  <2>4. SamplesAreFlagged'
    BY <1>1, <1>2, <2>1, <2>2, <2>3 DEF SamplesAreFlagged, RunsAreScheduled
  <2> QED BY <2>2, <2>4 DEF WatchInv
<1> QED BY <1>4, <1>5

LEMMA CallbackKeepsWatchInv ==
    ASSUME SupplyInv, WatchInv, Callback
    PROVE  WatchInv'
<1>1. waking /\ waking' /\ due' \subseteq due
  BY CallbackHandles
<1>2. CASE Monitor
  BY <1>2, MonitorKeepsWatchInv
<1>3. CASE ~Monitor
  <2>1. UNCHANGED <<modulesOn, steering, SHUTDOWN, TMR1, flagVars, motorRunningState,
                    monitorVars, monitorScheduled>>
    BY <1>3 DEF Callback, RegulatedStabilises, McuStabilises, Ramp, ScreenTimesOut,
                onButtonsStoppedBouncing, incrementPwmDutyCycle, driveVars, runVars
  <2> QED BY <1>1, <2>1
          DEF WatchInv, RunsAreScheduled, SamplesAreFlagged, On, Running, Started, Flagged,
              flagVars, monitorVars
<1> QED BY <1>2, <1>3

\* In the 128 ms between two samples a driven winch gives pulses, if they count.
LEMMA WakeUpKeepsWatchInv ==
    ASSUME EncoderMayFail = FALSE, SupplyInv, WatchInv, WakeUp
    PROVE  WatchInv'
<1>1. /\ waking' = TRUE /\ ~waking /\ due' \in SUBSET Pending
      /\ UNCHANGED <<modulesOn, steering, SHUTDOWN, TMR1, flagVars, motorRunningState,
                     monitorVars, monitorScheduled>>
  BY DEF WakeUp, Wake, driveVars, runVars
<1>2. RunsAreScheduled'
  BY <1>1 DEF WatchInv, RunsAreScheduled, On, Running, flagVars, monitorVars
<1>3. ~(Started /\ encoderStaticCount # 0)
  BY <1>1 DEF WatchInv, SamplesAreFlagged
<1>4. "monitor" \in due' => MonitorMayRun
  BY <1>1 DEF Pending, VregPending
<1>5. Started /\ "monitor" \in due' => TMR1 # previousEncoderValue \/ Flagged
  BY <1>4 DEF MonitorMayRun, Driven, WatchInv, RunsAreScheduled, Started, On, Flagged
<1>6. SamplesAreFlagged'
  BY <1>1, <1>3, <1>5 DEF WatchInv, SamplesAreFlagged, Started, On, Flagged, flagVars, monitorVars
<1> QED BY <1>2, <1>6 DEF WatchInv

LEMMA WokenEndsKeepsWatchInv ==
    ASSUME SupplyInv, WatchInv, WokenEnds
    PROVE  WatchInv'
<1>1. CASE Flagged
  <2>1. /\ steering' = "off"
        /\ UNCHANGED <<TMR1, motorRunningState, monitorVars, monitorScheduled>>
    BY <1>1 DEF WokenEnds, onWokenFromSleep, motorOff, Flagged
  <2> QED BY <2>1
          DEF WatchInv, RunsAreScheduled, SamplesAreFlagged, On, Running, Started, monitorVars
<1>2. CASE ~Flagged
  <2>1. UNCHANGED <<modulesOn, runVars>> /\ due' = {} /\ due = {}
    BY <1>2 DEF WokenEnds, onWokenFromSleep, Flagged
  <2> QED BY <1>2, <2>1
          DEF WatchInv, RunsAreScheduled, SamplesAreFlagged, On, Running, Started, Flagged,
              runVars, flagVars, monitorVars
<1> QED BY <1>1, <1>2

LEMMA WinchKeepsWatchInv ==
    ASSUME SupplyInv, WatchInv, Winch
    PROVE  WatchInv'
<1>1. UNCHANGED <<waking, due, modulesOn, steering, motorRunningState, monitorVars,
                  monitorScheduled>>
  BY DEF Winch, EncoderPulse, CurrentTrip, EncoderOverflow, loopVars
<1>2. CASE EncoderPulse(MaxEncoder)
  <2>1. TMR1' = TMR1 + 1 /\ UNCHANGED <<TMR1IF, C1IF>>
    BY <1>2 DEF EncoderPulse
  <2>2. (SHUTDOWN' /\ ~SHUTDOWN => CWG1IF') /\ (CWG1IF => CWG1IF')
    BY <1>2 DEF EncoderPulse
  <2>3. SHUTDOWN' /\ On => CWG1IF'
    BY <2>2 DEF WatchInv, RunsAreScheduled
  <2>4. RunsAreScheduled'
    BY <1>1, <2>1, <2>3 DEF WatchInv, RunsAreScheduled, On, Running, monitorVars
  <2>5. Flagged => Flagged'
    BY <2>1, <2>2 DEF Flagged
  <2>6. Started => TMR1' > previousEncoderValue \/ TMR1IF
    BY <2>1 DEF WatchInv, RunsAreScheduled, SamplesAreFlagged
  <2>7. SamplesAreFlagged'
    BY <1>1, <2>1, <2>4, <2>5, <2>6
    DEF WatchInv, RunsAreScheduled, SamplesAreFlagged, Started, On, Flagged, monitorVars
  <2> QED BY <2>4, <2>7 DEF WatchInv
<1>3. CASE CurrentTrip
  <2>1. CWG1IF' = TRUE /\ UNCHANGED <<TMR1, TMR1IF>>
    BY <1>3 DEF CurrentTrip
  <2> QED BY <1>1, <2>1
          DEF WatchInv, RunsAreScheduled, SamplesAreFlagged, On, Running, Started, Flagged,
              monitorVars
<1>4. CASE EncoderOverflow
  <2>1. TMR1IF' = TRUE /\ TMR1' = 0 /\ UNCHANGED <<SHUTDOWN, CWG1IF>>
    BY <1>4 DEF EncoderOverflow
  <2> QED BY <1>1, <2>1
          DEF WatchInv, RunsAreScheduled, SamplesAreFlagged, On, Running, Started, Flagged,
              monitorVars
<1> QED BY <1>2, <1>3, <1>4 DEF Winch

LEMMA NextKeepsWatchInv ==
    ASSUME EncoderMayFail = FALSE, SupplyInv, WatchInv, [Next]_vars
    PROVE  WatchInv'
<1>1. CASE UNCHANGED vars
  BY <1>1
  DEF WatchInv, RunsAreScheduled, SamplesAreFlagged, On, Running, Started, Flagged,
      vars, loopVars, driveVars, runVars, flagVars, monitorVars
<1> QED BY <1>1, WakeUpKeepsWatchInv, WokenEndsKeepsWatchInv, CallbackKeepsWatchInv,
           DispatchKeepsWatchInv, WinchKeepsWatchInv DEF Next

\* With an encoder that works, a motor that is driven is watched until it has come
\* to rest, however schedules, presses, releases and the supply interleave.
THEOREM RunsAreWatched ==
    ASSUME EncoderMayFail = FALSE
    PROVE  Spec => []EveryRunIsWatched
<1>1. Init => SupplyInv /\ WatchInv
  <2> SUFFICES ASSUME Init PROVE WatchInv
    BY InitSupplyInv
  <2> QED BY DEF Init, motorInitialise, WatchInv, RunsAreScheduled, SamplesAreFlagged, On,
                 Running, Started
<1>2. (SupplyInv /\ WatchInv) /\ [Next]_vars => (SupplyInv /\ WatchInv)'
  BY NextKeepsSupplyInv, NextKeepsWatchInv
<1>3. SupplyInv /\ WatchInv => EveryRunIsWatched
  BY DEF WatchInv, RunsAreScheduled, On, Running, EveryRunIsWatched
<1> QED BY <1>1, <1>2, <1>3, PTL DEF Spec
-----------------------------------------------------------------------------
(***************************************************************************)
(* Calibrations.                                                           *)
(*                                                                         *)
(* A calibration ends at DOOR_CLOSED or at DOOR_ABORTED.  An abort always  *)
(* comes with a diagnosis, for want of which the hang that is owned up to  *)
(* could not be told from one that is not.                                 *)
(***************************************************************************)
Faults == {"currentLimited", "encoderOverflow", "encoderTimeout"}

RunTypes ==
    /\ TMR1 \in Nat /\ startedCount \in Int
    /\ stopped \in [actualCount : Int, requestedCount : Int, fault : SUBSET Faults]

CalibrationInv ==
    /\ RunTypes
    /\ IsPending("DOOR_ABORTED") => aborted # "none"
    /\ isInputIgnored => option # "CALIBRATE"
    /\ Once("DOOR_CALIBRATED")
    /\ IsPending("DOOR_CALIBRATED") => isInputIgnored /\ ~calibrating
    /\ calibrating => isInputIgnored
    /\ isInputIgnored /\ aborted = "none" => calibrating \/ IsPending("DOOR_CALIBRATED")

LEMMA OffKeepsRunTypes ==
    ASSUME RunTypes, motorOff
    PROVE  RunTypes'
<1> DEFINE fault == {f \in {"currentLimited", "encoderOverflow"} :
                        \/ f = "currentLimited" /\ C1IF
                        \/ f = "encoderOverflow" /\ TMR1IF}
<1>1. fault \in SUBSET Faults
  BY DEF Faults
<1>2. \/ stopped' = stopped
      \/ stopped' = [stopped EXCEPT !.requestedCount = startedCount, !.fault = fault]
  BY DEF motorOff
<1> HIDE DEF fault
<1>3. stopped' \in [actualCount : Int, requestedCount : Int, fault : SUBSET Faults]
  BY <1>1, <1>2 DEF RunTypes
<1> QED BY <1>3 DEF RunTypes, motorOff

LEMMA DriveEffectKeepsRunTypes ==
    ASSUME RunTypes, DriveEffect
    PROVE  RunTypes'
<1>1. CASE UNCHANGED <<modulesOn, runVars>>
  BY <1>1 DEF RunTypes, runVars
<1>2. CASE /\ TMR1' \in {TMR1, 0}
           /\ UNCHANGED stopped \/ motorOff
           /\ UNCHANGED startedCount
  BY <1>2, OffKeepsRunTypes DEF RunTypes
<1>3. CASE \E count \in Int : motorOn(count)
  BY <1>3 DEF motorOn, RunTypes, runVars
<1> QED BY <1>1, <1>2, <1>3 DEF DriveEffect

LEMMA ReportKeepsType ==
    ASSUME RunTypes
    PROVE  Report \in [actualCount : Int, requestedCount : Int, fault : SUBSET Faults]
<1> DEFINE actual == IF stopped.requestedCount < 0 THEN -TMR1 ELSE TMR1
           fault == IF stopped.fault = {} /\ FellShort(actual)
                      THEN {"encoderTimeout"} ELSE stopped.fault
<1>1. actual \in Int /\ fault \in SUBSET Faults
  BY DEF RunTypes, Faults
<1>2. Report = [stopped EXCEPT !.actualCount = actual, !.fault = fault]
  BY DEF Report, RunTypes
<1> HIDE DEF actual, fault
<1> QED BY <1>1, <1>2 DEF RunTypes

LEMMA StepKeepsRunTypes ==
    ASSUME RunTypes, [Next]_vars
    PROVE  RunTypes'
<1>1. CASE Dispatch
  BY <1>1, DispatchDrives, DriveEffectKeepsRunTypes
<1>2. CASE Monitor
  BY <1>2, ReportKeepsType DEF Monitor, motorRunningStateMonitor, RunTypes
<1>3. CASE WokenEnds
  BY <1>3, OffKeepsRunTypes DEF WokenEnds, onWokenFromSleep, RunTypes, runVars
<1>4. CASE Winch
  BY <1>4 DEF Winch, EncoderPulse, CurrentTrip, EncoderOverflow, RunTypes
<1>5. CASE WakeUp \/ UNCHANGED vars
  BY <1>5 DEF WakeUp, vars, driveVars, runVars, RunTypes
<1>6. CASE Callback /\ ~Monitor
  BY <1>6 DEF Callback, RegulatedStabilises, McuStabilises, Ramp, ScreenTimesOut,
              onButtonsStoppedBouncing, incrementPwmDutyCycle, driveVars, runVars, RunTypes
<1> QED BY <1>1, <1>2, <1>3, <1>4, <1>5, <1>6 DEF Next

\* What a handler does to the calibration: it is told of aborts only with a diagnosis.
AbortEffect ==
    \/ UNCHANGED aborted /\ Publishes(Plain)
    \/ aborted' # "none" /\ Publishes(Plain \cup {"DOOR_ABORTED"})

LEMMA MotorStoppedAborts ==
    ASSUME RunTypes, doorOnMotorStopped
    PROVE  AbortEffect /\ UNCHANGED calibrating
<1>1. \A fault : MotorFaulted(fault) /\ Diagnosis(fault) # "none"
                     => AbortEffect /\ UNCHANGED calibrating
  BY FaultPublishes DEF MotorFaulted, AbortEffect
<1>2. stopped.fault \in SUBSET Faults
  BY DEF RunTypes
<1>3. \A fault : fault # "none" /\ Faulted => Diagnosis(CurrentLimited(fault)) # "none"
  BY <1>2 DEF Faulted, CurrentLimited, Diagnosis, Faults
<1>4. UNCHANGED <<aborted, calibrating>> /\ Publishes(Plain) => AbortEffect /\ UNCHANGED calibrating
  BY DEF AbortEffect
<1>5. \A state, event : event \in Plain /\ ArrivedAt(state, event)
                            => AbortEffect /\ UNCHANGED calibrating
  BY <1>4, ArrivalPublishes DEF ArrivedAt
<1>6. "DOOR_OPENED" \in Plain /\ "DOOR_CLOSED" \in Plain
  BY DEF Plain
<1>7. OpeningStopped => AbortEffect /\ UNCHANGED calibrating
  <2>1. Faulted /\ MotorFaulted(CurrentLimited("jammed")) => AbortEffect /\ UNCHANGED calibrating
    BY <1>1, <1>3
  <2> QED BY <1>4, <1>5, <1>6, <2>1, PublishingPlain, EventsArePlain DEF OpeningStopped
<1>8. ClosingStopped => AbortEffect /\ UNCHANGED calibrating
  <2>1. Faulted /\ MotorFaulted(CurrentLimited("reversed"))
            => AbortEffect /\ UNCHANGED calibrating
    BY <1>1, <1>3
  <2> QED BY <1>4, <1>5, <1>6, <2>1, PublishingPlain, EventsArePlain DEF ClosingStopped
<1>9. FindBottomStopped => AbortEffect /\ UNCHANGED calibrating
  <2>1. Faulted /\ MotorFaulted(CurrentLimited("reversed"))
            => AbortEffect /\ UNCHANGED calibrating
    BY <1>1, <1>3
  <2>2. \A count, iterations :
            TriesAgain(count, iterations) => AbortEffect /\ UNCHANGED calibrating
    BY <1>4, PublishingPlain, EventsArePlain DEF TriesAgain
  <2>3. FoundBottom => AbortEffect /\ UNCHANGED calibrating
    BY <1>4, <1>6, PublishingPlain, EventsArePlain DEF FoundBottom
  <2>4. MotorFaulted("lineTooLong") => AbortEffect /\ UNCHANGED calibrating
    BY <1>1 DEF Diagnosis
  <2> DEFINE fault == IF stopped.fault = {} \/ "encoderOverflow" \in stopped.fault
                        THEN "lineSnapped" ELSE "none"
  <2>5. "currentLimited" \notin stopped.fault => Diagnosis(fault) # "none"
    BY <1>2 DEF Diagnosis, Faults
  <2>6. "currentLimited" \notin stopped.fault /\ MotorFaulted(fault)
            => AbortEffect /\ UNCHANGED calibrating
    BY <1>1, <2>5
  <2> QED BY <2>1, <2>2, <2>3, <2>4, <2>6 DEF FindBottomStopped
<1>10. \A fault : fault # "none" /\ ManualStopped(fault) => AbortEffect /\ UNCHANGED calibrating
  <2>1. \A fault : fault # "none" /\ Faulted /\ MotorFaulted(CurrentLimited(fault))
            => AbortEffect /\ UNCHANGED calibrating
    BY <1>1, <1>3
  <2> QED BY <1>4, <2>1, PublishingPlain, EventsArePlain DEF ManualStopped
<1> QED BY <1>4, <1>7, <1>8, <1>9, <1>10, PublishingPlain, EventsArePlain
        DEF doorOnMotorStopped, doorVars

\* Of the events that tell of a calibration, those a step publishes only if it says so.
LEMMA CalibrationIsTold ==
    ASSUME QueueOK, Handling, Publishes(Plain)
    PROVE  /\ IsPending("DOOR_ABORTED")' => IsPending("DOOR_ABORTED")
           /\ IsPending("DOOR_CALIBRATED")' => IsPending("DOOR_CALIBRATED")
           /\ Once("DOOR_CALIBRATED") => Once("DOOR_CALIBRATED")'
           /\ ~Dispatching("DOOR_CALIBRATED") /\ IsPending("DOOR_CALIBRATED")
                  => IsPending("DOOR_CALIBRATED")'
           /\ Once("DOOR_CALIBRATED") /\ Dispatching("DOOR_CALIBRATED")
                  => ~IsPending("DOOR_CALIBRATED")'
<1>1. Plain \in SUBSET (Plain \cup Telling) /\ {"DOOR_ABORTED", "DOOR_CALIBRATED"} \cap Plain = {}
  BY DEF Plain
<1> QED BY <1>1, PublishedPending

LEMMA AbortIsTold ==
    ASSUME QueueOK, Handling, Publishes(Plain \cup {"DOOR_ABORTED"}),
           ~Dispatching("DOOR_CALIBRATED")
    PROVE  /\ IsPending("DOOR_CALIBRATED")' <=> IsPending("DOOR_CALIBRATED")
           /\ Once("DOOR_CALIBRATED") => Once("DOOR_CALIBRATED")'
<1> DEFINE types == Plain \cup {"DOOR_ABORTED"}
<1>1. types \in SUBSET (Plain \cup Telling) /\ "DOOR_CALIBRATED" \notin types
  BY DEF Plain, Telling
<1> HIDE DEF types
<1>2. Publishes(types)
  BY DEF types
<1> QED BY <1>1, <1>2, PublishedPending

LEMMA NotCalibrated ==
    /\ \A type : Dispatching(type) /\ type # "DOOR_CALIBRATED" => ~Dispatching("DOOR_CALIBRATED")
    /\ waking => ~Dispatching("DOOR_CALIBRATED")
BY DEF Dispatching

LEMMA MotorStoppedKeepsCalibrationInv ==
    ASSUME SupplyInv, CalibrationInv, MotorStopped
    PROVE  CalibrationInv'
<1>1. AbortEffect /\ UNCHANGED calibrating /\ UNCHANGED <<isInputIgnored, option>>
  BY MotorStoppedAborts DEF MotorStopped, CalibrationInv, uiVars
<1>2. RunTypes'
  BY StepKeepsRunTypes DEF CalibrationInv, Next, Dispatch
<1>3. QueueOK /\ Handling /\ ~Dispatching("DOOR_CALIBRATED")
  BY NotCalibrated DEF SupplyInv, MotorStopped, Dispatching, Handling
<1>4. CASE UNCHANGED aborted /\ Publishes(Plain)
  BY <1>1, <1>2, <1>3, <1>4, CalibrationIsTold DEF CalibrationInv
<1>5. CASE aborted' # "none" /\ Publishes(Plain \cup {"DOOR_ABORTED"})
  BY <1>1, <1>2, <1>3, <1>5, AbortIsTold DEF CalibrationInv
<1> QED BY <1>1, <1>4, <1>5 DEF AbortEffect

LEMMA DoorClosedKeepsCalibrationInv ==
    ASSUME SupplyInv, CalibrationInv, DoorClosedEvent
    PROVE  CalibrationInv'
<1>1. calibrating' = FALSE /\ UNCHANGED <<aborted, isInputIgnored, option>>
  BY DEF DoorClosedEvent, onDoorClosedForCalibration, uiVars
<1>2. RunTypes'
  BY StepKeepsRunTypes DEF CalibrationInv, Next, Dispatch
<1>3. QueueOK /\ Handling /\ ~Dispatching("DOOR_CALIBRATED")
  BY NotCalibrated DEF SupplyInv, DoorClosedEvent, Dispatching, Handling
<1>4. CASE ~calibrating
  <2>1. Publishes(Plain)
    BY <1>4, PublishingPlain, EventsArePlain DEF DoorClosedEvent, onDoorClosedForCalibration
  <2> QED BY <1>1, <1>2, <1>3, <1>4, <2>1, CalibrationIsTold DEF CalibrationInv
<1>5. CASE calibrating
  <2>1. Publish(<<"DOOR_CALIBRATED">>) /\ ~IsPending("DOOR_CALIBRATED") /\ isInputIgnored
    BY <1>5 DEF DoorClosedEvent, onDoorClosedForCalibration, CalibrationInv
  <2>2. IsPending("DOOR_CALIBRATED")' /\ Once("DOOR_CALIBRATED")'
    BY <1>3, <2>1, PublishedOne DEF Telling
  <2> DEFINE events == <<"DOOR_CALIBRATED">>
             types == {"DOOR_CALIBRATED"}
  <2>3. Publish(events) /\ events \in Seq(types) /\ types \in SUBSET (Plain \cup Telling)
        /\ "DOOR_ABORTED" \notin types
    BY <2>1 DEF Telling
  <2> HIDE DEF events, types
  <2>4. Publishes(types)
    BY <2>3 DEF Publishes
  <2>5. IsPending("DOOR_ABORTED")' => IsPending("DOOR_ABORTED")
    BY <1>3, <2>3, <2>4, PublishedPending
  <2> QED BY <1>1, <1>2, <2>1, <2>2, <2>5 DEF CalibrationInv
<1> QED BY <1>4, <1>5

\* A calibration is only asked for while the buttons are heard.
LEMMA ButtonsKeepCalibrationInv ==
    ASSUME SupplyInv, CalibrationInv, ButtonsPressedWhenScreenIsOn \/ ButtonsReleased
    PROVE  CalibrationInv'
<1>1. RunTypes'
  BY StepKeepsRunTypes DEF CalibrationInv, Next, Dispatch
<1>2. QueueOK /\ Handling /\ ~Dispatching("DOOR_CALIBRATED")
  BY NotCalibrated
  DEF SupplyInv, ButtonsPressedWhenScreenIsOn, ButtonsReleased, Dispatching, Handling
<1>3. Publishes(Plain)
  BY DispatchPublishes
  DEF SupplyInv, Dispatch, ButtonsPressedWhenScreenIsOn, ButtonsReleased, MotorStopped,
      DoorClosedEvent, Dispatching
<1>4. CASE ButtonsPressedWhenScreenIsOn
  <2>1. UNCHANGED <<calibrating, aborted, isInputIgnored>>
    BY <1>4
    DEF ButtonsPressedWhenScreenIsOn, OptionSelected, doorManualStartOpening,
        doorManualStartClosing, doorVars
  <2>2. isInputIgnored => option' = "OTHER"
    BY <1>4 DEF ButtonsPressedWhenScreenIsOn
  <2> QED BY <1>1, <1>2, <1>3, <2>1, <2>2, CalibrationIsTold DEF CalibrationInv
<1>5. CASE ButtonsReleased
  <2>1. option' = "OTHER" /\ UNCHANGED aborted
    BY <1>5 DEF ButtonsReleased, OptionAfterSelected, doorManualStop, doorCalibrate, doorVars
  <2>2. \/ UNCHANGED <<calibrating, isInputIgnored>>
        \/ option = "CALIBRATE" /\ calibrating' = TRUE /\ isInputIgnored' = TRUE
    BY <1>5 DEF ButtonsReleased, OptionAfterSelected, doorManualStop, doorCalibrate, doorVars
  <2> QED BY <1>1, <1>2, <1>3, <2>1, <2>2, CalibrationIsTold DEF CalibrationInv
<1> QED BY <1>4, <1>5

LEMMA DispatchKeepsCalibrationInv ==
    ASSUME SupplyInv, CalibrationInv, Dispatch
    PROVE  CalibrationInv'
<1>1. RunTypes'
  BY StepKeepsRunTypes DEF CalibrationInv, Next
<1>2. QueueOK /\ Handling
  BY DispatchPublishes DEF SupplyInv
<1>3. CASE MotorStopped \/ DoorClosedEvent \/ ButtonsPressedWhenScreenIsOn \/ ButtonsReleased
  BY <1>3, MotorStoppedKeepsCalibrationInv, DoorClosedKeepsCalibrationInv,
     ButtonsKeepCalibrationInv
<1>4. CASE ~(MotorStopped \/ DoorClosedEvent \/ ButtonsPressedWhenScreenIsOn \/ ButtonsReleased)
  <2>1. Publishes(Plain)
    BY <1>4, DispatchPublishes DEF SupplyInv
  <2>2. CASE DoorAbortedEvent
    <3>1. /\ calibrating' = FALSE /\ UNCHANGED <<aborted, isInputIgnored, option>>
          /\ Dispatching("DOOR_ABORTED")
      BY <2>2 DEF DoorAbortedEvent, onDoorAbortedForCalibration, uiVars
    <3>2. aborted # "none" /\ ~Dispatching("DOOR_CALIBRATED")
      BY <1>2, <3>1, DispatchedIsPending, NotCalibrated DEF CalibrationInv
    <3> QED BY <1>1, <1>2, <2>1, <3>1, <3>2, CalibrationIsTold DEF CalibrationInv
  <2>3. CASE DoorCalibratedEvent
    <3>1. /\ isInputIgnored' = FALSE /\ UNCHANGED <<aborted, calibrating, option>>
          /\ Dispatching("DOOR_CALIBRATED")
      BY <2>3 DEF DoorCalibratedEvent, doorVars
    <3>2. IsPending("DOOR_CALIBRATED")
      BY <1>2, <3>1, DispatchedIsPending
    <3> QED BY <1>1, <1>2, <2>1, <3>1, <3>2, CalibrationIsTold DEF CalibrationInv
  <2>4. CASE \/ VregEnabled \/ VregDisabled \/ MotorEnabled \/ TimeChanged
             \/ OpenScheduleActioned \/ CloseScheduleActioned \/ Unheard
             \/ ButtonsPressedWhenScreenIsOff
    <3>1. ~Dispatching("DOOR_CALIBRATED")
      BY <2>4
      DEF VregEnabled, VregDisabled, MotorEnabled, TimeChanged, OpenScheduleActioned,
          CloseScheduleActioned, Unheard, ButtonsPressedWhenScreenIsOff, Dispatching
    <3>2. UNCHANGED <<isInputIgnored, option>>
      BY <2>4
      DEF VregEnabled, VregDisabled, MotorEnabled, TimeChanged, OpenScheduleActioned,
          CloseScheduleActioned, Unheard, ButtonsPressedWhenScreenIsOff, uiVars
    <3>3. UNCHANGED <<aborted, calibrating>>
      <4>1. CASE OpenScheduleActioned \/ CloseScheduleActioned
        BY <4>1 DEF OpenScheduleActioned, CloseScheduleActioned, doorOnOpenScheduleActioned,
                    doorOnCloseScheduleActioned, AlreadyThere, StartFromUnknown, OnlyRemember,
                    Remember
      <4>2. CASE \/ VregEnabled \/ VregDisabled \/ MotorEnabled \/ TimeChanged \/ Unheard
                 \/ ButtonsPressedWhenScreenIsOff
        BY <4>2 DEF VregEnabled, VregDisabled, MotorEnabled, doorOnMotorEnabled, TimeChanged,
                    Unheard, ButtonsPressedWhenScreenIsOff, doorVars
      <4> QED BY <2>4, <4>1, <4>2
    <3> QED BY <1>1, <1>2, <2>1, <3>1, <3>2, <3>3, CalibrationIsTold DEF CalibrationInv
  <2> QED BY <1>4, <2>2, <2>3, <2>4 DEF Dispatch
<1> QED BY <1>3, <1>4

\* A callback tells nothing of a calibration.
LEMMA CallbackKeepsCalibrationInv ==
    ASSUME SupplyInv, CalibrationInv, Callback
    PROVE  CalibrationInv'
<1>1. RunTypes'
  BY StepKeepsRunTypes DEF CalibrationInv, Next
<1>2. waking /\ Handling /\ QueueOK /\ ~Dispatching("DOOR_CALIBRATED")
  BY CallbackHandles, NotCalibrated DEF SupplyInv
<1>3. UNCHANGED <<calibrating, aborted, isInputIgnored, option>>
  BY DEF Callback, RegulatedStabilises, McuStabilises, Ramp, Monitor, ScreenTimesOut,
         onButtonsStoppedBouncing, doorVars, uiVars
<1> DEFINE types == Plain \cup {"MOTOR_STOPPED", "VOLTAGE_REGULATOR_ENABLED"}
<1>4. types \in SUBSET (Plain \cup Telling) /\ {"DOOR_ABORTED", "DOOR_CALIBRATED"} \cap types = {}
  BY DEF Plain, Telling
<1>5. Publishes(types)
  <2>1. /\ <<>> \in Seq(types) /\ <<"MOTOR_STOPPED">> \in Seq(types)
        /\ <<"VOLTAGE_REGULATOR_ENABLED">> \in Seq(types)
        /\ \A events \in Seq(Plain) : events \in Seq(types)
    OBVIOUS
  <2>2. {"LCD_DISABLED", "BUTTONS_PRESSED", "BUTTONS_RELEASED"} \subseteq Plain
    BY DEF Plain
  <2> HIDE DEF types
  <2>3. RegulatedStabilises \/ Ramp => Publishes(types)
    BY <2>1 DEF RegulatedStabilises, Ramp, Publishes
  <2>4. McuStabilises => Publishes(types)
    BY <2>1 DEF McuStabilises, onMcuVoltageRailStabilisedEvents, Publishes
  <2>5. Monitor => Publishes(types)
    BY <2>1 DEF Monitor, motorRunningStateMonitorEvents, Publishes
  <2>6. ScreenTimesOut \/ onButtonsStoppedBouncing => Publishes(Plain)
    BY <2>2, PublishingPlain, EventsArePlain DEF ScreenTimesOut, onButtonsStoppedBouncing
  <2>7. Publishes(Plain) => Publishes(types)
    BY <2>1 DEF Publishes
  <2> QED BY <2>3, <2>4, <2>5, <2>6, <2>7 DEF Callback
<1> HIDE DEF types
<1>6. /\ IsPending("DOOR_ABORTED")' => IsPending("DOOR_ABORTED")
      /\ IsPending("DOOR_CALIBRATED")' <=> IsPending("DOOR_CALIBRATED")
      /\ Once("DOOR_CALIBRATED") => Once("DOOR_CALIBRATED")'
  BY <1>2, <1>4, <1>5, PublishedPending
<1> QED BY <1>1, <1>3, <1>6 DEF CalibrationInv

LEMMA RestKeepsCalibrationInv ==
    ASSUME SupplyInv, CalibrationInv, WakeUp \/ WokenEnds \/ Winch \/ UNCHANGED vars
    PROVE  CalibrationInv'
<1>1. RunTypes'
  BY StepKeepsRunTypes DEF CalibrationInv, Next
<1>2. UNCHANGED <<calibrating, aborted, isInputIgnored, option>>
  BY DEF WakeUp, WokenEnds, Winch, vars, doorVars, uiVars
<1>3. CASE WakeUp
  <2>1. queue = <<>> /\ queue' \in {<<>>, <<"TIME_CHANGED">>}
    BY <1>3 DEF WakeUp, Wake
  <2>2. ~IsPending("DOOR_CALIBRATED")
    BY <2>1 DEF IsPending
  <2>3. /\ ~IsPending("DOOR_CALIBRATED")' /\ ~IsPending("DOOR_ABORTED")'
        /\ Once("DOOR_CALIBRATED")'
    <3>1. CASE queue' = <<>>
      BY <3>1 DEF IsPending, Once
    <3>2. CASE queue' = <<"TIME_CHANGED">>
      <4>1. Len(queue') = 1 /\ queue'[1] = "TIME_CHANGED"
        BY <3>2
      <4> QED BY <4>1 DEF IsPending, Once
    <3> QED BY <2>1, <3>1, <3>2
  <2> QED BY <1>1, <1>2, <2>2, <2>3 DEF CalibrationInv
<1>4. CASE WokenEnds \/ Winch \/ UNCHANGED vars
  <2>1. UNCHANGED queue
    BY <1>4 DEF WokenEnds, Winch, vars, loopVars
  <2> QED BY <1>1, <1>2, <2>1 DEF CalibrationInv, IsPending, Once
<1> QED BY <1>3, <1>4

LEMMA InitCalibrationInv == Init => CalibrationInv
<1> SUFFICES ASSUME Init PROVE CalibrationInv
  OBVIOUS
<1>1. RunTypes
  BY DEF Init, motorInitialise, RunTypes
<1>2. \A type : ~IsPending(type) /\ Once(type)
  BY DEF Init, IsPending, Once
<1> QED BY <1>1, <1>2 DEF Init, doorInitialise, CalibrationInv

\* Whatever aborts, schedules and presses fall in between, the buttons are dead just
\* while a calibration goes on or its result is on the way, but for the hang after an
\* abort that DoorCalibrate.c owns up to.
THEOREM CalibrationsAreAccountedFor == Spec => []CalibrationIsAccountedFor
<1>1. Init => SupplyInv /\ CalibrationInv
  BY InitSupplyInv, InitCalibrationInv
<1>2. (SupplyInv /\ CalibrationInv) /\ [Next]_vars => (SupplyInv /\ CalibrationInv)'
  BY NextKeepsSupplyInv, CallbackKeepsCalibrationInv, DispatchKeepsCalibrationInv,
     RestKeepsCalibrationInv
  DEF Next
<1>3. SupplyInv /\ CalibrationInv => CalibrationIsAccountedFor
  BY DEF CalibrationInv, CalibrationIsAccountedFor, IsPending
<1> QED BY <1>1, <1>2, <1>3, PTL DEF Spec
-----------------------------------------------------------------------------
(***************************************************************************)
(* The door when nobody is at the buttons: on its schedules, with an       *)
(* encoder that works, as it is for most of its life.  However the         *)
(* schedules fall among the movements and whatever the winch meets, it     *)
(* rests where it was last wanted, gets there by the encoder, is never     *)
(* lost sight of, is never thought to have a broken encoder, and leaves    *)
(* nothing on.                                                             *)
(*                                                                         *)
(* All of it comes from knowing, of every state of the door, what the motor*)
(* is doing and which event it waits for (PhaseInv), and from following a  *)
(* count from motorOn() to the handler of MOTOR_STOPPED (CountInv).        *)
(***************************************************************************)
NobodyIsThere == UsedOptions = {}
EncoderWorks == EncoderMayFail = FALSE

WaitingAlone == {"FindBottom_WaitingForEnabledMotor", "Opening_WaitingForEnabledMotor",
                 "Closing_WaitingForEnabledMotor"}
MovingAlone == {"FindBottom", "Opening", "Closing"}

\* The screen stays off, and its share of the supply unclaimed.
Alone ==
    /\ ~isScreenOn /\ "screen" \notin due /\ "buttons" \notin due
    /\ ~IsPending("BUTTONS_PRESSED") /\ ~IsPending("BUTTONS_RELEASED")

\* Before the supply is up again, or anything else is woken for, its being off has
\* been heard of.
TellsOnce ==
    /\ Once("MOTOR_ENABLED") /\ Once("VOLTAGE_REGULATOR_ENABLED")
    /\ waking \/ fullyEnabled => ~IsPending("VOLTAGE_REGULATOR_DISABLED")

\* A movement is for the last schedule.
Obeys == transition = wanted /\ wanted \in {"Open", "Close"}

NothingToCome == ~IsPending("VOLTAGE_REGULATOR_ENABLED") /\ ~IsPending("MOTOR_ENABLED")

AtRest ==
    /\ current \in Resting /\ motorEnableCount = 0
    /\ NothingToCome
    /\ modulesOn => IsPending("VOLTAGE_REGULATOR_DISABLED")

AwaitsMotor ==
    /\ current \in WaitingAlone /\ motorEnableCount = 1 /\ Obeys
    /\ \/ ~fullyEnabled /\ NothingToCome
       \/ /\ fullyEnabled /\ ~isFullyEnabled
          /\ IsPending("VOLTAGE_REGULATOR_ENABLED") /\ ~IsPending("MOTOR_ENABLED")
       \/ /\ isFullyEnabled /\ modulesOn
          /\ IsPending("MOTOR_ENABLED") /\ ~IsPending("VOLTAGE_REGULATOR_ENABLED")

AsAsked ==
    /\ current = "Opening" => startedCount = Height
    /\ current = "Closing" => startedCount = -Height

Moves ==
    /\ current \in MovingAlone /\ motorEnableCount = 1 /\ Obeys
    /\ isFullyEnabled /\ modulesOn /\ NothingToCome
    /\ Running <=> ~StopPending
    /\ AsAsked

PhaseInv == Alone /\ TellsOnce /\ (AtRest \/ AwaitsMotor \/ Moves)

BaseInv == SupplyInv /\ WatchInv /\ RunTypes
-----------------------------------------------------------------------------
(***************************************************************************)
(* What becomes of the events that the phases wait for.                    *)
(***************************************************************************)
Calm == {"MOTOR_STARTED", "MOTOR_DISABLED", "DOOR_OPENED", "DOOR_CLOSED", "DOOR_ABORTED",
         "DOOR_CALIBRATED", "TIME_CHANGED", "DOOR_OPEN_SCHEDULE_ACTIONED",
         "DOOR_CLOSE_SCHEDULE_ACTIONED"}
Tracked == {"MOTOR_ENABLED", "MOTOR_STOPPED", "VOLTAGE_REGULATOR_ENABLED",
            "VOLTAGE_REGULATOR_DISABLED", "BUTTONS_PRESSED", "BUTTONS_RELEASED"}

LEMMA TrackedAreTold ==
    ASSUME QueueOK, Handling, NEW types \in SUBSET Tracked, Publishes(Calm \cup types)
    PROVE  \A type \in Tracked \ types :
               /\ IsPending(type)' => IsPending(type)
               /\ Once(type) => Once(type)'
               /\ IsPending(type) /\ ~Dispatching(type) => IsPending(type)'
               /\ Once(type) /\ Dispatching(type) => ~IsPending(type)'
<1> DEFINE all == Calm \cup types
<1>1. all \in SUBSET (Plain \cup Telling) /\ \A type \in Tracked \ types : type \notin all
  BY DEF Calm, Tracked, Plain, Telling
<1> HIDE DEF all
<1>2. Publishes(all)
  BY DEF all
<1> QED BY <1>1, <1>2, PublishedPending

\* Nothing tracked is published.
LEMMA CalmTells ==
    ASSUME QueueOK, Handling, Publishes(Calm)
    PROVE  \A type \in Tracked :
               /\ IsPending(type)' => IsPending(type)
               /\ Once(type) => Once(type)'
               /\ IsPending(type) /\ ~Dispatching(type) => IsPending(type)'
               /\ Once(type) /\ Dispatching(type) => ~IsPending(type)'
<1> DEFINE types == {}
<1>1. types \in SUBSET Tracked /\ Calm \cup types = Calm /\ Tracked \ types = Tracked
  OBVIOUS
<1> HIDE DEF types
<1> QED BY <1>1, TrackedAreTold

\* Every event published is pending.
LEMMA PublishedArePending ==
    ASSUME QueueOK, Handling, NEW events \in Seq(Plain \cup Telling), Publish(events),
           NEW k \in 1 .. Len(events), NEW type, events[k] = type
    PROVE  IsPending(type)'
<1> DEFINE types == Plain \cup Telling
<1>1. types \in SUBSET (Plain \cup Telling) /\ events \in Seq(types)
  OBVIOUS
<1> HIDE DEF types
<1>2. /\ Rest \in Seq(Plain \cup Telling)
      /\ Len(queue') = Len(Rest) + Len(events)
      /\ \A i \in 1 .. Len(events) : queue'[Len(Rest) + i] = events[i]
  BY <1>1, PublishedQueue
<1>3. Len(Rest) + k \in 1 .. Len(queue') /\ queue'[Len(Rest) + k] = events[k]
  BY <1>2
<1> QED BY <1>3 DEF IsPending

LEMMA CalmEvents ==
    /\ <<>> \in Seq(Calm) /\ \A event \in Calm : <<event>> \in Seq(Calm)
    /\ \A first, second \in Seq(Calm) : first \o second \in Seq(Calm)
    /\ StartEvents \in Seq(Calm) /\ \A count : motorOnEvents(count) \in Seq(Calm)
<1>1. <<>> \in Seq(Calm) /\ \A event \in Calm : <<event>> \in Seq(Calm)
  OBVIOUS
<1>2. \A first, second \in Seq(Calm) : first \o second \in Seq(Calm)
  OBVIOUS
<1> DEFINE Single(event) == <<event>>
           None == <<>>
<1>3. Single("MOTOR_STARTED") \in Seq(Calm) /\ None \in Seq(Calm)
  BY <1>1 DEF Calm
<1>4. \A count : motorOnEvents(count) \in {Single("MOTOR_STARTED"), None}
  BY DEF motorOnEvents
<1>5. StartEvents \in {motorOnEvents(1), None}
  BY DEF StartEvents
<1> HIDE DEF Single, None
<1> QED BY <1>1, <1>2, <1>3, <1>4, <1>5

LEMMA PublishingCalm ==
    /\ \A first \in Seq(Calm) : Publish(first) => Publishes(Calm)
    /\ \A first, second \in Seq(Calm) : Publish(first \o second) => Publishes(Calm)
BY CalmEvents DEF Publishes
-----------------------------------------------------------------------------
(***************************************************************************)
(* With nobody there, the supply is on exactly for the motor, and a door   *)
(* that rests has none of it.                                              *)
(***************************************************************************)
LEMMA SupplyIsTheMotors ==
    ASSUME BaseInv, PhaseInv
    PROVE  /\ vregEnableCount = IF motorEnableCount # 0 THEN 1 ELSE 0
           /\ motorEnableCount \in {0, 1}
           /\ AtRest => ~fullyEnabled /\ ~isFullyEnabled /\ ~LATB0 /\ ~Running /\ ~StopPending
           /\ AwaitsMotor => ~Running /\ ~StopPending
<1>1. vregEnableCount = Clients /\ vregEnableCount \in Nat /\ motorEnableCount \in Nat
  BY CountsAreNaturals DEF BaseInv, SupplyInv, IInv, CountsInRange
<1>2. ~isScreenOn /\ motorEnableCount \in {0, 1}
  BY DEF PhaseInv, Alone, AtRest, AwaitsMotor, Moves
<1>3. vregEnableCount = IF motorEnableCount # 0 THEN 1 ELSE 0
  BY <1>1, <1>2 DEF Clients
<1>4. AtRest => ~fullyEnabled /\ ~isFullyEnabled /\ ~LATB0 /\ ~Running /\ ~StopPending
  BY <1>3 DEF AtRest, BaseInv, SupplyInv, RunInv, WaitsInv
<1>5. AwaitsMotor => ~Running /\ ~StopPending
  BY DEF AwaitsMotor, WaitingAlone, Waiting, BaseInv, SupplyInv, RunInv
<1> QED BY <1>2, <1>3, <1>4, <1>5

\* The phases tell the states of the door apart.
LEMMA PhasesAreDistinct ==
    ASSUME PhaseInv
    PROVE  /\ current \in Resting <=> AtRest
           /\ current \in Waiting <=> AwaitsMotor
           /\ current \in Moving <=> Moves
           /\ current \in Resting \cup WaitingAlone \cup MovingAlone
BY DEF PhaseInv, AtRest, AwaitsMotor, Moves, Resting, Waiting, Moving, WaitingAlone, MovingAlone

\* A step that leaves the door, the motor and the supply as they are and tells
\* nothing that is tracked.
LEMMA CalmKeepsPhaseInv ==
    ASSUME BaseInv, PhaseInv, Handling, Publishes(Calm),
           \A type \in Tracked : ~Dispatching(type),
           UNCHANGED <<enableVars, driveVars, current, isScreenOn, due>>, waking' <=> waking,
           Obeys /\ current \notin Resting => Obeys'
    PROVE  PhaseInv'
<1>1. \A type \in Tracked : /\ IsPending(type)' <=> IsPending(type)
                            /\ Once(type) => Once(type)'
  BY CalmTells DEF BaseInv, SupplyInv
<1>2. UNCHANGED <<motorEnableCount, isFullyEnabled, fullyEnabled, modulesOn,
                  motorRunningState, startedCount>>
  BY DEF enableVars, vregVars, driveVars, runVars
<1>3. Alone' /\ TellsOnce'
  BY <1>1, <1>2 DEF PhaseInv, Alone, TellsOnce, Tracked
<1>4. AtRest => AtRest'
  BY <1>1, <1>2 DEF AtRest, NothingToCome, Tracked
<1>5. AwaitsMotor => AwaitsMotor'
  BY <1>1, <1>2 DEF AwaitsMotor, NothingToCome, Tracked, WaitingAlone, Resting
<1>6. Moves => Moves'
  BY <1>1, <1>2
  DEF Moves, NothingToCome, Tracked, MovingAlone, Resting, AsAsked, Running, StopPending
<1> QED BY <1>3, <1>4, <1>5, <1>6 DEF PhaseInv
-----------------------------------------------------------------------------
(***************************************************************************)
(* The handlers, phase by phase.                                           *)
(***************************************************************************)
LEMMA HandlersFindDispatch ==
    ASSUME BaseInv, Dispatch
    PROVE  /\ QueueOK /\ Handling
           /\ ~waking /\ ~waking' /\ UNCHANGED due
           /\ \A type : Dispatching(type) => IsPending(type)
           /\ \A type, other : Dispatching(type) /\ Dispatching(other) => type = other
<1>1. QueueOK /\ Handling /\ ~waking /\ ~waking' /\ UNCHANGED due
  BY DispatchPublishes DEF BaseInv, SupplyInv
<1>2. \A type : Dispatching(type) => IsPending(type)
  BY <1>1, DispatchedIsPending
<1>3. \A type, other : Dispatching(type) /\ Dispatching(other) => type = other
  BY DEF Dispatching
<1> QED BY <1>1, <1>2, <1>3

\* The schedules, while the door is at rest somewhere else: the supply is off, so the
\* motor has to be waited for.
Leaves ==
    /\ motorEnable
    /\ \E enabledState, disabledState \in WaitingAlone \cup MovingAlone :
           /\ disabledState \in WaitingAlone
           /\ \/ doorStartOpening(enabledState, disabledState)
              \/ doorStartClosing(enabledState, disabledState)
              \/ doorStartFindingBottom(enabledState, disabledState)
    /\ Publish(motorEnableEvents \o StartEvents)

Stays ==
    /\ UNCHANGED <<enableVars, driveVars, current>>
    /\ Publish(<<>>)

LEMMA SchedulesLeaveOrStay ==
    ASSUME OpenScheduleActioned \/ CloseScheduleActioned
    PROVE  /\ UNCHANGED isScreenOn /\ UNCHANGED aborted
           /\ wanted' \in {"Open", "Close"}
           /\ \/ Leaves /\ current \in Resting /\ transition' = wanted'
              \/ /\ Stays
                 /\ current \notin Resting => transition' = wanted'
                 /\ current = "Opened" => wanted' = "Open"
                 /\ current = "Closed" => wanted' = "Close"
<1>1. CASE OpenScheduleActioned
  <2>1. UNCHANGED isScreenOn /\ wanted' = "Open" /\ doorOnOpenScheduleActioned
    BY <1>1 DEF OpenScheduleActioned, uiVars
  <2>2. ASSUME AlreadyThere("Opened") PROVE Stays /\ UNCHANGED aborted /\ current = "Opened"
    BY <2>2 DEF AlreadyThere, Stays, Remember
  <2>3. ASSUME OnlyRemember("Open")
        PROVE  Stays /\ UNCHANGED aborted /\ transition' = "Open"
               /\ current \notin {"Opened", "Closed"}
    BY <2>3 DEF OnlyRemember, Stays, Remember
  <2>4. ASSUME StartFromUnknown("Open")
        PROVE  Leaves /\ UNCHANGED aborted /\ transition' = "Open" /\ current \in Resting
    BY <2>4 DEF StartFromUnknown, Leaves, Remember, WaitingAlone, MovingAlone, Resting
  <2>5. ASSUME current = "Closed", motorEnable,
               doorStartOpening("Opening", "Opening_WaitingForEnabledMotor"),
               Publish(motorEnableEvents \o StartEvents), Remember("Open")
        PROVE  Leaves /\ UNCHANGED aborted /\ transition' = "Open" /\ current \in Resting
    BY <2>5 DEF Leaves, Remember, WaitingAlone, MovingAlone, Resting
  <2> QED BY <2>1, <2>2, <2>3, <2>4, <2>5 DEF doorOnOpenScheduleActioned, Resting
<1>2. CASE CloseScheduleActioned
  <2>1. UNCHANGED isScreenOn /\ wanted' = "Close" /\ doorOnCloseScheduleActioned
    BY <1>2 DEF CloseScheduleActioned, uiVars
  <2>2. ASSUME AlreadyThere("Closed") PROVE Stays /\ UNCHANGED aborted /\ current = "Closed"
    BY <2>2 DEF AlreadyThere, Stays, Remember
  <2>3. ASSUME OnlyRemember("Close")
        PROVE  Stays /\ UNCHANGED aborted /\ transition' = "Close"
               /\ current \notin {"Opened", "Closed"}
    BY <2>3 DEF OnlyRemember, Stays, Remember
  <2>4. ASSUME StartFromUnknown("Close")
        PROVE  Leaves /\ UNCHANGED aborted /\ transition' = "Close" /\ current \in Resting
    BY <2>4 DEF StartFromUnknown, Leaves, Remember, WaitingAlone, MovingAlone, Resting
  <2>5. ASSUME current = "Opened", motorEnable,
               doorStartClosing("Closing", "Closing_WaitingForEnabledMotor"),
               Publish(motorEnableEvents \o StartEvents), Remember("Close")
        PROVE  Leaves /\ UNCHANGED aborted /\ transition' = "Close" /\ current \in Resting
    BY <2>5 DEF Leaves, Remember, WaitingAlone, MovingAlone, Resting
  <2> QED BY <2>1, <2>2, <2>3, <2>4, <2>5 DEF doorOnCloseScheduleActioned, Resting
<1> QED BY <1>1, <1>2

LEMMA LeavingAwaitsMotor ==
    ASSUME BaseInv, PhaseInv, current \in Resting, Leaves
    PROVE  /\ motorEnableCount' = 1 /\ ~fullyEnabled' /\ ~isFullyEnabled'
           /\ current' \in WaitingAlone
           /\ UNCHANGED driveVars
           /\ Publishes(Calm)
<1>1. AtRest /\ motorEnableCount = 0 /\ ~fullyEnabled /\ ~isFullyEnabled
  BY PhasesAreDistinct, SupplyIsTheMotors DEF AtRest
<1>2. motorEnableCount' = 1 /\ ~fullyEnabled' /\ ~isFullyEnabled'
  <2>1. motorEnable
    BY DEF Leaves
  <2>2. motorEnableCount' = 1
    BY <1>1, <2>1 DEF motorEnable
  <2>3. voltageRegulatorEnable /\ (isFullyEnabled' <=> isFullyEnabled \/ fullyEnabled)
    BY <1>1, <2>1 DEF motorEnable
  <2> QED BY <1>1, <2>2, <2>3 DEF voltageRegulatorEnable
<1>3. current' \in WaitingAlone /\ UNCHANGED driveVars
  BY <1>2 DEF Leaves, doorStartOpening, doorStartClosing, doorStartFindingBottom, Start
<1>4. motorEnableEvents = <<>> /\ StartEvents = <<>>
  BY <1>1, <1>2 DEF motorEnableEvents, StartEvents
<1>5. Publishes(Calm)
  BY <1>4, CalmEvents, PublishingCalm DEF Leaves
<1> QED BY <1>2, <1>3, <1>5

LEMMA SchedulesKeepPhaseInv ==
    ASSUME BaseInv, PhaseInv, OpenScheduleActioned \/ CloseScheduleActioned
    PROVE  PhaseInv'
<1>1. /\ QueueOK /\ Handling
      /\ ~waking /\ ~waking' /\ UNCHANGED due
      /\ \A type \in Tracked : ~Dispatching(type)
  BY HandlersFindDispatch
  DEF Dispatch, OpenScheduleActioned, CloseScheduleActioned, Dispatching, Tracked
<1>2. CASE Stays
  <2>1. Publishes(Calm)
    BY <1>2, CalmEvents, PublishingCalm DEF Stays
  <2>2. UNCHANGED <<enableVars, driveVars, current, isScreenOn>>
    BY <1>2, SchedulesLeaveOrStay DEF Stays
  <2>3. current \notin Resting => Obeys'
    BY SchedulesLeaveOrStay DEF Obeys
  <2> QED BY <1>1, <2>1, <2>2, <2>3, CalmKeepsPhaseInv
<1>3. CASE Leaves /\ current \in Resting /\ transition' = wanted'
  <2>1. /\ motorEnableCount' = 1 /\ ~fullyEnabled' /\ ~isFullyEnabled'
        /\ current' \in WaitingAlone
        /\ Publishes(Calm)
    BY <1>3, LeavingAwaitsMotor
  <2>2. \A type \in Tracked : /\ IsPending(type)' => IsPending(type)
                              /\ Once(type) => Once(type)'
    BY <1>1, <2>1, CalmTells
  <2>3. UNCHANGED isScreenOn /\ Obeys'
    BY <1>3, SchedulesLeaveOrStay DEF Obeys
  <2>4. NothingToCome
    BY <1>3, PhasesAreDistinct DEF AtRest
  <2>5. AwaitsMotor'
    BY <2>1, <2>2, <2>3, <2>4 DEF AwaitsMotor, NothingToCome, Tracked
  <2>6. Alone' /\ TellsOnce'
    BY <1>1, <2>1, <2>2, <2>3 DEF PhaseInv, Alone, TellsOnce, Tracked
  <2> QED BY <2>5, <2>6 DEF PhaseInv
<1> QED BY <1>2, <1>3, SchedulesLeaveOrStay

LEMMA VregEnabledKeepsPhaseInv ==
    ASSUME BaseInv, PhaseInv, VregEnabled
    PROVE  PhaseInv'
<1>1. /\ QueueOK /\ Handling /\ ~waking /\ ~waking' /\ UNCHANGED due
      /\ Dispatching("VOLTAGE_REGULATOR_ENABLED") /\ IsPending("VOLTAGE_REGULATOR_ENABLED")
  BY HandlersFindDispatch DEF Dispatch, VregEnabled
<1>2. /\ AwaitsMotor /\ fullyEnabled /\ ~isFullyEnabled /\ motorEnableCount = 1
      /\ ~IsPending("MOTOR_ENABLED") /\ ~IsPending("VOLTAGE_REGULATOR_DISABLED")
  BY <1>1 DEF PhaseInv, AtRest, AwaitsMotor, Moves, NothingToCome, TellsOnce
<1>3. /\ modulesOn' = TRUE /\ isFullyEnabled'
      /\ UNCHANGED <<vregVars, motorEnableCount, current, transition, wanted, isScreenOn>>
  <2>1. isFullyEnabled' <=> isFullyEnabled \/ motorEnableCount # 0
    BY DEF VregEnabled, onVoltageRegulatorEnabled
  <2>2. /\ modulesOn' = TRUE
        /\ UNCHANGED <<vregVars, motorEnableCount, current, transition, wanted, isScreenOn>>
    BY DEF VregEnabled, onVoltageRegulatorEnabled, doorVars, uiVars
  <2> QED BY <1>2, <2>1, <2>2
<1> DEFINE events == <<"MOTOR_ENABLED">>
<1>4. Publish(events)
  BY <1>2 DEF VregEnabled, onVoltageRegulatorEnabledEvents
<1>5. IsPending("MOTOR_ENABLED")' /\ Once("MOTOR_ENABLED")'
  BY <1>1, <1>2, <1>4, PublishedOne DEF Plain
<1> DEFINE types == {"MOTOR_ENABLED"}
<1>6. events \in Seq(Calm \cup types) /\ types \in SUBSET Tracked
      /\ \A type \in Tracked : type # "MOTOR_ENABLED" => type \in Tracked \ types
  BY DEF Tracked
<1> HIDE DEF events, types
<1>7. Publishes(Calm \cup types)
  BY <1>4, <1>6 DEF Publishes
<1>8. \A type \in Tracked :
          type # "MOTOR_ENABLED" =>
              /\ IsPending(type)' => IsPending(type)
              /\ Once(type) => Once(type)'
              /\ Once(type) /\ Dispatching(type) => ~IsPending(type)'
  BY <1>1, <1>6, <1>7, TrackedAreTold
<1>9. ~IsPending("VOLTAGE_REGULATOR_ENABLED")' /\ Once("VOLTAGE_REGULATOR_ENABLED")'
  BY <1>1, <1>8 DEF PhaseInv, TellsOnce, Tracked
<1>10. AwaitsMotor'
  BY <1>2, <1>3, <1>5, <1>9 DEF AwaitsMotor, Obeys
<1>11. Alone' /\ TellsOnce'
  BY <1>1, <1>2, <1>3, <1>5, <1>8, <1>9 DEF PhaseInv, Alone, TellsOnce, Tracked
<1> QED BY <1>10, <1>11 DEF PhaseInv

LEMMA VregDisabledKeepsPhaseInv ==
    ASSUME BaseInv, PhaseInv, VregDisabled
    PROVE  PhaseInv'
<1>1. /\ QueueOK /\ Handling /\ ~waking /\ ~waking' /\ UNCHANGED due
      /\ Dispatching("VOLTAGE_REGULATOR_DISABLED") /\ IsPending("VOLTAGE_REGULATOR_DISABLED")
      /\ \A type : Dispatching(type) => type = "VOLTAGE_REGULATOR_DISABLED"
  BY HandlersFindDispatch DEF Dispatch, VregDisabled
<1>2. ~fullyEnabled /\ ~Moves
  BY <1>1 DEF PhaseInv, TellsOnce, Moves, BaseInv, SupplyInv, RunInv
<1>3. ~modulesOn'
      /\ UNCHANGED <<vregVars, motorEnableCount, isFullyEnabled, fullyEnabled, current,
                     transition, wanted, isScreenOn>>
  BY DEF VregDisabled, onVoltageRegulatorDisabled, enableVars, vregVars, doorVars, uiVars
<1>4. Publishes(Calm)
  BY CalmEvents, PublishingCalm DEF VregDisabled
<1>5. \A type \in Tracked :
          /\ IsPending(type)' => IsPending(type)
          /\ Once(type) => Once(type)'
          /\ IsPending(type) /\ type # "VOLTAGE_REGULATOR_DISABLED" => IsPending(type)'
  BY <1>1, <1>4, CalmTells
<1>6. AtRest => AtRest'
  BY <1>3, <1>5 DEF AtRest, NothingToCome, Tracked
<1>7. AwaitsMotor => AwaitsMotor'
  <2>1. ASSUME AwaitsMotor PROVE NothingToCome /\ ~fullyEnabled
    BY <1>2, <2>1 DEF AwaitsMotor, BaseInv, SupplyInv, RunInv
  <2> QED BY <1>3, <1>5, <2>1 DEF AwaitsMotor, NothingToCome, Tracked, Obeys
<1>8. Alone' /\ TellsOnce'
  BY <1>1, <1>2, <1>3, <1>5 DEF PhaseInv, Alone, TellsOnce, Tracked
<1> QED BY <1>2, <1>6, <1>7, <1>8 DEF PhaseInv

\* The motor is started for the movement that the door's new state is.
Begins ==
    /\ \E count \in Int \ {0} :
           /\ motorOn(count)
           /\ current' = "Opening" => count = Height
           /\ current' = "Closing" => count = -Height
    /\ current' \in MovingAlone
    /\ UNCHANGED <<enableVars, modulesOn>>
    /\ Publishes(Calm)

LEMMA MotorIsStarted ==
    ASSUME BaseInv, ~Running, modulesOn, NEW count \in Int \ {0}, motorOn(count)
    PROVE  /\ steering' # "off" /\ motorRunningState' = "STARTING"
           /\ startedCount' = count /\ CCPR1' = Magnitude(count)
           /\ C1IF' = FALSE /\ TMR1IF' = FALSE /\ CWG1IF' = FALSE
<1>1. Startable(count)
  BY DEF Startable, BaseInv, WatchInv, RunsAreScheduled, On, Running
<1> QED BY <1>1 DEF motorOn

LEMMA BeginningKeepsPhaseInv ==
    ASSUME BaseInv, PhaseInv, Begins, Dispatch,
           \/ AwaitsMotor /\ isFullyEnabled /\ modulesOn /\ Dispatching("MOTOR_ENABLED")
           \/ Moves /\ Dispatching("MOTOR_STOPPED") /\ ~Running,
           Obeys', UNCHANGED isScreenOn
    PROVE  PhaseInv'
<1>1. QueueOK /\ Handling /\ ~waking /\ ~waking' /\ UNCHANGED due
  BY HandlersFindDispatch
<1>2. \A type \in Tracked : /\ IsPending(type)' => IsPending(type)
                            /\ Once(type) => Once(type)'
                            /\ Once(type) /\ Dispatching(type) => ~IsPending(type)'
  BY <1>1, CalmTells DEF Begins
<1>3. UNCHANGED <<motorEnableCount, isFullyEnabled, fullyEnabled>>
  BY EnableVarsAreKept DEF Begins
<1>4. /\ motorEnableCount = 1 /\ isFullyEnabled /\ modulesOn /\ ~Running
      /\ ~IsPending("VOLTAGE_REGULATOR_ENABLED")
      /\ ~IsPending("MOTOR_ENABLED") \/ Dispatching("MOTOR_ENABLED")
      /\ ~StopPending \/ Dispatching("MOTOR_STOPPED")
  BY SupplyIsTheMotors
  DEF AwaitsMotor, Moves, NothingToCome, BaseInv, SupplyInv, RunInv
<1>5. NothingToCome' /\ ~StopPending'
  BY <1>2, <1>4
  DEF NothingToCome, StopPending, Tracked, PhaseInv, TellsOnce, BaseInv, SupplyInv, RunInv
<1>6. Running' /\ AsAsked'
  BY <1>4, MotorIsStarted DEF Begins, Running, AsAsked
<1>7. Moves'
  BY <1>3, <1>4, <1>5, <1>6 DEF Begins, Moves
<1>8. Alone' /\ TellsOnce'
  BY <1>1, <1>2, <1>3 DEF PhaseInv, Alone, TellsOnce, Tracked
<1> QED BY <1>7, <1>8 DEF PhaseInv

LEMMA MotorEnabledBegins ==
    ASSUME BaseInv, PhaseInv, MotorEnabled
    PROVE  /\ AwaitsMotor /\ isFullyEnabled /\ modulesOn
           /\ Begins
           /\ UNCHANGED <<transition, aborted, wanted, isScreenOn>>
<1>1. IsPending("MOTOR_ENABLED")
  BY HandlersFindDispatch DEF Dispatch, MotorEnabled
<1>2. AwaitsMotor /\ isFullyEnabled /\ modulesOn
  BY <1>1 DEF PhaseInv, AtRest, AwaitsMotor, Moves, NothingToCome
<1>3. /\ current \in WaitingAlone /\ UNCHANGED enableVars /\ isFullyEnabled'
      /\ UNCHANGED <<transition, aborted, wanted, isScreenOn>>
  BY <1>2 DEF AwaitsMotor, MotorEnabled, doorOnMotorEnabled, enableVars, uiVars
<1>4. StartEvents \in Seq(Calm) /\ (Publish(StartEvents) => Publishes(Calm))
  BY CalmEvents, PublishingCalm
<1>5. /\ Height \in Int \ {0} /\ -Height \in Int \ {0} /\ FindBottomLowering \in Int \ {0}
  BY DoorAssumption
<1>6. CASE current = "Opening_WaitingForEnabledMotor"
  <2>1. /\ doorStartOpening("Opening", "Unknown") /\ Publish(StartEvents)
    BY <1>6 DEF MotorEnabled, doorOnMotorEnabled, Waiting
  <2>2. motorOn(Height) /\ current' = "Opening" /\ UNCHANGED modulesOn
    BY <1>3, <2>1 DEF doorStartOpening, Start
  <2> QED BY <1>2, <1>3, <1>4, <1>5, <2>1, <2>2 DEF Begins, MovingAlone
<1>7. CASE current = "Closing_WaitingForEnabledMotor"
  <2>1. /\ doorStartClosing("Closing", "Unknown") /\ Publish(StartEvents)
    BY <1>7 DEF MotorEnabled, doorOnMotorEnabled, Waiting
  <2>2. motorOn(-Height) /\ current' = "Closing" /\ UNCHANGED modulesOn
    BY <1>3, <2>1 DEF doorStartClosing, Start
  <2> QED BY <1>2, <1>3, <1>4, <1>5, <2>1, <2>2 DEF Begins, MovingAlone
<1>8. CASE current = "FindBottom_WaitingForEnabledMotor"
  <2>1. /\ doorStartFindingBottom("FindBottom", "Unknown") /\ Publish(StartEvents)
    BY <1>8 DEF MotorEnabled, doorOnMotorEnabled, Waiting
  <2>2. motorOn(FindBottomLowering) /\ current' = "FindBottom" /\ UNCHANGED modulesOn
    BY <1>3, <2>1 DEF doorStartFindingBottom, Start
  <2> QED BY <1>2, <1>3, <1>4, <1>5, <2>1, <2>2 DEF Begins, MovingAlone
<1> QED BY <1>3, <1>6, <1>7, <1>8 DEF WaitingAlone

\* The movement is over, and the motor is given up.
Ends ==
    /\ motorDisable
    /\ current' \in {"Fault", "Opened", "Closed"}
    /\ UNCHANGED driveVars
    /\ Publishes(Calm \cup {"VOLTAGE_REGULATOR_DISABLED"})
    /\ motorEnableCount = 1 /\ vregEnableCount = 1 /\ fullyEnabled
           => IsPending("VOLTAGE_REGULATOR_DISABLED")'

LEMMA DisablingTells ==
    ASSUME QueueOK, Handling, NEW event \in Calm,
           \/ Publish(motorDisableEvents \o <<event>>)
           \/ Publish(<<event>> \o motorDisableEvents)
    PROVE  /\ Publishes(Calm \cup {"VOLTAGE_REGULATOR_DISABLED"})
           /\ motorEnableCount = 1 /\ vregEnableCount = 1 /\ fullyEnabled
                  => IsPending("VOLTAGE_REGULATOR_DISABLED")'
<1> DEFINE types == Calm \cup {"VOLTAGE_REGULATOR_DISABLED"}
<1>1. <<event>> \in Seq(types) /\ types \subseteq Plain \cup Telling
  BY DEF Calm, Plain, Telling
<1>2. motorDisableEvents \in Seq(types)
  <2> DEFINE both == <<"MOTOR_DISABLED">> \o <<"VOLTAGE_REGULATOR_DISABLED">>
             one == <<"MOTOR_DISABLED">> \o <<>>
             none == <<>>
  <2>1. both \in Seq(types) /\ one \in Seq(types) /\ none \in Seq(types)
    BY DEF Calm
  <2>2. motorDisableEvents \in {both, one, none}
    BY DEF motorDisableEvents, voltageRegulatorDisableEvents
  <2> HIDE DEF both, one, none
  <2> QED BY <2>1, <2>2
<1> HIDE DEF types
<1>3. motorDisableEvents \o <<event>> \in Seq(types) /\ <<event>> \o motorDisableEvents \in Seq(types)
  BY <1>1, <1>2
<1>4. Publishes(types)
  BY <1>3 DEF Publishes
<1>5. ASSUME motorEnableCount = 1, vregEnableCount = 1, fullyEnabled
      PROVE  IsPending("VOLTAGE_REGULATOR_DISABLED")'
  <2> DEFINE before == motorDisableEvents \o <<event>>
             after == <<event>> \o motorDisableEvents
  <2>1. motorDisableEvents = <<"MOTOR_DISABLED">> \o <<"VOLTAGE_REGULATOR_DISABLED">>
    BY <1>5 DEF motorDisableEvents, voltageRegulatorDisableEvents
  <2>2. /\ before \in Seq(Plain \cup Telling) /\ after \in Seq(Plain \cup Telling)
        /\ Publish(before) \/ Publish(after)
    BY <1>1, <1>3
  <2>3. 2 \in 1 .. Len(before) /\ before[2] = "VOLTAGE_REGULATOR_DISABLED"
    BY <2>1
  <2>4. 3 \in 1 .. Len(after) /\ after[3] = "VOLTAGE_REGULATOR_DISABLED"
    BY <2>1
  <2> HIDE DEF before, after
  <2>5. \A events \in Seq(Plain \cup Telling) :
            \A k \in 1 .. Len(events) :
                Publish(events) /\ events[k] = "VOLTAGE_REGULATOR_DISABLED"
                    => IsPending("VOLTAGE_REGULATOR_DISABLED")'
    BY PublishedArePending
  <2> QED BY <2>2, <2>3, <2>4, <2>5
<1> QED BY <1>4, <1>5 DEF types

LEMMA MotorStoppedEndsOrBegins ==
    ASSUME BaseInv, PhaseInv, MotorStopped
    PROVE  /\ Moves /\ ~Running /\ UNCHANGED <<wanted, isScreenOn>>
           /\ \/ Ends
              \/ Begins /\ UNCHANGED <<transition, aborted>>
           /\ current' = "Opened" => transition # "Close" \/ current # "Opening"
           /\ current' = "Opened" => current = "Opening" /\ ~Faulted
           /\ current' = "Closed" => transition # "Open" /\ current \in {"Closing", "FindBottom"}
           /\ current = "Closing" /\ current' = "Closed" => ~Faulted
           /\ current' \notin {"Opened", "Closed", "Unknown"} \cup Moving => current' = "Fault"
           /\ \/ UNCHANGED aborted
              \/ \E fault \in {"jammed", "reversed", "lineTooLong", "lineSnapped", "none"} :
                     aborted' = Diagnosis(fault)
<1>1. QueueOK /\ Handling /\ IsPending("MOTOR_STOPPED")
  BY HandlersFindDispatch DEF Dispatch, MotorStopped
<1>2. Moves /\ ~Running
  BY <1>1, SupplyIsTheMotors DEF PhaseInv, Moves, StopPending
<1>3. /\ doorOnMotorStopped /\ UNCHANGED <<wanted, isScreenOn>>
      /\ current \in MovingAlone /\ isFullyEnabled
  BY <1>2 DEF MotorStopped, Moves, uiVars
<1> DEFINE Told == \/ UNCHANGED aborted
                   \/ \E fault \in {"jammed", "reversed", "lineTooLong", "lineSnapped", "none"} :
                          aborted' = Diagnosis(fault)
<1>4. ASSUME NEW fault \in {"jammed", "reversed", "lineTooLong", "lineSnapped", "none"},
             MotorFaulted(fault)
      PROVE  Ends /\ current' = "Fault" /\ Told
  <2>1. "DOOR_ABORTED" \in Calm
    BY DEF Calm
  <2> QED BY <1>1, <1>4, <2>1, DisablingTells DEF MotorFaulted, Ends
<1>5. ASSUME NEW state \in {"Opened", "Closed"}, NEW event \in {"DOOR_OPENED", "DOOR_CLOSED"},
             ArrivedAt(state, event)
      PROVE  Ends /\ current' = state /\ Told
  <2>1. event \in Calm
    BY DEF Calm
  <2> QED BY <1>1, <1>5, <2>1, DisablingTells DEF ArrivedAt, Ends
<1>6. \A fault \in {"jammed", "reversed"} :
          CurrentLimited(fault) \in {"jammed", "reversed", "lineTooLong", "lineSnapped", "none"}
  BY DEF CurrentLimited
<1>7. /\ Height \in Int \ {0} /\ -Height \in Int \ {0}
      /\ FindBottomLowering \in Int \ {0} /\ FindBottomRaising \in Int \ {0}
  BY DoorAssumption
<1>8. \A event \in Calm : Publish(<<event>> \o StartEvents) => Publishes(Calm)
  BY CalmEvents, PublishingCalm
<1>9. "DOOR_OPENED" \in Calm /\ "DOOR_CLOSED" \in Calm
  BY DEF Calm
<1>10. ASSUME UNCHANGED enableVars, doorStartOpening("Opening", "Opening"),
              Publishes(Calm)
       PROVE  Begins /\ current' = "Opening"
  <2>1. isFullyEnabled'
    BY <1>3, <1>10, EnableVarsAreKept
  <2>2. motorOn(Height) /\ current' = "Opening" /\ UNCHANGED modulesOn
    BY <1>10, <2>1 DEF doorStartOpening, Start
  <2> QED BY <1>7, <1>10, <2>2 DEF Begins, MovingAlone
<1>11. ASSUME UNCHANGED enableVars, doorStartClosing("Closing", "Closing"),
              Publishes(Calm)
       PROVE  Begins /\ current' = "Closing"
  <2>1. isFullyEnabled'
    BY <1>3, <1>11, EnableVarsAreKept
  <2>2. motorOn(-Height) /\ current' = "Closing" /\ UNCHANGED modulesOn
    BY <1>11, <2>1 DEF doorStartClosing, Start
  <2> QED BY <1>7, <1>11, <2>2 DEF Begins, MovingAlone
<1>12. CASE current = "Opening"
  <2>1. OpeningStopped
    BY <1>3, <1>12 DEF doorOnMotorStopped, Waiting
  <2>2. CASE Faulted /\ MotorFaulted(CurrentLimited("jammed"))
    BY <1>2, <1>3, <1>4, <1>6, <1>12, <2>2
  <2>3. CASE ~Faulted /\ transition # "Close" /\ ArrivedAt("Opened", "DOOR_OPENED")
    BY <1>2, <1>3, <1>5, <1>12, <2>3
  <2>4. CASE /\ ~Faulted /\ transition = "Close"
             /\ UNCHANGED enableVars
             /\ doorStartClosing("Closing", "Closing")
             /\ Publish(<<"DOOR_OPENED">> \o StartEvents)
             /\ UNCHANGED <<transition, aborted, calibrating>>
    BY <1>2, <1>3, <1>8, <1>9, <1>11, <1>12, <2>4 DEF Moving
  <2> QED BY <2>1, <2>2, <2>3, <2>4 DEF OpeningStopped
<1>13. CASE current = "Closing"
  <2>1. ClosingStopped
    BY <1>3, <1>13 DEF doorOnMotorStopped, Waiting
  <2>2. CASE Faulted /\ MotorFaulted(CurrentLimited("reversed"))
    BY <1>2, <1>3, <1>4, <1>6, <1>13, <2>2
  <2>3. CASE ~Faulted /\ transition # "Open" /\ ArrivedAt("Closed", "DOOR_CLOSED")
    BY <1>2, <1>3, <1>5, <1>13, <2>3
  <2>4. CASE /\ ~Faulted /\ transition = "Open"
             /\ UNCHANGED enableVars
             /\ doorStartOpening("Opening", "Opening")
             /\ Publish(<<"DOOR_CLOSED">> \o StartEvents)
             /\ UNCHANGED <<transition, aborted, calibrating>>
    BY <1>2, <1>3, <1>8, <1>9, <1>10, <1>13, <2>4 DEF Moving
  <2> QED BY <2>1, <2>2, <2>3, <2>4 DEF ClosingStopped
<1>14. CASE current = "FindBottom"
  <2>1. FindBottomStopped
    BY <1>3, <1>14 DEF doorOnMotorStopped, Waiting
  <2>2. ASSUME NEW fault \in {"jammed", "reversed", "lineTooLong", "lineSnapped", "none"},
               MotorFaulted(fault)
        PROVE  Ends /\ current' = "Fault" /\ Told
    BY <1>4, <2>2
  <2>3. CASE \E fault \in {"jammed", "reversed", "lineTooLong", "lineSnapped", "none"} :
                 MotorFaulted(fault)
    BY <1>2, <1>3, <1>14, <2>2, <2>3
  <2>4. ASSUME NEW count \in {FindBottomLowering, FindBottomRaising}, NEW iterations,
               TriesAgain(count, iterations)
        PROVE  Begins /\ current' = "FindBottom" /\ UNCHANGED <<transition, aborted>>
    <3>1. Publishes(Calm)
      BY <2>4, CalmEvents, PublishingCalm DEF TriesAgain
    <3>2. UNCHANGED <<enableVars, modulesOn, current, transition, aborted>> /\ motorOn(count)
      BY <2>4 DEF TriesAgain
    <3> QED BY <1>7, <1>14, <3>1, <3>2 DEF Begins, MovingAlone
  <2>5. CASE \E count \in {FindBottomLowering, FindBottomRaising} : \E iterations :
                 TriesAgain(count, iterations)
    BY <1>2, <1>3, <1>14, <2>4, <2>5 DEF Moving
  <2>6. CASE FoundBottom
    <3>1. CASE /\ transition # "Open"
               /\ motorDisable
               /\ current' = "Closed"
               /\ transition' = "Unchanged"
               /\ Publish(<<"DOOR_CLOSED">> \o motorDisableEvents)
               /\ UNCHANGED <<driveVars, findBottomIterations, aborted, calibrating>>
      <4>1. Ends
        BY <1>1, <1>9, <3>1, DisablingTells DEF Ends
      <4> QED BY <1>2, <1>3, <1>14, <3>1, <4>1
    <3>2. CASE /\ transition = "Open"
               /\ UNCHANGED enableVars
               /\ doorStartOpening("Opening", "Opening")
               /\ Publish(<<"DOOR_CLOSED">> \o StartEvents)
               /\ UNCHANGED <<transition, aborted, calibrating>>
      BY <1>2, <1>3, <1>8, <1>9, <1>10, <1>14, <3>2 DEF Moving
    <3> QED BY <2>6, <3>1, <3>2 DEF FoundBottom
  <2> QED BY <1>6, <2>1, <2>3, <2>5, <2>6 DEF FindBottomStopped
<1> QED BY <1>3, <1>12, <1>13, <1>14 DEF MovingAlone

LEMMA EndsKeepsPhaseInv ==
    ASSUME BaseInv, PhaseInv, Moves, Ends, Dispatch, Dispatching("MOTOR_STOPPED"),
           UNCHANGED isScreenOn
    PROVE  PhaseInv'
<1>1. /\ QueueOK /\ Handling /\ ~waking /\ ~waking' /\ UNCHANGED due
      /\ \A type : Dispatching(type) => type = "MOTOR_STOPPED"
  BY HandlersFindDispatch
<1>2. motorEnableCount = 1 /\ vregEnableCount = 1 /\ fullyEnabled /\ modulesOn /\ NothingToCome
  BY SupplyIsTheMotors DEF Moves, BaseInv, SupplyInv, RunInv
<1>3. motorEnableCount' = 0 /\ ~fullyEnabled'
  <2>1. motorEnableCount' = 0 /\ voltageRegulatorDisable
    BY <1>2 DEF Ends, motorDisable
  <2>2. fullyEnabled' = FALSE
    BY <1>2, <2>1 DEF voltageRegulatorDisable, LastClient
  <2> QED BY <2>1, <2>2
<1> DEFINE types == {"VOLTAGE_REGULATOR_DISABLED"}
<1>4. /\ types \in SUBSET Tracked /\ Publishes(Calm \cup types)
      /\ \A type \in Tracked : type # "VOLTAGE_REGULATOR_DISABLED" => type \in Tracked \ types
  BY DEF Tracked, Ends
<1> HIDE DEF types
<1>5. \A type \in Tracked :
          type # "VOLTAGE_REGULATOR_DISABLED" =>
              /\ IsPending(type)' => IsPending(type)
              /\ Once(type) => Once(type)'
  BY <1>1, <1>4, TrackedAreTold
<1>6. AtRest'
  <2>1. current' \in Resting /\ IsPending("VOLTAGE_REGULATOR_DISABLED")'
    BY <1>2 DEF Ends, Resting
  <2> QED BY <1>2, <1>3, <1>5, <2>1 DEF AtRest, NothingToCome, Tracked
<1>7. Alone' /\ TellsOnce'
  BY <1>1, <1>3, <1>5 DEF PhaseInv, Alone, TellsOnce, Tracked
<1> QED BY <1>6, <1>7 DEF PhaseInv

LEMMA OthersKeepPhaseInv ==
    ASSUME BaseInv, PhaseInv,
           TimeChanged \/ DoorClosedEvent \/ DoorAbortedEvent \/ Unheard \/ DoorCalibratedEvent
    PROVE  PhaseInv' /\ UNCHANGED <<enableVars, driveVars, current, aborted, wanted>>
<1>1. /\ QueueOK /\ Handling /\ ~waking /\ ~waking' /\ UNCHANGED due
      /\ \A type \in Tracked : ~Dispatching(type)
  <2>1. Dispatch
    BY DEF Dispatch
  <2>2. \A type \in Tracked : ~Dispatching(type)
    BY DEF TimeChanged, DoorClosedEvent, DoorAbortedEvent, Unheard, DoorCalibratedEvent,
           Dispatching, Tracked
  <2> QED BY <2>1, <2>2, HandlersFindDispatch
<1>2. Publishes(Calm)
  <2>1. CASE DoorClosedEvent
    <3> DEFINE told == <<"DOOR_CALIBRATED">>
               none == <<>>
    <3>1. told \in Seq(Calm) /\ none \in Seq(Calm)
      BY CalmEvents DEF Calm
    <3>2. Publish(told) \/ Publish(none)
      BY <2>1 DEF DoorClosedEvent, onDoorClosedForCalibration
    <3> QED BY <3>1, <3>2 DEF Publishes
  <2>2. CASE TimeChanged
    <3> DEFINE open == <<"DOOR_OPEN_SCHEDULE_ACTIONED">>
               close == <<"DOOR_CLOSE_SCHEDULE_ACTIONED">>
               none == <<>>
    <3>1. open \in Seq(Calm) /\ close \in Seq(Calm) /\ none \in Seq(Calm)
      BY CalmEvents DEF Calm
    <3>2. \E first, second \in {none, open, close} : Publish(first \o second)
      BY <2>2 DEF TimeChanged
    <3> HIDE DEF open, close, none
    <3> QED BY <3>1, <3>2, PublishingCalm
  <2>3. CASE DoorAbortedEvent \/ Unheard \/ DoorCalibratedEvent
    BY <2>3, CalmEvents, PublishingCalm
    DEF DoorAbortedEvent, onDoorAbortedForCalibration, Unheard, DoorCalibratedEvent
  <2> QED BY <2>1, <2>2, <2>3
<1>3. UNCHANGED <<enableVars, driveVars, current, transition, aborted, wanted, isScreenOn>>
  BY DEF TimeChanged, DoorClosedEvent, onDoorClosedForCalibration, DoorAbortedEvent,
         onDoorAbortedForCalibration, Unheard, DoorCalibratedEvent, doorVars, uiVars
<1>4. Obeys => Obeys'
  BY <1>3 DEF Obeys
<1> QED BY <1>1, <1>2, <1>3, <1>4, CalmKeepsPhaseInv

\* Nobody presses or releases a button.
LEMMA NobodyPresses ==
    ASSUME BaseInv, PhaseInv
    PROVE  /\ ~ButtonsPressedWhenScreenIsOff /\ ~ButtonsPressedWhenScreenIsOn /\ ~ButtonsReleased
           /\ ~ScreenTimesOut /\ ~onButtonsStoppedBouncing
<1>1. ~Dispatching("BUTTONS_PRESSED") /\ ~Dispatching("BUTTONS_RELEASED")
  BY DispatchedIsPending DEF BaseInv, SupplyInv, PhaseInv, Alone
<1> QED BY <1>1 DEF ButtonsPressedWhenScreenIsOff, ButtonsPressedWhenScreenIsOn,
                    ButtonsReleased, ScreenTimesOut, onButtonsStoppedBouncing, Calling,
                    PhaseInv, Alone

LEMMA DispatchKeepsPhaseInv ==
    ASSUME BaseInv, PhaseInv, Dispatch
    PROVE  PhaseInv'
<1>1. CASE MotorEnabled
  <2>1. Dispatching("MOTOR_ENABLED")
    BY <1>1 DEF MotorEnabled
  <2>2. /\ AwaitsMotor /\ isFullyEnabled /\ modulesOn /\ Begins
        /\ UNCHANGED <<transition, wanted, isScreenOn>>
    BY <1>1, MotorEnabledBegins
  <2>3. Obeys'
    BY <2>2 DEF AwaitsMotor, Obeys
  <2> QED BY <2>1, <2>2, <2>3, BeginningKeepsPhaseInv
<1>2. CASE MotorStopped
  <2>1. Dispatching("MOTOR_STOPPED")
    BY <1>2 DEF MotorStopped
  <2>2. /\ Moves /\ ~Running /\ UNCHANGED <<wanted, isScreenOn>>
        /\ \/ Ends
           \/ Begins /\ UNCHANGED <<transition, aborted>>
    BY <1>2, MotorStoppedEndsOrBegins
  <2>3. UNCHANGED transition => Obeys'
    BY <2>2 DEF Moves, Obeys
  <2> QED BY <2>1, <2>2, <2>3, EndsKeepsPhaseInv, BeginningKeepsPhaseInv
<1> QED BY <1>1, <1>2, NobodyPresses, OthersKeepPhaseInv, SchedulesKeepPhaseInv,
           VregEnabledKeepsPhaseInv, VregDisabledKeepsPhaseInv DEF Dispatch
-----------------------------------------------------------------------------
(***************************************************************************)
(* The callbacks, the wake-ups and the winch.                              *)
(***************************************************************************)
\* A step that keeps the door, what is enabled and what is tracked.
LEMMA QuietKeepsPhaseInv ==
    ASSUME PhaseInv,
           \A type \in Tracked : /\ IsPending(type)' <=> IsPending(type)
                                 /\ Once(type)' <=> Once(type),
           UNCHANGED <<motorEnableCount, isFullyEnabled, fullyEnabled, modulesOn, current,
                       transition, wanted, isScreenOn, startedCount>>,
           Running' <=> Running,
           "screen" \in due' => "screen" \in due,
           "buttons" \in due' => "buttons" \in due,
           waking' => waking \/ ~IsPending("VOLTAGE_REGULATOR_DISABLED")
    PROVE  PhaseInv'
<1>1. Alone' /\ TellsOnce'
  BY DEF PhaseInv, Alone, TellsOnce, Tracked
<1>2. AtRest => AtRest'
  BY DEF AtRest, NothingToCome, Tracked
<1>3. AwaitsMotor => AwaitsMotor'
  BY DEF AwaitsMotor, NothingToCome, Tracked, Obeys
<1>4. Moves => Moves'
  BY DEF Moves, NothingToCome, Tracked, Obeys, AsAsked, StopPending
<1> QED BY <1>1, <1>2, <1>3, <1>4 DEF PhaseInv

LEMMA RegulatedOrRampKeepsPhaseInv ==
    ASSUME BaseInv, PhaseInv, RegulatedStabilises \/ Ramp
    PROVE  PhaseInv'
<1>1. waking /\ waking' /\ Handling /\ due' \subseteq due
  BY CallbackHandles DEF BaseInv, Callback
<1>2. \A type : /\ IsPending(type)' <=> IsPending(type)
                /\ Once(type)' <=> Once(type)
  BY <1>1, NonePublished DEF BaseInv, RegulatedStabilises, Ramp
<1>3. /\ UNCHANGED <<motorEnableCount, isFullyEnabled, fullyEnabled, modulesOn, current,
                     transition, wanted, isScreenOn, startedCount>>
      /\ Running' <=> Running
  BY DEF RegulatedStabilises, Ramp, onRegulatedVoltageRailStabilised, incrementPwmDutyCycle,
         enableVars, vregVars, driveVars, runVars, doorVars, uiVars, Running
<1> QED BY <1>1, <1>2, <1>3, QuietKeepsPhaseInv

LEMMA McuKeepsPhaseInv ==
    ASSUME BaseInv, PhaseInv, McuStabilises
    PROVE  PhaseInv'
<1>1. /\ waking /\ waking' /\ Handling /\ due' \subseteq due /\ "mcu" \in due
      /\ QueueOK /\ ~(\E type : Dispatching(type))
  BY CallbackHandles DEF BaseInv, SupplyInv, Callback, McuStabilises, Calling, Dispatching
<1>2. vregEnableCount # 0 /\ ~fullyEnabled /\ ~isFullyEnabled
  BY <1>1 DEF BaseInv, SupplyInv, WaitsInv, DueInv, RunInv
<1>3. AwaitsMotor /\ NothingToCome
  BY <1>2, SupplyIsTheMotors DEF PhaseInv, AtRest, AwaitsMotor, Moves
<1>4. /\ fullyEnabled'
      /\ UNCHANGED <<motorEnableCount, current, transition, wanted, isScreenOn>>
      /\ ~isFullyEnabled'
  <2>1. UNCHANGED <<motorEnableCount, isFullyEnabled, current, transition, wanted, isScreenOn>>
    BY DEF McuStabilises, doorVars, uiVars
  <2>2. fullyEnabled'
    BY <1>2 DEF McuStabilises, onMcuVoltageRailStabilised
  <2> QED BY <1>2, <2>1, <2>2
<1> DEFINE events == <<"VOLTAGE_REGULATOR_ENABLED">>
           types == {"VOLTAGE_REGULATOR_ENABLED"}
<1>5. Publish(events)
  BY <1>2 DEF McuStabilises, onMcuVoltageRailStabilisedEvents
<1>6. IsPending("VOLTAGE_REGULATOR_ENABLED")' /\ Once("VOLTAGE_REGULATOR_ENABLED")'
  BY <1>1, <1>3, <1>5, PublishedOne DEF Telling, NothingToCome
<1>7. /\ events \in Seq(Calm \cup types) /\ types \in SUBSET Tracked
      /\ \A type \in Tracked : type # "VOLTAGE_REGULATOR_ENABLED" => type \in Tracked \ types
  BY DEF Tracked
<1> HIDE DEF events, types
<1>8. Publishes(Calm \cup types)
  BY <1>5, <1>7 DEF Publishes
<1>9. \A type \in Tracked :
          type # "VOLTAGE_REGULATOR_ENABLED" =>
              /\ IsPending(type)' => IsPending(type)
              /\ Once(type) => Once(type)'
  BY <1>1, <1>7, <1>8, TrackedAreTold
<1>10. AwaitsMotor'
  BY <1>3, <1>4, <1>6, <1>9 DEF AwaitsMotor, NothingToCome, Tracked, Obeys
<1>11. Alone' /\ TellsOnce'
  BY <1>1, <1>4, <1>6, <1>9 DEF PhaseInv, Alone, TellsOnce, Tracked
<1> QED BY <1>10, <1>11 DEF PhaseInv

LEMMA MonitorKeepsPhaseInv ==
    ASSUME BaseInv, PhaseInv, Monitor
    PROVE  PhaseInv'
<1>1. /\ waking /\ waking' /\ Handling /\ due' \subseteq due /\ "monitor" \in due
      /\ QueueOK /\ ~StopPending
  BY CallbackHandles DEF BaseInv, SupplyInv, DueInv, Callback, Monitor, Calling
<1>2. UNCHANGED <<motorEnableCount, isFullyEnabled, fullyEnabled, modulesOn, current,
                  transition, wanted, isScreenOn, startedCount>>
  BY DEF Monitor, motorRunningStateMonitor, enableVars, vregVars, doorVars, uiVars
<1>3. CASE ~HasStopped
  <2>1. Publish(<<>>)
    BY <1>3 DEF Monitor, motorRunningStateMonitorEvents
  <2>2. \A type : /\ IsPending(type)' <=> IsPending(type)
                  /\ Once(type)' <=> Once(type)
    BY <1>1, <2>1, NonePublished DEF BaseInv
  <2>3. Running' <=> Running
    BY <1>3 DEF Monitor, motorRunningStateMonitor, Running
  <2> QED BY <1>1, <1>2, <2>2, <2>3, QuietKeepsPhaseInv
<1>4. CASE HasStopped
  <2> DEFINE events == <<"MOTOR_STOPPED">>
             types == {"MOTOR_STOPPED"}
  <2>1. Publish(events) /\ Running /\ ~Running'
    BY <1>4 DEF Monitor, motorRunningStateMonitorEvents, motorRunningStateMonitor, HasStopped,
                IsStatic, Running
  <2>2. Moves
    BY <2>1, SupplyIsTheMotors DEF PhaseInv
  <2>3. StopPending'
    BY <1>1, <2>1, PublishedOne DEF StopPending, Telling
  <2>4. /\ events \in Seq(Calm \cup types) /\ types \in SUBSET Tracked
        /\ \A type \in Tracked : type # "MOTOR_STOPPED" => type \in Tracked \ types
    BY DEF Tracked
  <2> HIDE DEF events, types
  <2>5. Publishes(Calm \cup types)
    BY <2>1, <2>4 DEF Publishes
  <2>6. \A type \in Tracked :
            type # "MOTOR_STOPPED" => /\ IsPending(type)' => IsPending(type)
                                      /\ Once(type) => Once(type)'
    BY <1>1, <2>4, <2>5, TrackedAreTold
  <2>7. Moves'
    BY <1>2, <2>1, <2>2, <2>3, <2>6 DEF Moves, NothingToCome, Tracked, Obeys, AsAsked
  <2>8. Alone' /\ TellsOnce'
    BY <1>1, <1>2, <2>6 DEF PhaseInv, Alone, TellsOnce, Tracked
  <2> QED BY <2>7, <2>8 DEF PhaseInv
<1> QED BY <1>3, <1>4

LEMMA WakeUpKeepsPhaseInv ==
    ASSUME NobodyIsThere, BaseInv, PhaseInv, WakeUp
    PROVE  PhaseInv'
<1>1. /\ queue = <<>> /\ queue' \in {<<>>, <<"TIME_CHANGED">>} /\ due' \in SUBSET Pending
      /\ UNCHANGED <<motorEnableCount, isFullyEnabled, fullyEnabled, modulesOn, current,
                     transition, wanted, isScreenOn, startedCount>>
      /\ Running' <=> Running
  BY DEF WakeUp, Wake, enableVars, vregVars, driveVars, runVars, doorVars, uiVars, Running
<1>2. "screen" \notin due' /\ "buttons" \notin due'
  BY <1>1 DEF Pending, VregPending, MotorPending, ScreenMayTimeOut, Attended, NobodyIsThere,
              PhaseInv, Alone
<1>3. \A type : ~IsPending(type) /\ Once(type)
  BY <1>1 DEF IsPending, Once
<1>4. \A type \in Tracked : ~IsPending(type)' /\ Once(type)'
  <2>1. CASE queue' = <<>>
    BY <2>1 DEF IsPending, Once
  <2>2. CASE queue' = <<"TIME_CHANGED">>
    <3>1. Len(queue') = 1 /\ queue'[1] = "TIME_CHANGED" /\ "TIME_CHANGED" \notin Tracked
      BY <2>2 DEF Tracked
    <3> QED BY <3>1 DEF IsPending, Once
  <2> QED BY <1>1, <2>1, <2>2
<1> QED BY <1>1, <1>2, <1>3, <1>4, QuietKeepsPhaseInv

LEMMA RestKeepsPhaseInv ==
    ASSUME BaseInv, PhaseInv, WokenEnds \/ Winch \/ UNCHANGED vars
    PROVE  PhaseInv'
<1>1. /\ UNCHANGED <<queue, due, motorEnableCount, isFullyEnabled, fullyEnabled, modulesOn,
                     current, transition, wanted, isScreenOn, startedCount>>
      /\ Running' <=> Running
      /\ waking' => waking
  BY DEF WokenEnds, Winch, onWokenFromSleep, motorOff, EncoderPulse, CurrentTrip,
         EncoderOverflow, vars, loopVars, enableVars, vregVars, driveVars, runVars, doorVars,
         uiVars, Running
<1>2. \A type : /\ IsPending(type)' <=> IsPending(type)
                /\ Once(type)' <=> Once(type)
  BY <1>1 DEF IsPending, Once
<1> QED BY <1>1, <1>2, QuietKeepsPhaseInv

LEMMA NextKeepsPhaseInv ==
    ASSUME NobodyIsThere, BaseInv, PhaseInv, [Next]_vars
    PROVE  PhaseInv'
BY DispatchKeepsPhaseInv, NobodyPresses, RegulatedOrRampKeepsPhaseInv, McuKeepsPhaseInv,
   MonitorKeepsPhaseInv, WakeUpKeepsPhaseInv, RestKeepsPhaseInv
DEF Next, Callback

LEMMA InitPhaseInv == Init => PhaseInv
<1> SUFFICES ASSUME Init PROVE PhaseInv
  OBVIOUS
<1>1. /\ ~isScreenOn /\ due = {} /\ queue = <<>> /\ current = "Unknown"
      /\ motorEnableCount = 0 /\ ~modulesOn
  BY DEF Init, motorInitialise, doorInitialise
<1>2. \A type : ~IsPending(type) /\ Once(type)
  BY <1>1 DEF IsPending, Once
<1> QED BY <1>1, <1>2 DEF PhaseInv, Alone, TellsOnce, AtRest, NothingToCome, Resting
-----------------------------------------------------------------------------
(***************************************************************************)
(* Where the door rests, and what it leaves on.                            *)
(***************************************************************************)
LEMMA NextKeepsBaseInv ==
    ASSUME EncoderWorks, BaseInv, [Next]_vars
    PROVE  BaseInv'
BY NextKeepsSupplyInv, NextKeepsWatchInv, StepKeepsRunTypes DEF BaseInv, EncoderWorks

LEMMA InitBaseInv == Init => BaseInv
<1> SUFFICES ASSUME Init PROVE BaseInv
  OBVIOUS
<1>1. WatchInv
  BY DEF Init, motorInitialise, WatchInv, RunsAreScheduled, SamplesAreFlagged, On, Running,
         Started
<1>2. RunTypes
  BY DEF Init, motorInitialise, RunTypes, Faults
<1> QED BY <1>1, <1>2, InitSupplyInv DEF BaseInv

\* Only a movement that ends brings the door to rest, and only by leaving its rest
\* for the motor does it begin to move.
LEMMA DoorOnlyMovesByTheMotor ==
    ASSUME NobodyIsThere, BaseInv, PhaseInv, [Next]_vars, ~MotorStopped
    PROVE  \/ UNCHANGED <<current, wanted>>
           \/ MotorEnabled /\ current' \in MovingAlone
           \/ OpenScheduleActioned \/ CloseScheduleActioned
<1>1. CASE MotorEnabled
  BY <1>1, MotorEnabledBegins DEF Begins
<1>2. CASE TimeChanged \/ DoorClosedEvent \/ DoorAbortedEvent \/ Unheard \/ DoorCalibratedEvent
  BY <1>2, OthersKeepPhaseInv
<1>3. CASE VregEnabled \/ VregDisabled \/ Callback \/ WakeUp \/ WokenEnds \/ Winch
             \/ UNCHANGED vars
  BY <1>3, NobodyPresses
  DEF VregEnabled, VregDisabled, Callback, RegulatedStabilises, McuStabilises, Ramp, Monitor,
      WakeUp, WokenEnds, Winch, vars, doorVars
<1> QED BY <1>1, <1>2, <1>3, NobodyPresses DEF Next, Dispatch

LEMMA SchedulesMoveTheDoor ==
    ASSUME BaseInv, PhaseInv, OpenScheduleActioned \/ CloseScheduleActioned
    PROVE  \/ current \in Resting /\ current' \in WaitingAlone
           \/ /\ UNCHANGED <<enableVars, driveVars, current>>
              /\ current' = "Opened" => wanted' = "Open"
              /\ current' = "Closed" => wanted' = "Close"
<1>1. CASE Leaves /\ current \in Resting
  BY <1>1, LeavingAwaitsMotor
<1>2. CASE /\ Stays
           /\ current = "Opened" => wanted' = "Open"
           /\ current = "Closed" => wanted' = "Close"
  BY <1>2 DEF Stays
<1> QED BY <1>1, <1>2, SchedulesLeaveOrStay

RestInv == RestsWhereWanted

LEMMA NextKeepsRestInv ==
    ASSUME NobodyIsThere, BaseInv, PhaseInv, RestInv, [Next]_vars
    PROVE  RestInv'
<1>1. CASE MotorStopped
  <2>1. /\ Moves /\ UNCHANGED wanted
        /\ current' = "Opened" => transition # "Close"
        /\ current' = "Closed" => transition # "Open"
    BY <1>1, MotorStoppedEndsOrBegins
  <2> QED BY <2>1 DEF Moves, Obeys, RestInv, RestsWhereWanted
<1>2. CASE OpenScheduleActioned \/ CloseScheduleActioned
  BY <1>2, SchedulesMoveTheDoor DEF RestInv, RestsWhereWanted, WaitingAlone
<1>3. CASE MotorEnabled /\ current' \in MovingAlone
  BY <1>3 DEF RestInv, RestsWhereWanted, MovingAlone
<1>4. CASE UNCHANGED <<current, wanted>>
  BY <1>4 DEF RestInv, RestsWhereWanted
<1> QED BY <1>1, <1>2, <1>3, <1>4, DoorOnlyMovesByTheMotor

AloneInv == BaseInv /\ PhaseInv /\ RestInv

LEMMA InitAloneInv == Init => AloneInv
<1>1. Init => RestInv
  BY DEF Init, doorInitialise, RestInv, RestsWhereWanted
<1> QED BY <1>1, InitBaseInv, InitPhaseInv DEF AloneInv

LEMMA NextKeepsAloneInv ==
    ASSUME NobodyIsThere, EncoderWorks
    PROVE  AloneInv /\ [Next]_vars => AloneInv'
BY NextKeepsBaseInv, NextKeepsPhaseInv, NextKeepsRestInv DEF AloneInv

\* However the schedules fall among the door's movements, and whatever the winch
\* meets, a door that is open or closed is where the last schedule wanted it
\* (DoorOnOpenScheduleActioned.c, DoorOnMotorStopped.c: doorState.transition).
THEOREM TheDoorRestsWhereWanted ==
    ASSUME NobodyIsThere, EncoderWorks
    PROVE  Spec => []RestsWhereWanted
<1>1. AloneInv => RestsWhereWanted
  BY DEF AloneInv, RestInv
<1> QED BY <1>1, InitAloneInv, NextKeepsAloneInv, PTL DEF Spec

\* A door that has come to rest has given back the supply, the timer and the
\* motor's peripherals (motorDisable, onVoltageRegulatorDisabled).
THEOREM RestingDoorLeavesNothingOn ==
    ASSUME NobodyIsThere, EncoderWorks
    PROVE  Spec => []NothingLeftOn
<1>1. ASSUME BaseInv, PhaseInv, current \in Resting, queue = <<>>
      PROVE  ~LATB2 /\ ~LATB0 /\ ~T2ON /\ ~modulesOn /\ steering = "off"
  <2>1. AtRest /\ ~LATB0 /\ motorEnableCount = 0 /\ vregEnableCount = 0
    BY <1>1, PhasesAreDistinct, SupplyIsTheMotors DEF AtRest
  <2>2. pwmEnableCount = 0 /\ OutputsMatch
    BY <1>1, <2>1, CountsAreNaturals DEF BaseInv, SupplyInv, IInv
  <2>3. ~LATB2 /\ ~T2ON
    BY <2>1, <2>2 DEF OutputsMatch
  <2>4. ~modulesOn
    BY <1>1, <2>1 DEF AtRest, IsPending
  <2>5. steering = "off"
    BY <1>1, <2>4 DEF BaseInv, WatchInv, RunsAreScheduled, On
  <2> QED BY <2>1, <2>3, <2>4, <2>5
<1>2. AloneInv => NothingLeftOn
  BY <1>1 DEF AloneInv, NothingLeftOn
<1> QED BY <1>2, InitAloneInv, NextKeepsAloneInv, PTL DEF Spec

\* Once its bottom has been found the door is in a known state for good: no event
\* that comes in a movement or a wait is one that its state does not expect
\* (DoorOnMotorEnabled.c, DoorOnMotorStopped.c: the default cases).
THEOREM TheDoorIsNeverLost ==
    ASSUME NobodyIsThere, EncoderWorks
    PROVE  Spec => NeverLost
<1>1. ASSUME AloneInv, [Next]_vars
      PROVE  current' = "Unknown" => current = "Unknown"
  <2>1. BaseInv /\ PhaseInv
    BY <1>1 DEF AloneInv
  <2>2. CASE MotorStopped
    <3>1. current' \in {"Fault", "Opened", "Closed"} \cup MovingAlone
      BY <2>1, <2>2, MotorStoppedEndsOrBegins DEF Ends, Begins
    <3> QED BY <3>1 DEF MovingAlone
  <2>3. CASE OpenScheduleActioned \/ CloseScheduleActioned
    BY <2>1, <2>3, SchedulesMoveTheDoor DEF WaitingAlone
  <2>4. CASE MotorEnabled /\ current' \in MovingAlone
    BY <2>4 DEF MovingAlone
  <2> QED BY <1>1, <2>1, <2>2, <2>3, <2>4, DoorOnlyMovesByTheMotor
<1>2. AloneInv /\ [Next]_vars => [current' = "Unknown" => current = "Unknown"]_vars
  BY <1>1
<1> QED BY <1>2, InitAloneInv, NextKeepsAloneInv, PTL DEF Spec, NeverLost
-----------------------------------------------------------------------------
(***************************************************************************)
(* The count, from motorOn() to the handler of MOTOR_STOPPED.              *)
(***************************************************************************)
Reached == TMR1 >= Magnitude(startedCount)
Covered == IF startedCount < 0 THEN stopped.actualCount <= startedCount
                               ELSE stopped.actualCount >= startedCount

StoppedInTime == stopped.requestedCount = startedCount /\ "encoderTimeout" \notin stopped.fault

MoveCounts ==
    /\ Running => CCPR1 = Magnitude(startedCount)
    /\ On /\ CWG1IF => C1IF \/ TMR1IF \/ Reached
    /\ Running /\ ~On => StoppedInTime /\ (~Faulted => Reached)
    /\ StopPending => StoppedInTime /\ (~Faulted => Covered)

CountInv == MoveCounts /\ WorkingEncoderIsNotBlamed

counting == <<CCPR1, TMR1, startedCount, steering, flagVars, stopped>>

\* Only a movement counts.
LEMMA OnlyMovesCount ==
    ASSUME BaseInv', PhaseInv', current' \notin MovingAlone
    PROVE  MoveCounts'
<1>1. AtRest' \/ AwaitsMotor'
  BY DEF PhaseInv, Moves
<1>2. ~Running' /\ ~StopPending'
  BY <1>1 DEF AtRest, AwaitsMotor, WaitingAlone, Waiting, BaseInv, SupplyInv, RunInv
<1>3. ~On'
  BY <1>2 DEF BaseInv, WatchInv, RunsAreScheduled
<1> QED BY <1>2, <1>3 DEF MoveCounts

LEMMA CountingIsKept ==
    ASSUME MoveCounts, UNCHANGED counting, Running' <=> Running, StopPending' => StopPending
    PROVE  MoveCounts'
BY DEF MoveCounts, counting, flagVars, On, Reached, Covered, StoppedInTime, Faulted

LEMMA BeginningCounts ==
    ASSUME BaseInv, BaseInv', PhaseInv', Begins, ~Running, modulesOn
    PROVE  MoveCounts'
<1>1. PICK count \in Int \ {0} : motorOn(count)
  BY DEF Begins
<1>2. /\ steering' # "off" /\ motorRunningState' = "STARTING"
      /\ startedCount' = count /\ CCPR1' = Magnitude(count) /\ CWG1IF' = FALSE
  BY <1>1, MotorIsStarted
<1>3. Running' /\ ~StopPending' /\ On'
  BY <1>2 DEF Running, On, Begins, PhaseInv, AtRest, AwaitsMotor, Moves, MovingAlone,
              WaitingAlone, Resting
<1> QED BY <1>2, <1>3 DEF MoveCounts

\* motorOff() finds out why the motor was stopped: the encoder reached the count,
\* unless a flag says otherwise.
LEMMA WokenEndsCounts ==
    ASSUME BaseInv, PhaseInv, MoveCounts, WokenEnds, StopPending' <=> StopPending
    PROVE  MoveCounts'
<1>1. CASE ~Flagged
  <2>1. UNCHANGED runVars
    BY <1>1 DEF WokenEnds, onWokenFromSleep, Flagged
  <2> QED BY <2>1, CountingIsKept DEF counting, runVars, Running
<1>2. CASE Flagged /\ ~On
  <2>1. motorOff
    BY <1>2 DEF WokenEnds, onWokenFromSleep, Flagged
  <2>2. UNCHANGED <<CCPR1, TMR1, startedCount, steering, stopped, motorRunningState>>
    BY <1>2, <2>1 DEF motorOff, On
  <2> QED BY <1>2, <2>2
          DEF MoveCounts, On, Running, Reached, Covered, StoppedInTime, Faulted
<1>3. CASE Flagged /\ On
  <2>1. motorOff
    BY <1>3 DEF WokenEnds, onWokenFromSleep, Flagged
  <2>2. Running /\ ~StopPending
    BY <1>3, SupplyIsTheMotors
    DEF BaseInv, WatchInv, RunsAreScheduled, PhaseInv, Moves
  <2>3. UNCHANGED <<CCPR1, TMR1, startedCount, motorRunningState>> /\ steering' = "off"
    BY <2>1 DEF motorOff
  <2> DEFINE fault == {f \in {"currentLimited", "encoderOverflow"} :
                          \/ f = "currentLimited" /\ C1IF
                          \/ f = "encoderOverflow" /\ TMR1IF}
  <2>4. stopped' = [stopped EXCEPT !.requestedCount = startedCount, !.fault = fault]
    BY <1>3, <2>1 DEF motorOff, On
  <2>5. /\ "encoderTimeout" \notin fault
        /\ C1IF => "currentLimited" \in fault
        /\ TMR1IF => "encoderOverflow" \in fault
    OBVIOUS
  <2> HIDE DEF fault
  <2>6. stopped'.requestedCount = startedCount /\ stopped'.fault = fault
    BY <2>4 DEF BaseInv, RunTypes
  <2>7. ~Faulted' => ~C1IF /\ ~TMR1IF
    BY <2>5, <2>6 DEF Faulted
  <2>8. ~Faulted' => Reached
    BY <1>3, <2>7 DEF MoveCounts, Flagged
  <2>9. StoppedInTime' /\ ~On' /\ (Reached => Reached')
    BY <2>3, <2>5, <2>6 DEF StoppedInTime, On, Reached
  <2> QED BY <2>2, <2>3, <2>8, <2>9 DEF MoveCounts, Running
<1> QED BY <1>1, <1>2, <1>3

\* The monitor only finds that a motor has come to rest when it is off, and a
\* motor that was stopped by its encoder has not fallen short.
LEMMA MonitorCounts ==
    ASSUME BaseInv, PhaseInv, MoveCounts, Monitor
    PROVE  MoveCounts'
<1>1. /\ UNCHANGED <<CCPR1, TMR1, startedCount, steering, flagVars>>
      /\ waking /\ Handling /\ "monitor" \in due /\ ~StopPending
  BY CallbackHandles
  DEF Monitor, motorRunningStateMonitor, Callback, Calling, BaseInv, SupplyInv, DueInv
<1>2. CASE ~HasStopped
  <2>1. Publish(<<>>) /\ UNCHANGED stopped /\ (Running' <=> Running)
    BY <1>2 DEF Monitor, motorRunningStateMonitor, motorRunningStateMonitorEvents, Running
  <2>2. StopPending' => StopPending
    BY <1>1, <2>1, NonePublished DEF BaseInv, StopPending
  <2> QED BY <1>1, <2>1, <2>2, CountingIsKept DEF counting
<1>3. CASE HasStopped
  <2>1. Running /\ ~Running' /\ stopped' = Report
    BY <1>3 DEF Monitor, motorRunningStateMonitor, HasStopped, IsStatic, Running
  <2>2. ~On
    <3>1. motorRunningState = "STARTED" /\ encoderStaticCount # 0
      BY <1>3, MotorAssumption
      DEF HasStopped, IsStatic, BaseInv, WatchInv, RunsAreScheduled
    <3> QED BY <1>1, <3>1 DEF BaseInv, WatchInv, SamplesAreFlagged, Started
  <2>3. StoppedInTime /\ (~Faulted => Reached) /\ startedCount \in Int /\ TMR1 \in Nat
    BY <2>1, <2>2 DEF MoveCounts, BaseInv, RunTypes
  <2> DEFINE actual == IF stopped.requestedCount < 0 THEN -TMR1 ELSE TMR1
             fault == IF stopped.fault = {} /\ FellShort(actual)
                        THEN {"encoderTimeout"} ELSE stopped.fault
  <2>4. ~Faulted => ~FellShort(actual)
    BY <2>3 DEF FellShort, Reached, Magnitude, StoppedInTime
  <2>5. fault = stopped.fault
    BY <2>4 DEF Faulted
  <2>6. ~Faulted => IF startedCount < 0 THEN actual <= startedCount ELSE actual >= startedCount
    BY <2>3 DEF Reached, Magnitude, StoppedInTime
  <2>7. stopped' = [stopped EXCEPT !.actualCount = actual, !.fault = fault]
    BY <2>1 DEF Report, BaseInv, RunTypes
  <2> HIDE DEF actual, fault
  <2>8. /\ stopped'.requestedCount = stopped.requestedCount /\ stopped'.fault = stopped.fault
        /\ stopped'.actualCount = actual
    BY <2>5, <2>7 DEF BaseInv, RunTypes
  <2>9. StoppedInTime' /\ (~Faulted' => Covered')
    BY <1>1, <2>3, <2>6, <2>8 DEF StoppedInTime, Faulted, Covered
  <2> QED BY <1>1, <2>1, <2>2, <2>9 DEF MoveCounts, On
<1> QED BY <1>2, <1>3

LEMMA WinchCounts ==
    ASSUME BaseInv, MoveCounts, Winch, StopPending' <=> StopPending
    PROVE  MoveCounts'
<1>1. /\ UNCHANGED <<CCPR1, startedCount, steering, stopped, motorRunningState>>
      /\ CCPR1 = Magnitude(startedCount) \/ ~Running
      /\ On => Running
      /\ TMR1 \in Nat /\ startedCount \in Int
  BY DEF Winch, EncoderPulse, CurrentTrip, EncoderOverflow, MoveCounts, BaseInv, WatchInv,
         RunsAreScheduled, RunTypes
<1>2. CASE EncoderPulse(MaxEncoder)
  <2>1. /\ TMR1' = TMR1 + 1 /\ UNCHANGED <<C1IF, TMR1IF>>
        /\ CWG1IF' => CWG1IF \/ TMR1' = CCPR1
    BY <1>2 DEF EncoderPulse
  <2>2. (Reached => Reached') /\ (TMR1' = Magnitude(startedCount) => Reached')
    BY <1>1, <2>1 DEF Reached, Magnitude
  <2>3. On' /\ CWG1IF' => C1IF' \/ TMR1IF' \/ Reached'
    BY <1>1, <2>1, <2>2 DEF MoveCounts, On
  <2> QED BY <1>1, <2>2, <2>3
          DEF MoveCounts, On, Running, Covered, StoppedInTime, Faulted
<1>3. CASE CurrentTrip
  <2>1. C1IF' = TRUE /\ UNCHANGED TMR1
    BY <1>3 DEF CurrentTrip
  <2> QED BY <1>1, <2>1
          DEF MoveCounts, On, Running, Reached, Covered, StoppedInTime, Faulted
<1>4. CASE EncoderOverflow
  <2>1. TMR1IF' = TRUE /\ On
    BY <1>4 DEF EncoderOverflow, Driven, On
  <2> QED BY <1>1, <2>1
          DEF MoveCounts, On, Running, Covered, StoppedInTime, Faulted
<1> QED BY <1>2, <1>3, <1>4 DEF Winch

LEMMA DispatchKeepsCountInv ==
    ASSUME BaseInv, PhaseInv, CountInv, Dispatch, BaseInv', PhaseInv'
    PROVE  CountInv'
<1>1. /\ StopPending' => StopPending
      /\ Dispatching("MOTOR_STOPPED") => StopPending
  BY NothingIsTold DEF BaseInv
<1>2. UNCHANGED driveVars => UNCHANGED counting /\ (Running' <=> Running)
  BY DEF driveVars, runVars, counting, Running
<1>3. CASE MotorEnabled
  <2>1. Begins /\ modulesOn /\ ~Running /\ UNCHANGED aborted
    BY <1>3, MotorEnabledBegins, SupplyIsTheMotors
  <2> QED BY <2>1, BeginningCounts DEF CountInv, WorkingEncoderIsNotBlamed
<1>4. CASE MotorStopped
  <2>1. /\ Moves /\ ~Running /\ modulesOn
        /\ Ends \/ Begins
        /\ \/ UNCHANGED aborted
           \/ \E fault \in {"jammed", "reversed", "lineTooLong", "lineSnapped", "none"} :
                  aborted' = Diagnosis(fault)
    BY <1>4, MotorStoppedEndsOrBegins DEF Moves
  <2>2. "encoderTimeout" \notin stopped.fault
    BY <1>1, <1>4 DEF MotorStopped, CountInv, MoveCounts, StoppedInTime
  <2>3. WorkingEncoderIsNotBlamed'
    BY <2>1, <2>2 DEF CountInv, WorkingEncoderIsNotBlamed, Diagnosis
  <2>4. CASE Ends
    <3>1. current' \notin MovingAlone
      BY <2>4 DEF Ends, MovingAlone
    <3> QED BY <2>3, <3>1, OnlyMovesCount DEF CountInv
  <2>5. CASE Begins
    BY <2>1, <2>3, <2>5, BeginningCounts DEF CountInv
  <2> QED BY <2>1, <2>4, <2>5
<1>5. CASE OpenScheduleActioned \/ CloseScheduleActioned
  <2>1. UNCHANGED aborted
    BY <1>5, SchedulesLeaveOrStay
  <2>2. CASE current' \in WaitingAlone
    <3>1. current' \notin MovingAlone
      BY <2>2 DEF WaitingAlone, MovingAlone
    <3> QED BY <2>1, <3>1, OnlyMovesCount DEF CountInv, WorkingEncoderIsNotBlamed
  <2>3. CASE UNCHANGED driveVars
    BY <1>1, <1>2, <2>1, <2>3, CountingIsKept DEF CountInv, WorkingEncoderIsNotBlamed
  <2> QED BY <1>5, <2>2, <2>3, SchedulesMoveTheDoor
<1>6. CASE VregEnabled \/ VregDisabled
  <2>1. UNCHANGED <<current, aborted>>
    BY <1>6 DEF VregEnabled, VregDisabled, doorVars
  <2>2. IsPending("VOLTAGE_REGULATOR_ENABLED") \/ IsPending("VOLTAGE_REGULATOR_DISABLED")
    BY <1>6, HandlersFindDispatch DEF VregEnabled, VregDisabled
  <2>3. ~Moves
    BY <2>2 DEF PhaseInv, TellsOnce, Moves, NothingToCome, BaseInv, SupplyInv, RunInv
  <2>4. current' \notin MovingAlone
    BY <2>1, <2>3, PhasesAreDistinct DEF MovingAlone, Moving
  <2> QED BY <2>1, <2>4, OnlyMovesCount DEF CountInv, WorkingEncoderIsNotBlamed
<1>7. CASE TimeChanged \/ DoorClosedEvent \/ DoorAbortedEvent \/ Unheard \/ DoorCalibratedEvent
  <2>1. UNCHANGED driveVars /\ UNCHANGED aborted
    BY <1>7, OthersKeepPhaseInv
  <2> QED BY <1>1, <1>2, <2>1, CountingIsKept DEF CountInv, WorkingEncoderIsNotBlamed
<1> QED BY <1>3, <1>4, <1>5, <1>6, <1>7, NobodyPresses DEF Dispatch

LEMMA NextKeepsCountInv ==
    ASSUME NobodyIsThere, EncoderWorks, BaseInv, PhaseInv, CountInv, [Next]_vars
    PROVE  CountInv'
<1>1. BaseInv' /\ PhaseInv'
  BY NextKeepsBaseInv, NextKeepsPhaseInv
<1>2. CASE Dispatch
  BY <1>1, <1>2, DispatchKeepsCountInv
<1>3. CASE ~Dispatch
  <2>1. WorkingEncoderIsNotBlamed'
    BY <1>3, NobodyPresses
    DEF CountInv, WorkingEncoderIsNotBlamed, Next, Callback, RegulatedStabilises,
        McuStabilises, Ramp, Monitor, WakeUp, WokenEnds, Winch, vars, doorVars
  <2>2. WokenEnds \/ Winch \/ UNCHANGED vars => (StopPending' <=> StopPending)
    BY DEF WokenEnds, Winch, vars, loopVars, StopPending, IsPending
  <2>3. CASE RegulatedStabilises \/ Ramp
    <3>1. UNCHANGED counting /\ (Running' <=> Running)
      BY <2>3 DEF RegulatedStabilises, Ramp, incrementPwmDutyCycle, driveVars, runVars,
                  counting, Running
    <3>2. StopPending' => StopPending
      BY <2>3, CallbackHandles, NonePublished
      DEF BaseInv, Callback, RegulatedStabilises, Ramp, StopPending
    <3> QED BY <2>1, <3>1, <3>2, CountingIsKept DEF CountInv
  <2>4. CASE McuStabilises
    <3>1. ~fullyEnabled /\ UNCHANGED current
      BY <2>4 DEF McuStabilises, Calling, BaseInv, SupplyInv, WaitsInv, DueInv, doorVars
    <3>2. ~Moves
      BY <3>1 DEF Moves, BaseInv, SupplyInv, RunInv
    <3>3. current' \notin MovingAlone
      BY <3>1, <3>2, PhasesAreDistinct DEF MovingAlone, Moving
    <3> QED BY <1>1, <2>1, <3>3, OnlyMovesCount DEF CountInv
  <2>5. CASE Monitor
    BY <2>1, <2>5, MonitorCounts DEF CountInv
  <2>6. CASE WakeUp
    <3>1. UNCHANGED counting /\ (Running' <=> Running)
      BY <2>6 DEF WakeUp, driveVars, runVars, counting, Running
    <3>2. queue' \in {<<>>, <<"TIME_CHANGED">>}
      BY <2>6 DEF WakeUp, Wake
    <3>3. ~StopPending'
      BY <3>2 DEF StopPending, IsPending
    <3> QED BY <2>1, <3>1, <3>3, CountingIsKept DEF CountInv
  <2>7. CASE WokenEnds \/ Winch
    BY <2>1, <2>2, <2>7, WokenEndsCounts, WinchCounts DEF CountInv
  <2>8. CASE UNCHANGED vars
    <3>1. UNCHANGED counting /\ (Running' <=> Running)
      BY <2>8 DEF vars, driveVars, runVars, counting, Running
    <3> QED BY <2>1, <2>2, <2>8, <3>1, CountingIsKept DEF CountInv
  <2> QED BY <1>3, <2>3, <2>4, <2>5, <2>6, <2>7, <2>8, NobodyPresses DEF Next, Callback
<1> QED BY <1>2, <1>3

CountedInv == AloneInv /\ CountInv

LEMMA InitCountedInv == Init => CountedInv
<1> SUFFICES ASSUME Init PROVE CountInv
  BY InitAloneInv DEF CountedInv
<1>1. queue = <<>> /\ motorRunningState = "STOPPED" /\ steering = "off" /\ aborted = "none"
  BY DEF Init, motorInitialise, doorInitialise
<1> QED BY <1>1 DEF CountInv, MoveCounts, WorkingEncoderIsNotBlamed, Running, StopPending,
                    IsPending, On

LEMMA NextKeepsCountedInv ==
    ASSUME NobodyIsThere, EncoderWorks
    PROVE  CountedInv /\ [Next]_vars => CountedInv'
BY NextKeepsAloneInv, NextKeepsCountInv DEF CountedInv, AloneInv

\* An encoder that works is never reported broken: a motor that fell short of its
\* count was stopped by its current limit or by an overflow, and motorOff() has
\* read those flags before the monitor reports (MotorOnOff.c).
THEOREM WorkingEncoderIsTrusted ==
    ASSUME NobodyIsThere, EncoderWorks
    PROVE  Spec => []WorkingEncoderIsNotBlamed
<1>1. CountedInv => WorkingEncoderIsNotBlamed
  BY DEF CountedInv, CountInv
<1> QED BY <1>1, InitCountedInv, NextKeepsCountedInv, PTL DEF Spec

\* For any height, a door that opens or closes without finding its bottom has
\* covered its height by the encoder's count (doorOnMotorStopped, whose fault bits
\* are those of the very run that motorOn() started).
THEOREM TheDoorArrivesByTheEncoder ==
    ASSUME NobodyIsThere, EncoderWorks
    PROVE  Spec => ArrivesByTheEncoder
<1>1. ASSUME CountedInv, [Next]_vars
      PROVE  /\ current = "Opening" /\ current' = "Opened" => stopped.actualCount >= Height
             /\ current = "Closing" /\ current' = "Closed" => stopped.actualCount <= -Height
  <2>1. BaseInv /\ PhaseInv /\ MoveCounts
    BY <1>1 DEF CountedInv, AloneInv, CountInv
  <2>2. CASE MotorStopped
    <3>1. /\ Moves
          /\ current = "Opening" /\ current' = "Opened" => ~Faulted
          /\ current = "Closing" /\ current' = "Closed" => ~Faulted
      BY <2>1, <2>2, MotorStoppedEndsOrBegins
    <3>2. ~Faulted => Covered
      BY <2>1, <2>2, NothingIsTold DEF BaseInv, MotorStopped, Dispatch, MoveCounts
    <3>3. Height \in Nat \ {0}
      BY DoorAssumption
    <3> QED BY <3>1, <3>2, <3>3 DEF Moves, AsAsked, Covered
  <2>3. CASE OpenScheduleActioned \/ CloseScheduleActioned
    BY <2>1, <2>3, SchedulesMoveTheDoor DEF WaitingAlone
  <2>4. CASE MotorEnabled /\ current' \in MovingAlone
    BY <2>4 DEF MovingAlone
  <2> QED BY <1>1, <2>1, <2>2, <2>3, <2>4, DoorOnlyMovesByTheMotor
<1>2. CountedInv /\ [Next]_vars =>
          [/\ current = "Opening" /\ current' = "Opened" => stopped.actualCount >= Height
           /\ current = "Closing" /\ current' = "Closed" => stopped.actualCount <= -Height]_vars
  BY <1>1
<1> QED BY <1>2, InitCountedInv, NextKeepsCountedInv, PTL DEF Spec, ArrivesByTheEncoder
-----------------------------------------------------------------------------
(***************************************************************************)
(* The promise.  It keeps the door's own states and forgets the waits, so  *)
(* most steps are stutters; the rest are those of PhaseInv and CountInv    *)
(* read once more: the movement is for the last schedule (Obeys), and the  *)
(* run that ended had no timeout (StoppedInTime), so its faults are those  *)
(* that the promise allows the movement.                                   *)
(***************************************************************************)
LEMMA PhasesAlone ==
    ASSUME PhaseInv
    PROVE  /\ Phase \in {"Unknown", "FindBottom", "Opening", "Closing", "Opened", "Closed", "Fault"}
           /\ current \in Resting \cup MovingAlone => Phase = current
           /\ current \notin Resting => Phase \in MovingAlone
           /\ Phase \in Resting => current = Phase
BY DEF PhaseInv, AtRest, AwaitsMotor, Moves, Resting, WaitingAlone, MovingAlone, Phase

LEMMA SchedulesTell ==
    ASSUME BaseInv, PhaseInv
    PROVE  /\ OpenScheduleActioned => Promise!Tell("Open")
           /\ CloseScheduleActioned => Promise!Tell("Close")
<1>1. Promise!There = [Open |-> "Opened", Close |-> "Closed"]
      /\ Promise!Going = [Open |-> "Opening", Close |-> "Closing"]
  BY DEF Promise!There, Promise!Going
<1>2. \A where : StartFromUnknown(where)
          => Phase = "Unknown" /\ Phase' = "FindBottom" /\ UNCHANGED aborted
  BY DEF StartFromUnknown, doorStartFindingBottom, Start, Remember, Phase
<1>3. \A where : OnlyRemember(where)
          => /\ Phase \in {"FindBottom", "Opening", "Closing", "Fault"}
             /\ UNCHANGED <<Phase, aborted>>
  BY PhasesAlone DEF OnlyRemember, Remember, Phase, Resting, MovingAlone
<1>4. \A where : AlreadyThere(where)
          => current = where /\ UNCHANGED <<Phase, aborted>>
  BY DEF AlreadyThere, Remember, Phase
<1>5. ASSUME OpenScheduleActioned PROVE Promise!Tell("Open")
  <2>1. doorOnOpenScheduleActioned /\ wanted' = "Open"
    BY <1>5 DEF OpenScheduleActioned
  <2>2. ASSUME current = "Closed", Remember("Open"),
               doorStartOpening("Opening", "Opening_WaitingForEnabledMotor")
        PROVE  Phase = "Closed" /\ Phase' = "Opening" /\ UNCHANGED aborted
    BY <2>2 DEF doorStartOpening, Start, Remember, Phase
  <2>3. AlreadyThere("Opened") => Phase = "Opened"
    BY DEF AlreadyThere, Phase
  <2> QED BY <1>1, <1>2, <1>3, <1>4, <2>1, <2>2, <2>3
          DEF doorOnOpenScheduleActioned, Promise!Tell
<1>6. ASSUME CloseScheduleActioned PROVE Promise!Tell("Close")
  <2>1. doorOnCloseScheduleActioned /\ wanted' = "Close"
    BY <1>6 DEF CloseScheduleActioned
  <2>2. ASSUME current = "Opened", Remember("Close"),
               doorStartClosing("Closing", "Closing_WaitingForEnabledMotor")
        PROVE  Phase = "Opened" /\ Phase' = "Closing" /\ UNCHANGED aborted
    BY <2>2 DEF doorStartClosing, Start, Remember, Phase
  <2>3. AlreadyThere("Closed") => Phase = "Closed"
    BY DEF AlreadyThere, Phase
  <2> QED BY <1>1, <1>2, <1>3, <1>4, <2>1, <2>2, <2>3
          DEF doorOnCloseScheduleActioned, Promise!Tell
<1> QED BY <1>5, <1>6

\* Every way for a movement to end.
LEMMA MotorStoppedIsPromised ==
    ASSUME BaseInv, PhaseInv, MotorStopped, "encoderTimeout" \notin stopped.fault
    PROVE  [Promise!Next]_(Promise!promiseVars)
<1>1. /\ Moves /\ UNCHANGED wanted
      /\ current \in MovingAlone /\ transition = wanted /\ wanted \in {"Open", "Close"}
  BY MotorStoppedEndsOrBegins DEF Moves, Obeys
<1>2. doorOnMotorStopped /\ Phase = current
  BY <1>1, PhasesAlone DEF MotorStopped
<1>3. stopped.fault \in SUBSET {"currentLimited", "encoderOverflow"}
  BY DEF BaseInv, RunTypes, Faults
<1>4. Promise!There = [Open |-> "Opened", Close |-> "Closed"]
      /\ Promise!Going = [Open |-> "Opening", Close |-> "Closing"]
  BY DEF Promise!There, Promise!Going
<1>5. \A fault : MotorFaulted(fault) => Phase' = "Fault" /\ aborted' = Diagnosis(fault)
  BY DEF MotorFaulted, Phase
<1>6. \A state, event : ArrivedAt(state, event) /\ state \in {"Opened", "Closed"}
          => Phase' = state /\ UNCHANGED aborted
  BY DEF ArrivedAt, Phase
<1>7. /\ doorStartOpening("Opening", "Opening") => Phase' = "Opening"
      /\ doorStartClosing("Closing", "Closing") => Phase' = "Closing"
  BY DEF doorStartOpening, doorStartClosing, Start, Phase
<1>8. ASSUME NEW fault, MotorFaulted(fault), Diagnosis(fault) \in Promise!Reasons[current]
      PROVE  Promise!GiveUp
  BY <1>1, <1>2, <1>5, <1>8 DEF Promise!GiveUp, MovingAlone
<1>9. \A fault : Faulted => Diagnosis(CurrentLimited(fault)) \in {fault, "lineTooLong"}
  BY <1>3 DEF Faulted, CurrentLimited, Diagnosis
<1>10. CASE current = "Opening"
  <2>1. OpeningStopped
    BY <1>2, <1>10 DEF doorOnMotorStopped, Waiting
  <2>2. CASE Faulted /\ MotorFaulted(CurrentLimited("jammed"))
    <3>1. Diagnosis(CurrentLimited("jammed")) \in Promise!Reasons[current]
      BY <1>9, <1>10, <2>2 DEF Promise!Reasons
    <3> QED BY <1>8, <2>2, <3>1 DEF Promise!Next
  <2>3. CASE ~Faulted /\ transition # "Close" /\ ArrivedAt("Opened", "DOOR_OPENED")
    <3>1. Promise!Arrive("Open")
      BY <1>1, <1>2, <1>4, <1>6, <1>10, <2>3 DEF Promise!Arrive
    <3> QED BY <3>1 DEF Promise!Next
  <2>4. CASE /\ ~Faulted /\ transition = "Close"
             /\ doorStartClosing("Closing", "Closing")
             /\ UNCHANGED <<transition, aborted, calibrating>>
    <3>1. Promise!GoOn("Close")
      BY <1>1, <1>2, <1>4, <1>7, <1>10, <2>4 DEF Promise!GoOn
    <3> QED BY <3>1 DEF Promise!Next
  <2> QED BY <2>1, <2>2, <2>3, <2>4 DEF OpeningStopped
<1>11. CASE current = "Closing"
  <2>1. ClosingStopped
    BY <1>2, <1>11 DEF doorOnMotorStopped, Waiting
  <2>2. CASE Faulted /\ MotorFaulted(CurrentLimited("reversed"))
    <3>1. Diagnosis(CurrentLimited("reversed")) \in Promise!Reasons[current]
      BY <1>9, <1>11, <2>2 DEF Promise!Reasons
    <3> QED BY <1>8, <2>2, <3>1 DEF Promise!Next
  <2>3. CASE ~Faulted /\ transition # "Open" /\ ArrivedAt("Closed", "DOOR_CLOSED")
    <3>1. Promise!Arrive("Close")
      BY <1>1, <1>2, <1>4, <1>6, <1>11, <2>3 DEF Promise!Arrive
    <3> QED BY <3>1 DEF Promise!Next
  <2>4. CASE /\ ~Faulted /\ transition = "Open"
             /\ doorStartOpening("Opening", "Opening")
             /\ UNCHANGED <<transition, aborted, calibrating>>
    <3>1. Promise!GoOn("Open")
      BY <1>1, <1>2, <1>4, <1>7, <1>11, <2>4 DEF Promise!GoOn
    <3> QED BY <3>1 DEF Promise!Next
  <2> QED BY <2>1, <2>2, <2>3, <2>4 DEF ClosingStopped
<1>12. CASE current = "FindBottom"
  <2>1. FindBottomStopped
    BY <1>2, <1>12 DEF doorOnMotorStopped, Waiting
  <2>2. Promise!Reasons[current] = {"reversed", "lineTooLong", "lineSnapped"}
    BY <1>12 DEF Promise!Reasons
  <2>3. CASE Faulted /\ MotorFaulted(CurrentLimited("reversed"))
    <3>1. Diagnosis(CurrentLimited("reversed")) \in Promise!Reasons[current]
      BY <1>9, <2>2, <2>3
    <3> QED BY <1>8, <2>3, <3>1 DEF Promise!Next
  <2>4. CASE MotorFaulted("lineTooLong")
    <3>1. Diagnosis("lineTooLong") \in Promise!Reasons[current]
      BY <2>2 DEF Diagnosis
    <3> QED BY <1>8, <2>4, <3>1 DEF Promise!Next
  <2> DEFINE fault == IF stopped.fault = {} \/ "encoderOverflow" \in stopped.fault
                        THEN "lineSnapped" ELSE "none"
  <2>5. CASE "currentLimited" \notin stopped.fault /\ MotorFaulted(fault)
    <3>1. fault = "lineSnapped"
      BY <1>3, <2>5
    <3>2. Diagnosis(fault) \in Promise!Reasons[current]
      BY <2>2, <3>1 DEF Diagnosis
    <3> QED BY <1>8, <2>5, <3>2 DEF Promise!Next
  <2>6. CASE \E count, iterations : TriesAgain(count, iterations)
    <3>1. UNCHANGED <<Phase, wanted, aborted>>
      BY <1>1, <2>6 DEF TriesAgain, Phase
    <3> QED BY <3>1 DEF Promise!promiseVars
  <2>7. CASE FoundBottom /\ transition # "Open"
    <3>1. Phase' = "Closed" /\ UNCHANGED aborted
      BY <2>7 DEF FoundBottom, Phase
    <3>2. Promise!Arrive("Close")
      BY <1>1, <1>2, <1>4, <1>12, <2>7, <3>1 DEF Promise!Arrive
    <3> QED BY <3>2 DEF Promise!Next
  <2>8. CASE FoundBottom /\ transition = "Open"
    <3>1. Phase' = "Opening" /\ UNCHANGED aborted
      BY <1>7, <2>8 DEF FoundBottom
    <3>2. Promise!GoOn("Open")
      BY <1>1, <1>2, <1>4, <1>12, <2>8, <3>1 DEF Promise!GoOn
    <3> QED BY <3>2 DEF Promise!Next
  <2> QED BY <2>1, <2>3, <2>4, <2>5, <2>6, <2>7, <2>8 DEF FindBottomStopped
<1> QED BY <1>1, <1>10, <1>11, <1>12 DEF MovingAlone

\* Nothing else gives a reason.
LEMMA OnlyStoppingGivesReasons ==
    ASSUME BaseInv, PhaseInv, [Next]_vars, ~MotorStopped
    PROVE  UNCHANGED aborted
<1>1. CASE MotorEnabled
  BY <1>1, MotorEnabledBegins
<1>2. CASE TimeChanged \/ DoorClosedEvent \/ DoorAbortedEvent \/ Unheard \/ DoorCalibratedEvent
  BY <1>2, OthersKeepPhaseInv
<1>3. CASE OpenScheduleActioned \/ CloseScheduleActioned
  BY <1>3, SchedulesLeaveOrStay
<1>4. CASE VregEnabled \/ VregDisabled \/ Callback \/ WakeUp \/ WokenEnds \/ Winch
             \/ UNCHANGED vars
  BY <1>4, NobodyPresses
  DEF VregEnabled, VregDisabled, Callback, RegulatedStabilises, McuStabilises, Ramp, Monitor,
      WakeUp, WokenEnds, Winch, vars, doorVars
<1> QED BY <1>1, <1>2, <1>3, <1>4, NobodyPresses DEF Next, Dispatch

LEMMA StepIsPromised ==
    ASSUME NobodyIsThere, CountedInv, [Next]_vars
    PROVE  [Promise!Next]_(Promise!promiseVars)
<1>1. BaseInv /\ PhaseInv /\ MoveCounts
  BY DEF CountedInv, AloneInv, CountInv
<1>2. CASE MotorStopped
  <2>1. "encoderTimeout" \notin stopped.fault
    BY <1>1, <1>2, NothingIsTold
    DEF BaseInv, MotorStopped, Dispatch, MoveCounts, StoppedInTime
  <2> QED BY <1>1, <1>2, <2>1, MotorStoppedIsPromised
<1>3. CASE OpenScheduleActioned \/ CloseScheduleActioned
  BY <1>1, <1>3, SchedulesTell DEF Promise!Next
<1>4. CASE ~MotorStopped /\ MotorEnabled
  <2>1. current \in WaitingAlone /\ isFullyEnabled' /\ doorOnMotorEnabled
    <3>1. AwaitsMotor /\ isFullyEnabled /\ UNCHANGED enableVars
      BY <1>1, <1>4, MotorEnabledBegins DEF Begins
    <3> QED BY <1>4, <3>1, EnableVarsAreKept DEF AwaitsMotor, MotorEnabled
  <2>2. \/ current = "Opening_WaitingForEnabledMotor" /\ current' = "Opening"
        \/ current = "Closing_WaitingForEnabledMotor" /\ current' = "Closing"
        \/ current = "FindBottom_WaitingForEnabledMotor" /\ current' = "FindBottom"
    BY <2>1 DEF doorOnMotorEnabled, doorStartOpening, doorStartClosing,
                doorStartFindingBottom, Start, WaitingAlone, Waiting
  <2>3. UNCHANGED <<wanted, aborted>>
    BY <1>1, <1>4, MotorEnabledBegins
  <2>4. UNCHANGED Phase
    BY <2>2 DEF Phase
  <2> QED BY <2>3, <2>4 DEF Promise!promiseVars
<1>5. CASE ~MotorStopped /\ UNCHANGED <<current, wanted>>
  <2>1. UNCHANGED <<Phase, wanted, aborted>>
    BY <1>1, <1>5, OnlyStoppingGivesReasons DEF Phase
  <2> QED BY <2>1 DEF Promise!promiseVars
<1> QED BY <1>1, <1>2, <1>3, <1>4, <1>5, DoorOnlyMovesByTheMotor

\* The door, with its motor, its supply, its waits and its events, implements the
\* promise it makes to its schedules, for any height, any length of the line and
\* any number of attempts to find the bottom (DoorOnOpenScheduleActioned.c,
\* DoorOnCloseScheduleActioned.c, DoorOnMotorEnabled.c, DoorOnMotorStopped.c).
THEOREM TheDoorDoesAsPromised ==
    ASSUME NobodyIsThere, EncoderWorks
    PROVE  Spec => DoesAsPromised
<1>1. Init => Promise!Init
  BY DEF Init, doorInitialise, Promise!Init, Phase
<1>2. CountedInv /\ [Next]_vars => [Promise!Next]_(Promise!promiseVars)
  BY StepIsPromised
<1> QED BY <1>1, <1>2, InitCountedInv, NextKeepsCountedInv, PTL
        DEF Spec, DoesAsPromised, Promise!Spec
=============================================================================

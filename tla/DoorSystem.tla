----------------------------- MODULE DoorSystem -----------------------------
(***************************************************************************)
(* The door, the motor, the supply and the PWM timer on the main loop,     *)
(* with what acts on them: the far scheduler, the winch and, when the      *)
(* system is attended, somebody in front of the LCD.                       *)
(*                                                                         *)
(* The door itself is driven through three independent clients of the same *)
(* supply and the same events, and much of what can go wrong depends on    *)
(* whether the LCD already holds the supply when the door wants it.        *)
(*                                                                         *)
(* `wanted' is a history variable: the last schedule that was actioned.    *)
(***************************************************************************)
EXTENDS Door

CONSTANTS
    UsedOptions,        \* the options picked with the buttons; {}: unattended
    EncoderMayFail,     \* a driven motor may give no encoder pulses
    EncoderMayOverflow, \* the shutdown at the target may fail
    MaxEncoder,         \* bound on how far the winch coasts
    MaxMotorEnables     \* bound on motorEnableCount, a byte in the firmware

ASSUME DoorSystemAssumption ==
    /\ UsedOptions \subseteq {"UP", "DN", "CALIBRATE", "OTHER"}
    /\ {EncoderMayFail, EncoderMayOverflow} \subseteq BOOLEAN
    /\ MaxEncoder \in Nat
    /\ \A n \in {Height, ManualMovementLimit, -FindBottomLowering, FindBottomRaising} :
           n <= MaxEncoder
    /\ MaxMotorEnables \in Nat \ {0}

VARIABLES
    isScreenOn,                     \* and so lcdState.enableCount
    isButtonHeld,                   \* buttonStateSampled, of the right button
    isRightButtonPressed,           \* what the user interface has been told of it
    isButtonPressTurningOnScreen,
    isDoorBeingManuallyControlled,
    isInputIgnored,                 \* the buttons are uiInputIsUninitialised
    option,                         \* the option the cursor was on
    wanted                          \* history, see above

uiVars == <<isScreenOn, isButtonHeld, isRightButtonPressed, isButtonPressTurningOnScreen,
            isDoorBeingManuallyControlled, isInputIgnored, option>>
vars == <<loopVars, enableVars, driveVars, doorVars, uiVars, wanted>>

Attended == UsedOptions # {}
Options == UsedOptions \cup {"OTHER"}

Init ==
    /\ queue = <<>>
    /\ waking = FALSE
    /\ due = {}
    /\ motorInitialise
    /\ doorInitialise
    /\ isScreenOn = FALSE
    /\ isButtonHeld = FALSE
    /\ isRightButtonPressed = FALSE
    /\ isButtonPressTurningOnScreen = FALSE
    /\ isDoorBeingManuallyControlled = FALSE
    /\ isInputIgnored = FALSE
    /\ option = "OTHER"
    /\ wanted = "Unchanged"
-----------------------------------------------------------------------------
(***************************************************************************)
(* Sleeping and waking.  The near scheduler keeps its times (see module    *)
(* NearScheduler), so two of its callbacks are never due too soon: the     *)
(* monitor samples every 128 ms, in which a turning winch gives pulses,    *)
(* and the screen stays on for whole seconds, longer than both waits of    *)
(* the supply together.                                                    *)
(***************************************************************************)
MonitorMayRun ==
    Driven /\ motorRunningState = "STARTED" /\ ~EncoderMayFail
        => TMR1 # previousEncoderValue

ScreenMayTimeOut ==
    isScreenOn /\ ~isRightButtonPressed /\ regulatedWaits = 0 /\ mcuWaits = 0

Pending ==
    VregPending
      \cup {c \in MotorPending : c = "monitor" => MonitorMayRun}
      \cup {c \in {"screen"} : ScreenMayTimeOut}
      \cup {c \in {"buttons"} :
                Attended /\ (isButtonHeld \/ motorEnableCount < MaxMotorEnables)}

WakeUp ==
    /\ Wake(Pending)
    /\ UNCHANGED <<enableVars, driveVars, doorVars, uiVars, wanted>>

\* The near scheduler is done; the motor subscribed to WOKEN_FROM_SLEEP later.
WokenEnds ==
    /\ waking
    /\ due = {}
    /\ onWokenFromSleep
    /\ waking' = FALSE
    /\ UNCHANGED <<queue, due, doorVars, uiVars, wanted>>
-----------------------------------------------------------------------------
(***************************************************************************)
(* The near scheduler's callbacks.                                         *)
(***************************************************************************)
RegulatedStabilises ==
    /\ Calling("regulated")
    /\ onRegulatedVoltageRailStabilised
    /\ Publish(<<>>)
    /\ UNCHANGED <<waking, pwmVars, motorEnableCount, isFullyEnabled, driveVars, doorVars,
                   uiVars, wanted>>

McuStabilises ==
    /\ Calling("mcu")
    /\ onMcuVoltageRailStabilised
    /\ Publish(onMcuVoltageRailStabilisedEvents)
    /\ UNCHANGED <<waking, pwmVars, motorEnableCount, isFullyEnabled, driveVars, doorVars,
                   uiVars, wanted>>

Ramp ==
    /\ Calling("ramp")
    /\ incrementPwmDutyCycle
    /\ Publish(<<>>)
    /\ UNCHANGED <<waking, doorVars, uiVars, wanted>>

Monitor ==
    /\ Calling("monitor")
    /\ motorRunningStateMonitor
    /\ Publish(motorRunningStateMonitorEvents)
    /\ UNCHANGED <<waking, doorVars, uiVars, wanted>>

\* uiOnScreenTimeout() with the count of seconds reached: uiScreenOff() and so
\* lcdDisable().
ScreenTimesOut ==
    /\ Calling("screen")
    /\ isScreenOn' = FALSE
    /\ pwmTimerDisable
    /\ voltageRegulatorDisable
    /\ Publish(<<"LCD_DISABLED">> \o voltageRegulatorDisableEvents)
    /\ UNCHANGED <<waking, motorEnableCount, isFullyEnabled, driveVars, doorVars, isButtonHeld,
                   isRightButtonPressed, isButtonPressTurningOnScreen,
                   isDoorBeingManuallyControlled, isInputIgnored, option, wanted>>

onButtonsStoppedBouncing ==
    /\ Calling("buttons")
    /\ isButtonHeld' = ~isButtonHeld
    /\ Publish(IF isButtonHeld THEN <<"BUTTONS_RELEASED">> ELSE <<"BUTTONS_PRESSED">>)
    /\ UNCHANGED <<waking, enableVars, driveVars, doorVars, isScreenOn, isRightButtonPressed,
                   isButtonPressTurningOnScreen, isDoorBeingManuallyControlled,
                   isInputIgnored, option, wanted>>

Callback == \/ RegulatedStabilises \/ McuStabilises \/ Ramp \/ Monitor
            \/ ScreenTimesOut \/ onButtonsStoppedBouncing
-----------------------------------------------------------------------------
(***************************************************************************)
(* The events of the supply, the motor, the schedules and the door.        *)
(***************************************************************************)
VregEnabled ==
    /\ Dispatching("VOLTAGE_REGULATOR_ENABLED")
    /\ onVoltageRegulatorEnabled
    /\ Publish(onVoltageRegulatorEnabledEvents)
    /\ UNCHANGED <<waking, due, doorVars, uiVars, wanted>>

VregDisabled ==
    /\ Dispatching("VOLTAGE_REGULATOR_DISABLED")
    /\ onVoltageRegulatorDisabled
    /\ Publish(<<>>)
    /\ UNCHANGED <<waking, due, doorVars, uiVars, wanted>>

MotorEnabled ==
    /\ Dispatching("MOTOR_ENABLED")
    /\ doorOnMotorEnabled
    /\ UNCHANGED <<waking, due, uiVars, wanted>>

MotorStopped ==
    /\ Dispatching("MOTOR_STOPPED")
    /\ doorOnMotorStopped
    /\ UNCHANGED <<waking, due, uiVars, wanted>>

\* The far scheduler actions neither, either or both of the door's schedules; which
\* and when is module Schedules' business.
TimeChanged ==
    /\ Dispatching("TIME_CHANGED")
    /\ \E first, second \in {<<>>, <<"DOOR_OPEN_SCHEDULE_ACTIONED">>,
                              <<"DOOR_CLOSE_SCHEDULE_ACTIONED">>} :
           /\ first # second \/ first = <<>>
           /\ Publish(first \o second)
    /\ UNCHANGED <<waking, due, enableVars, driveVars, doorVars, uiVars, wanted>>

OpenScheduleActioned ==
    /\ Dispatching("DOOR_OPEN_SCHEDULE_ACTIONED")
    /\ doorOnOpenScheduleActioned
    /\ wanted' = "Open"
    /\ UNCHANGED <<waking, due, uiVars>>

CloseScheduleActioned ==
    /\ Dispatching("DOOR_CLOSE_SCHEDULE_ACTIONED")
    /\ doorOnCloseScheduleActioned
    /\ wanted' = "Close"
    /\ UNCHANGED <<waking, due, uiVars>>

DoorClosedEvent ==
    /\ Dispatching("DOOR_CLOSED")
    /\ onDoorClosedForCalibration
    /\ UNCHANGED <<waking, due, uiVars, wanted>>

DoorAbortedEvent ==
    /\ Dispatching("DOOR_ABORTED")
    /\ onDoorAbortedForCalibration
    /\ UNCHANGED <<waking, due, uiVars, wanted>>

\* Events with no subscriber that changes any of this state.
Unheard ==
    /\ \E type \in {"MOTOR_STARTED", "MOTOR_DISABLED", "DOOR_OPENED", "LCD_DISABLED"} :
           Dispatching(type)
    /\ Publish(<<>>)
    /\ UNCHANGED <<waking, due, enableVars, driveVars, doorVars, uiVars, wanted>>
-----------------------------------------------------------------------------
(***************************************************************************)
(* The user interface, on the screens that move and calibrate the door.    *)
(***************************************************************************)
\* uiScreenOn() and so lcdEnable().
ButtonsPressedWhenScreenIsOff ==
    /\ Dispatching("BUTTONS_PRESSED")
    /\ ~isScreenOn
    /\ isRightButtonPressed' = TRUE
    /\ isScreenOn' = TRUE
    /\ isButtonPressTurningOnScreen' = TRUE
    /\ voltageRegulatorEnable
    /\ pwmTimerEnable
    /\ Publish(<<>>)
    /\ UNCHANGED <<waking, due, motorEnableCount, isFullyEnabled, driveVars, doorVars,
                   isButtonHeld, isDoorBeingManuallyControlled, isInputIgnored, option, wanted>>

\* uiDoorControlScreenOptionSelected(), from whatever screen is showing.
OptionSelected(selected) ==
    \/ /\ selected = "UP"
       /\ doorManualStartOpening
       /\ isDoorBeingManuallyControlled' = TRUE
    \/ /\ selected = "DN"
       /\ doorManualStartClosing
       /\ isDoorBeingManuallyControlled' = TRUE
    \/ /\ selected \notin {"UP", "DN"}
       /\ Publish(<<>>)
       /\ UNCHANGED <<enableVars, driveVars, doorVars, isDoorBeingManuallyControlled>>

ButtonsPressedWhenScreenIsOn ==
    /\ Dispatching("BUTTONS_PRESSED")
    /\ isScreenOn
    /\ isRightButtonPressed' = TRUE
    /\ isButtonPressTurningOnScreen' = FALSE
    /\ option' \in IF isInputIgnored THEN {"OTHER"} ELSE Options
    /\ OptionSelected(option')
    /\ UNCHANGED <<waking, due, isScreenOn, isButtonHeld, isInputIgnored, wanted>>

\* uiDoorControlScreenOptionAfterSelected()
OptionAfterSelected ==
    \/ /\ isDoorBeingManuallyControlled
       /\ doorManualStop
       /\ isDoorBeingManuallyControlled' = FALSE
       /\ UNCHANGED isInputIgnored
    \/ /\ ~isDoorBeingManuallyControlled
       /\ option = "CALIBRATE"
       /\ doorCalibrate
       /\ isInputIgnored' = TRUE
       /\ UNCHANGED isDoorBeingManuallyControlled
    \/ /\ ~isDoorBeingManuallyControlled
       /\ option # "CALIBRATE"
       /\ Publish(<<>>)
       /\ UNCHANGED <<enableVars, driveVars, doorVars, isDoorBeingManuallyControlled,
                      isInputIgnored>>

ButtonsReleased ==
    /\ Dispatching("BUTTONS_RELEASED")
    /\ isRightButtonPressed' = FALSE
    /\ IF isButtonPressTurningOnScreen
         THEN /\ Publish(<<>>)
              /\ UNCHANGED <<enableVars, driveVars, doorVars, isDoorBeingManuallyControlled,
                             isInputIgnored>>
         ELSE OptionAfterSelected
    /\ option' = "OTHER"
    /\ UNCHANGED <<waking, due, isScreenOn, isButtonHeld, isButtonPressTurningOnScreen, wanted>>

\* uiDoorOnCalibrated() goes back to a screen that takes input.
DoorCalibratedEvent ==
    /\ Dispatching("DOOR_CALIBRATED")
    /\ isInputIgnored' = FALSE
    /\ Publish(<<>>)
    /\ UNCHANGED <<waking, due, enableVars, driveVars, doorVars, isScreenOn, isButtonHeld,
                   isRightButtonPressed, isButtonPressTurningOnScreen,
                   isDoorBeingManuallyControlled, option, wanted>>
-----------------------------------------------------------------------------
Dispatch == \/ VregEnabled \/ VregDisabled \/ MotorEnabled \/ MotorStopped \/ TimeChanged
            \/ OpenScheduleActioned \/ CloseScheduleActioned
            \/ DoorClosedEvent \/ DoorAbortedEvent \/ Unheard
            \/ ButtonsPressedWhenScreenIsOff \/ ButtonsPressedWhenScreenIsOn
            \/ ButtonsReleased \/ DoorCalibratedEvent

Winch ==
    /\ \/ EncoderPulse(MaxEncoder)
       \/ CurrentTrip
       \/ EncoderMayOverflow /\ EncoderOverflow
    /\ UNCHANGED <<loopVars, doorVars, uiVars, wanted>>

Next == WakeUp \/ WokenEnds \/ Callback \/ Dispatch \/ Winch

Spec == Init /\ [][Next]_vars

\* Handlers return, pending callbacks come due again and again (the near
\* scheduler's TimePasses), and a driven winch turns or is stopped.
FairSpec ==
    /\ Spec
    /\ WF_vars(Dispatch)
    /\ WF_vars(Callback \/ WokenEnds)
    /\ \A c \in {"regulated", "mcu", "ramp", "monitor"} : SF_vars(WakeUp /\ c \in due')
    /\ WF_vars(Driven /\ Winch)
-----------------------------------------------------------------------------
(***************************************************************************)
(* Properties.                                                             *)
(***************************************************************************)

\* The two reference counts agree with each other and with their clients, so the
\* supply and the timer are on exactly while somebody needs them.
Clients == (IF isScreenOn THEN 1 ELSE 0) + (IF motorEnableCount # 0 THEN 1 ELSE 0)

ClientsAreCounted ==
    /\ vregEnableCount = Clients /\ LATB2 = (Clients # 0)
    /\ pwmEnableCount = Clients /\ T2ON = (Clients # 0)

\* With nothing left to dispatch, a door at rest leaves nothing switched on.
NothingLeftOn ==
    current \in Resting /\ queue = <<>> /\ ~waking /\ ~isScreenOn =>
        ~LATB2 /\ ~LATB0 /\ ~T2ON /\ ~modulesOn /\ steering = "off"

\* The supply comes up in order: nothing counts as enabled before the rail it
\* needs, whichever of the uncancelled waits is the one that fires.
SupplyInOrder ==
    /\ isFullyEnabled => fullyEnabled
    /\ fullyEnabled => LATB0
    /\ LATB0 => LATB2

\* A motor that is being driven is watched until it has come to rest, whatever
\* the door thinks it is doing.
EveryRunIsWatched ==
    /\ steering # "off" => motorRunningState # "STOPPED"
    /\ motorRunningState # "STOPPED" => monitorScheduled

\* The user interface waits, its buttons dead, just while a calibration is going
\* on or its result on the way, but for the hang after an abort that
\* DoorCalibrate.c:71 owns up to.
CalibrationIsAccountedFor ==
    /\ calibrating => isInputIgnored
    /\ isInputIgnored /\ aborted = "none" =>
           calibrating \/ \E k \in 1 .. Len(queue) : queue[k] = "DOOR_CALIBRATED"

\* However the schedules fall among the movements, the door comes to rest
\* where the last one of them wanted it.
RestsWhereWanted ==
    /\ current = "Opened" => wanted = "Open"
    /\ current = "Closed" => wanted = "Close"

\* A door whose bottom has been found is never lost sight of again: a consequence of
\* DoesAsPromised that is worth a name.
NeverLost == [][current' = "Unknown" => current = "Unknown"]_vars

\* The phase of the promise that the door is in: whether a movement still waits for
\* the motor is its own affair.
Phase == CASE current = "FindBottom_WaitingForEnabledMotor" -> "FindBottom"
           [] current = "Opening_WaitingForEnabledMotor"    -> "Opening"
           [] current = "Closing_WaitingForEnabledMotor"    -> "Closing"
           [] OTHER                                         -> current

Promise == INSTANCE DoorPromise WITH phase <- Phase, reason <- aborted

\* Alone, the door does what DoorPromise promises: whatever the motor, the supply and
\* the events between them do, and however schedules fall among the movements, every
\* change of its state is one that a reader of Door.h would expect, and the reason
\* it gives for a fault is one that its movement can have.
DoesAsPromised == Promise!Spec

\* A movement only counts as done if the encoder covered the height.
ArrivesByTheEncoder ==
    [][/\ current = "Opening" /\ current' = "Opened" => stopped.actualCount >= Height
       /\ current = "Closing" /\ current' = "Closed" => stopped.actualCount <= -Height]_vars

\* The encoder is never reported broken when it works (DoorManualOverride.c:17:
\* after manual control the schedules should "work properly", and a door in
\* Fault ignores them).
WorkingEncoderIsNotBlamed == aborted # "encoderBroken"

\* When the motor has stopped it is disabled, unless another movement follows
\* (TestDoorOpeningOnMotorStopped2.c:45, expectMotorIsDisabled).
MotorDisabledWhenItStops ==
    [][MotorStopped => motorEnableCount' = 0 \/ current' \in Moving]_vars

\* Nothing that the schedules make the door do goes on for ever, its waiting for the
\* motor and its turning round included.
EveryMovementEnds ==
    \A movement \in {"FindBottom", "Opening", "Closing"} : []<>(Phase # movement)

\* A schedule is obeyed, unless the door faults or another takes its place.
SchedulesAreObeyed ==
    /\ []<>(wanted = "Open" => current \in {"Opened", "Fault"})
    /\ []<>(wanted = "Close" => current \in {"Closed", "Fault"})
=============================================================================

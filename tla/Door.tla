-------------------------------- MODULE Door --------------------------------
(***************************************************************************)
(* Door: the state machine that raises and lowers the pop-hole door.       *)
(*                                                                         *)
(* Every movement first enables the motor, whose supply may need time to   *)
(* stabilise, and ends at MOTOR_STOPPED.  A schedule that comes due during *)
(* a movement is remembered in `transition' and obeyed when the movement   *)
(* ends.  The door's height and the fault bits of the events are data; the *)
(* lowered height and so the calibrated one are left out.                  *)
(*                                                                         *)
(* Each handler comes with the events it publishes, in order.              *)
(***************************************************************************)
EXTENDS Motor

CONSTANTS
    Height,                     \* nvmSettings.application.door.height
    ManualMovementLimit,        \* MANUAL_MOVEMENT_LIMIT
    FindBottomLowering,         \* FIND_BOTTOM_LOWERING, negative
    FindBottomRaising,          \* FIND_BOTTOM_RAISING
    FindBottomThreshold,        \* FIND_BOTTOM_THRESHOLD
    MaxFindBottomIterations,    \* MAX_FIND_BOTTOM_ITERATIONS
    ByteModulus                 \* 2^8: the iterations are counted in a byte

ASSUME DoorAssumption ==
    /\ Height \in Nat \ {0}
    /\ ManualMovementLimit \in Nat \ {0}
    /\ FindBottomLowering \in Int /\ FindBottomLowering < 0
    /\ FindBottomRaising \in Nat \ {0}
    /\ FindBottomThreshold \in Nat /\ FindBottomThreshold < FindBottomRaising
    /\ MaxFindBottomIterations \in Nat \ {0}
    /\ ByteModulus \in Nat /\ ByteModulus > MaxFindBottomIterations + 1

VARIABLES
    current,                    \* doorState.current
    transition,                 \* doorState.transition
    findBottomIterations,
    aborted,                    \* doorState.aborted.fault
    calibrating                 \* DoorCalibrate.c's two subscriptions are in place

doorVars == <<current, transition, findBottomIterations, aborted, calibrating>>

Waiting == {"ManualOpening_WaitingForEnabledMotor", "ManualClosing_WaitingForEnabledMotor",
            "FindBottom_WaitingForEnabledMotor", "Opening_WaitingForEnabledMotor",
            "Closing_WaitingForEnabledMotor"}
Moving == {"ManualOpening", "ManualClosing", "FindBottom", "Opening", "Closing"}
Resting == {"Unknown", "Fault", "Opened", "Closed"}

doorInitialise ==
    /\ current = "Unknown"
    /\ transition = "Unchanged"
    /\ findBottomIterations = 0
    /\ aborted = "none"
    /\ calibrating = FALSE
-----------------------------------------------------------------------------
(***************************************************************************)
(* Starting a movement.  motorIsEnabled() is read after any motorEnable(), *)
(* so the callers give isFullyEnabled' first.                              *)
(***************************************************************************)
Start(load, count, enabledState, disabledState) ==
    IF isFullyEnabled'
      THEN /\ motorLimitIs(load)
           /\ motorOn(count)
           /\ current' = enabledState
           /\ UNCHANGED modulesOn
      ELSE /\ current' = disabledState
           /\ UNCHANGED driveVars

doorStartOpening(enabledState, disabledState) ==
    /\ Start("MaximumLoad",
             IF enabledState = "ManualOpening" THEN ManualMovementLimit ELSE Height,
             enabledState, disabledState)
    /\ UNCHANGED findBottomIterations

doorStartClosing(enabledState, disabledState) ==
    /\ Start("NoLoad",
             IF enabledState = "ManualClosing" THEN -ManualMovementLimit ELSE -Height,
             enabledState, disabledState)
    /\ UNCHANGED findBottomIterations

doorStartFindingBottom(enabledState, disabledState) ==
    /\ Start("NoLoad", FindBottomLowering, enabledState, disabledState)
    /\ findBottomIterations' = IF isFullyEnabled' THEN 0 ELSE findBottomIterations

\* Each movement asks for a count that is not zero.
StartEvents == IF isFullyEnabled' THEN motorOnEvents(1) ELSE <<>>
-----------------------------------------------------------------------------
(***************************************************************************)
(* DoorOnOpenScheduleActioned.c and DoorOnCloseScheduleActioned.c          *)
(***************************************************************************)
Remember(wanted) == transition' = wanted /\ UNCHANGED <<aborted, calibrating>>

AlreadyThere(there) ==
    /\ current = there
    /\ Remember("Unchanged")
    /\ Publish(<<>>)
    /\ UNCHANGED <<enableVars, driveVars, current, findBottomIterations>>

StartFromUnknown(wanted) ==
    /\ current = "Unknown"
    /\ motorEnable
    /\ doorStartFindingBottom("FindBottom", "FindBottom_WaitingForEnabledMotor")
    /\ Publish(motorEnableEvents \o StartEvents)
    /\ Remember(wanted)

OnlyRemember(wanted) ==
    /\ current \notin {"Opened", "Closed", "Unknown"}
    /\ Remember(wanted)
    /\ Publish(<<>>)
    /\ UNCHANGED <<enableVars, driveVars, current, findBottomIterations>>

doorOnOpenScheduleActioned ==
    \/ AlreadyThere("Opened")
    \/ /\ current = "Closed"
       /\ motorEnable
       /\ doorStartOpening("Opening", "Opening_WaitingForEnabledMotor")
       /\ Publish(motorEnableEvents \o StartEvents)
       /\ Remember("Open")
    \/ StartFromUnknown("Open")
    \/ OnlyRemember("Open")

doorOnCloseScheduleActioned ==
    \/ AlreadyThere("Closed")
    \/ /\ current = "Opened"
       /\ motorEnable
       /\ doorStartClosing("Closing", "Closing_WaitingForEnabledMotor")
       /\ Publish(motorEnableEvents \o StartEvents)
       /\ Remember("Close")
    \/ StartFromUnknown("Close")
    \/ OnlyRemember("Close")
-----------------------------------------------------------------------------
(***************************************************************************)
(* DoorOnMotorEnabled.c                                                    *)
(***************************************************************************)
doorOnMotorEnabled ==
    /\ UNCHANGED enableVars
    /\ \/ /\ current = "Opening_WaitingForEnabledMotor"
          /\ doorStartOpening("Opening", "Unknown")
          /\ Publish(StartEvents)
       \/ /\ current = "Closing_WaitingForEnabledMotor"
          /\ doorStartClosing("Closing", "Unknown")
          /\ Publish(StartEvents)
       \/ /\ current = "FindBottom_WaitingForEnabledMotor"
          /\ doorStartFindingBottom("FindBottom", "Unknown")
          /\ Publish(StartEvents)
       \/ /\ current = "ManualOpening_WaitingForEnabledMotor"
          /\ doorStartOpening("ManualOpening", "Unknown")
          /\ Publish(StartEvents)
       \/ /\ current = "ManualClosing_WaitingForEnabledMotor"
          /\ doorStartClosing("ManualClosing", "Unknown")
          /\ Publish(StartEvents)
       \/ /\ current \notin Waiting
          /\ current' = "Unknown"
          /\ Publish(<<>>)
          /\ UNCHANGED <<driveVars, findBottomIterations>>
    /\ UNCHANGED <<transition, aborted, calibrating>>
-----------------------------------------------------------------------------
(***************************************************************************)
(* DoorOnMotorStopped.c                                                    *)
(***************************************************************************)
\* motorFaulted: `fault' is the door's own diagnosis, or "none".
Diagnosis(fault) ==
    IF fault # "none" THEN fault
    ELSE IF "encoderOverflow" \in stopped.fault THEN "lineTooLong"
    ELSE IF "encoderTimeout" \in stopped.fault THEN "encoderBroken"
    ELSE "none"

MotorFaulted(fault) ==
    /\ motorDisable
    /\ current' = "Fault"
    /\ aborted' = Diagnosis(fault)
    /\ Publish(motorDisableEvents \o <<"DOOR_ABORTED">>)
    /\ UNCHANGED <<driveVars, transition, findBottomIterations, calibrating>>

Faulted == stopped.fault # {}
CurrentLimited(fault) == IF "currentLimited" \in stopped.fault THEN fault ELSE "none"

ArrivedAt(state, event) ==
    /\ motorDisable
    /\ current' = state
    /\ transition' = "Unchanged"
    /\ Publish(motorDisableEvents \o <<event>>)
    /\ UNCHANGED <<driveVars, findBottomIterations, aborted, calibrating>>

\* Mutant of OpeningStopped: a close schedule that came due meanwhile is forgotten.
OpeningStoppedRegardless ==
    \/ Faulted /\ MotorFaulted(CurrentLimited("jammed"))
    \/ ~Faulted /\ ArrivedAt("Opened", "DOOR_OPENED")

\* Mutant of OpeningStopped: only a jam counts as a fault.
OpeningStoppedIfNotJammed ==
    \/ "currentLimited" \in stopped.fault /\ MotorFaulted("jammed")
    \/ /\ "currentLimited" \notin stopped.fault
       /\ ArrivedAt("Opened", "DOOR_OPENED")

OpeningStopped ==
    \/ Faulted /\ MotorFaulted(CurrentLimited("jammed"))
    \/ ~Faulted /\ transition # "Close" /\ ArrivedAt("Opened", "DOOR_OPENED")
    \/ /\ ~Faulted /\ transition = "Close"
       /\ UNCHANGED enableVars
       /\ doorStartClosing("Closing", "Closing")
       /\ Publish(<<"DOOR_OPENED">> \o StartEvents)
       /\ UNCHANGED <<transition, aborted, calibrating>>

\* Mutant of ClosingStopped: an open schedule that came due meanwhile is forgotten.
ClosingStoppedRegardless ==
    \/ Faulted /\ MotorFaulted(CurrentLimited("reversed"))
    \/ ~Faulted /\ ArrivedAt("Closed", "DOOR_CLOSED")

ClosingStopped ==
    \/ Faulted /\ MotorFaulted(CurrentLimited("reversed"))
    \/ ~Faulted /\ transition # "Open" /\ ArrivedAt("Closed", "DOOR_CLOSED")
    \/ /\ ~Faulted /\ transition = "Open"
       /\ UNCHANGED enableVars
       /\ doorStartOpening("Opening", "Opening")
       /\ Publish(<<"DOOR_CLOSED">> \o StartEvents)
       /\ UNCHANGED <<transition, aborted, calibrating>>

\* The bottom is found by raising the slack line until the door's weight tells.
TriesAgain(count, iterations) ==
    /\ motorOn(count)
    /\ findBottomIterations' = iterations
    /\ Publish(motorOnEvents(count))
    /\ UNCHANGED <<enableVars, modulesOn, limit, current, transition, aborted, calibrating>>

FoundBottom ==
    \/ /\ transition # "Open"
       /\ motorDisable
       /\ current' = "Closed"
       /\ transition' = "Unchanged"
       /\ Publish(<<"DOOR_CLOSED">> \o motorDisableEvents)
       /\ UNCHANGED <<driveVars, findBottomIterations, aborted, calibrating>>
    \/ /\ transition = "Open"
       /\ UNCHANGED enableVars
       /\ doorStartOpening("Opening", "Opening")
       /\ Publish(<<"DOOR_CLOSED">> \o StartEvents)
       /\ UNCHANGED <<transition, aborted, calibrating>>

FindBottomStopped ==
    \/ /\ stopped.requestedCount < 0
       /\ \/ Faulted /\ MotorFaulted(CurrentLimited("reversed"))
          \/ ~Faulted /\ TriesAgain(FindBottomRaising, (findBottomIterations + 1) % ByteModulus)
    \/ /\ stopped.requestedCount >= 0
       /\ "currentLimited" \in stopped.fault
       /\ \/ stopped.actualCount > FindBottomThreshold /\ FoundBottom
          \/ /\ stopped.actualCount <= FindBottomThreshold
             /\ findBottomIterations = MaxFindBottomIterations
             /\ MotorFaulted("lineTooLong")
          \/ /\ stopped.actualCount <= FindBottomThreshold
             /\ findBottomIterations # MaxFindBottomIterations
             /\ TriesAgain(FindBottomLowering, findBottomIterations)
    \/ /\ stopped.requestedCount >= 0
       /\ "currentLimited" \notin stopped.fault
       /\ MotorFaulted(IF stopped.fault = {} \/ "encoderOverflow" \in stopped.fault
                         THEN "lineSnapped" ELSE "none")

ManualStopped(fault) ==
    \/ Faulted /\ MotorFaulted(CurrentLimited(fault))
    \/ /\ ~Faulted
       /\ motorDisable
       /\ current' = "Unknown"
       /\ Publish(motorDisableEvents)
       /\ UNCHANGED <<driveVars, transition, findBottomIterations, aborted, calibrating>>

doorOnMotorStopped ==
    \/ current = "Opening" /\ OpeningStopped
    \/ current = "Closing" /\ ClosingStopped
    \/ current = "FindBottom" /\ FindBottomStopped
    \/ current = "ManualOpening" /\ ManualStopped("jammed")
    \/ current = "ManualClosing" /\ ManualStopped("reversed")
    \/ /\ current \in {"Fault", "Unknown"}
       /\ Publish(<<>>)
       /\ UNCHANGED <<enableVars, driveVars, doorVars>>
    \/ /\ current \in Waiting \ {"FindBottom_WaitingForEnabledMotor"}
       /\ motorDisable
       /\ current' = "Unknown"
       /\ Publish(motorDisableEvents)
       /\ UNCHANGED <<driveVars, transition, findBottomIterations, aborted, calibrating>>
    \/ /\ current \in {"FindBottom_WaitingForEnabledMotor", "Opened", "Closed"}
       /\ current' = "Unknown"
       /\ Publish(<<>>)
       /\ UNCHANGED <<enableVars, driveVars, transition, findBottomIterations, aborted, calibrating>>
-----------------------------------------------------------------------------
(***************************************************************************)
(* DoorManualOverride.c and DoorCalibrate.c                                *)
(***************************************************************************)
doorManualStartOpening ==
    /\ motorEnable
    /\ doorStartOpening("ManualOpening", "ManualOpening_WaitingForEnabledMotor")
    /\ Publish(motorEnableEvents \o StartEvents)
    /\ UNCHANGED <<transition, aborted, calibrating>>

doorManualStartClosing ==
    /\ motorEnable
    /\ doorStartClosing("ManualClosing", "ManualClosing_WaitingForEnabledMotor")
    /\ Publish(motorEnableEvents \o StartEvents)
    /\ UNCHANGED <<transition, aborted, calibrating>>

doorManualStop ==
    /\ motorOff
    /\ Publish(<<>>)
    /\ UNCHANGED <<enableVars, modulesOn, limit, doorVars>>

doorCalibrate ==
    /\ motorEnable
    /\ doorStartFindingBottom("FindBottom", "FindBottom_WaitingForEnabledMotor")
    /\ Publish(motorEnableEvents \o StartEvents)
    /\ calibrating' = TRUE
    /\ UNCHANGED <<transition, aborted>>

\* Mutant of onDoorClosedForCalibration: the result is not published.
CalibratedInSilence ==
    /\ Publish(<<>>)
    /\ calibrating' = FALSE
    /\ UNCHANGED <<enableVars, driveVars, current, transition, findBottomIterations, aborted>>

onDoorClosedForCalibration ==
    /\ Publish(IF calibrating THEN <<"DOOR_CALIBRATED">> ELSE <<>>)
    /\ calibrating' = FALSE
    /\ UNCHANGED <<enableVars, driveVars, current, transition, findBottomIterations, aborted>>

onDoorAbortedForCalibration ==
    /\ Publish(<<>>)
    /\ calibrating' = FALSE
    /\ UNCHANGED <<enableVars, driveVars, current, transition, findBottomIterations, aborted>>

=============================================================================

------------------------------- MODULE Motor -------------------------------
(***************************************************************************)
(* Platform/Motor: the winch's motor, its current limit and its encoder.   *)
(*                                                                         *)
(* Once started the motor is stopped by hardware (the encoder reaches the  *)
(* count asked for, or the current reaches the limit) or by motorOff(); a  *)
(* monitor of the near scheduler waits for the encoder to come to rest and *)
(* only then is MOTOR_STOPPED published.  The event carries a pointer to a *)
(* static record, so its handlers read `stopped' as it is when they run.   *)
(***************************************************************************)
EXTENDS VoltageRegulator, PwmTimer

CONSTANTS
    EncoderStaticCountLimit,    \* ENCODER_STATIC_COUNT_LIMIT
    PwmStart, PwmLast, PwmStep  \* the ramp of PWM4DCH: 12, 62 and 2

\* With fewer static samples the monitor could publish MOTOR_STOPPED in the very
\* wake-up that is to tell motorOff() of a shutdown.
ASSUME MotorAssumption ==
    /\ EncoderStaticCountLimit \in Nat /\ EncoderStaticCountLimit >= 2
    /\ {PwmStart, PwmLast, PwmStep} \subseteq Nat
    /\ PwmStart <= PwmLast

VARIABLES
    motorEnableCount,
    isFullyEnabled,
    modulesOn,          \* the motor's peripherals are enabled
    steering,           \* CWG1STR: "off", "raise" (A) or "lower" (B)
    SHUTDOWN,           \* CWG1AS0bits.SHUTDOWN: the brake is on
    limit,              \* DAC1CON1: "NoLoad" or "MaximumLoad"
    CCPR1,              \* the count that stops the motor
    TMR1,               \* the encoder's count
    C1IF, TMR1IF, CWG1IF,
    PWM4DCH,
    motorRunningState,  \* "STOPPED", "STARTING" or "STARTED"
    startedCount,       \* motorStartedEventArgs.count
    stopped,            \* motorStoppedEventArgs
    previousEncoderValue, encoderStaticCount,
    rampScheduled, monitorScheduled

enableVars == <<vregVars, pwmVars, motorEnableCount, isFullyEnabled>>
flagVars == <<C1IF, TMR1IF, CWG1IF>>
monitorVars == <<previousEncoderValue, encoderStaticCount>>
runVars == <<steering, SHUTDOWN, CCPR1, TMR1, flagVars, PWM4DCH, motorRunningState,
             startedCount, stopped, monitorVars, rampScheduled, monitorScheduled>>
driveVars == <<modulesOn, limit, runVars>>

motorInitialise ==
    /\ voltageRegulatorInitialise
    /\ pwmTimerInitialise
    /\ motorEnableCount = 0
    /\ isFullyEnabled = FALSE
    /\ modulesOn = FALSE
    /\ steering = "off"
    /\ SHUTDOWN = FALSE
    /\ limit = "MaximumLoad"
    /\ CCPR1 = 0
    /\ TMR1 = 0
    /\ C1IF = FALSE /\ TMR1IF = FALSE /\ CWG1IF = FALSE
    /\ PWM4DCH = 0
    /\ motorRunningState = "STOPPED"
    /\ startedCount = 0
    /\ stopped = [actualCount |-> 0, requestedCount |-> 0, fault |-> {}]
    /\ previousEncoderValue = 0
    /\ encoderStaticCount = 0
    /\ rampScheduled = FALSE
    /\ monitorScheduled = FALSE
-----------------------------------------------------------------------------
(***************************************************************************)
(* MotorEnableDisable.c and MotorSetLimits.c                               *)
(***************************************************************************)
motorEnable ==
    /\ motorEnableCount' = motorEnableCount + 1
    /\ IF motorEnableCount = 0
         THEN /\ voltageRegulatorEnable
              /\ pwmTimerEnable
              /\ isFullyEnabled' = (isFullyEnabled \/ fullyEnabled)
         ELSE UNCHANGED <<vregVars, pwmVars, isFullyEnabled>>

\* Mutant of motorEnableEvents: MOTOR_ENABLED before the supply is up.
EnabledTooSoon == <<"MOTOR_ENABLED">>

motorEnableEvents ==
    IF motorEnableCount = 0 /\ fullyEnabled THEN <<"MOTOR_ENABLED">> ELSE <<>>

motorDisable ==
    IF motorEnableCount = 1
      THEN /\ motorEnableCount' = 0
           /\ isFullyEnabled' = FALSE
           /\ pwmTimerDisable
           /\ voltageRegulatorDisable
      ELSE /\ motorEnableCount' = IF motorEnableCount = 0 THEN 0 ELSE motorEnableCount - 1
           /\ UNCHANGED <<vregVars, pwmVars, isFullyEnabled>>

motorDisableEvents ==
    IF motorEnableCount = 1
      THEN <<"MOTOR_DISABLED">> \o voltageRegulatorDisableEvents
      ELSE <<>>

motorLimitIs(load) == limit' = load
-----------------------------------------------------------------------------
(***************************************************************************)
(* MotorInitialise.c: the handlers of the events the motor subscribes to.  *)
(***************************************************************************)
onVoltageRegulatorEnabled ==
    /\ modulesOn' = TRUE
    /\ limit' = "MaximumLoad"
    /\ TMR1' = 0
    /\ CCPR1' = 0
    /\ steering' = "off"
    /\ C1IF' = FALSE /\ TMR1IF' = FALSE /\ CWG1IF' = FALSE
    /\ SHUTDOWN' = FALSE
    /\ PWM4DCH' = 0
    /\ isFullyEnabled' = (isFullyEnabled \/ motorEnableCount # 0)
    /\ UNCHANGED <<vregVars, pwmVars, motorEnableCount, motorRunningState, startedCount,
                   stopped, monitorVars, rampScheduled, monitorScheduled>>

\* Mutant of onVoltageRegulatorEnabledEvents: nobody hears of it.
EnabledInSilence == <<>>

onVoltageRegulatorEnabledEvents ==
    IF motorEnableCount # 0 THEN <<"MOTOR_ENABLED">> ELSE <<>>

\* Mutant of onVoltageRegulatorDisabled: the peripherals are left on.
ModulesLeftOn == UNCHANGED <<enableVars, driveVars>>

\* A disabled peripheral loses its registers.
onVoltageRegulatorDisabled ==
    /\ modulesOn' = FALSE
    /\ steering' = "off"
    /\ SHUTDOWN' = FALSE
    /\ TMR1' = 0
    /\ CCPR1' = 0
    /\ PWM4DCH' = 0
    /\ UNCHANGED <<enableVars, limit, flagVars, motorRunningState, startedCount,
                   stopped, monitorVars, rampScheduled, monitorScheduled>>
-----------------------------------------------------------------------------
(***************************************************************************)
(* MotorOnOff.c                                                            *)
(***************************************************************************)
Magnitude(count) == IF count < 0 THEN -count ELSE count

Startable(count) == count # 0 /\ steering = "off" /\ motorRunningState = "STOPPED"

motorOn(count) ==
    IF Startable(count)
      THEN /\ motorRunningState' = "STARTING"
           /\ startedCount' = count
           /\ PWM4DCH' = PwmStart
           /\ CCPR1' = Magnitude(count)
           /\ TMR1' = 0
           /\ C1IF' = FALSE /\ TMR1IF' = FALSE /\ CWG1IF' = FALSE
           /\ SHUTDOWN' = FALSE
           /\ steering' = IF ~modulesOn THEN "off"
                          ELSE IF count < 0 THEN "lower" ELSE "raise"
           /\ rampScheduled' = TRUE
           /\ monitorScheduled' = TRUE
           /\ UNCHANGED <<stopped, monitorVars>>
      ELSE UNCHANGED runVars

motorOnEvents(count) == IF Startable(count) THEN <<"MOTOR_STARTED">> ELSE <<>>

incrementPwmDutyCycle ==
    /\ rampScheduled' = (steering # "off" /\ PWM4DCH # PwmLast)
    /\ PWM4DCH' = IF steering # "off" THEN PWM4DCH + PwmStep ELSE PWM4DCH
    /\ UNCHANGED <<enableVars, modulesOn, limit, steering, SHUTDOWN, CCPR1, TMR1, flagVars,
                   motorRunningState, startedCount, stopped, monitorVars, monitorScheduled>>

\* Mutant of motorOff: the flags are cleared before they are read.
OffForgettingFaults ==
    /\ SHUTDOWN' = TRUE
    /\ steering' = "off"
    /\ stopped' =
         IF steering = "off" THEN stopped
         ELSE [stopped EXCEPT !.requestedCount = startedCount, !.fault = {}]
    /\ C1IF' = FALSE /\ TMR1IF' = FALSE /\ CWG1IF' = FALSE
    /\ UNCHANGED <<CCPR1, TMR1, PWM4DCH, motorRunningState, startedCount, monitorVars,
                   rampScheduled, monitorScheduled>>

motorOff ==
    /\ SHUTDOWN' = TRUE
    /\ steering' = "off"
    /\ stopped' =
         IF steering = "off" THEN stopped
         ELSE [stopped EXCEPT
                 !.requestedCount = startedCount,
                 !.fault = {f \in {"currentLimited", "encoderOverflow"} :
                              \/ f = "currentLimited" /\ C1IF
                              \/ f = "encoderOverflow" /\ TMR1IF}]
    /\ C1IF' = FALSE /\ TMR1IF' = FALSE /\ CWG1IF' = FALSE
    /\ UNCHANGED <<CCPR1, TMR1, PWM4DCH, motorRunningState, startedCount, monitorVars,
                   rampScheduled, monitorScheduled>>

onWokenFromSleep ==
    /\ IF CWG1IF \/ TMR1IF \/ C1IF THEN motorOff ELSE UNCHANGED runVars
    /\ UNCHANGED <<enableVars, modulesOn, limit>>

\* The motor came to rest: what the monitor reports of the run.
FellShort(actual) ==
    IF stopped.requestedCount < 0 THEN actual > stopped.requestedCount
                                  ELSE actual < stopped.requestedCount

Report ==
    LET actual == IF stopped.requestedCount < 0 THEN -TMR1 ELSE TMR1
    IN  [stopped EXCEPT
           !.actualCount = actual,
           !.fault = IF @ = {} /\ FellShort(actual) THEN {"encoderTimeout"} ELSE @]

IsStatic == motorRunningState = "STARTED" /\ TMR1 = previousEncoderValue
HasStopped == IsStatic /\ encoderStaticCount + 1 = EncoderStaticCountLimit

\* Mutant of motorRunningStateMonitor: it only samples once.
MonitorOnce ==
    /\ encoderStaticCount' = 0
    /\ motorRunningState' =
         IF motorRunningState = "STARTING" THEN "STARTED" ELSE motorRunningState
    /\ previousEncoderValue' = TMR1
    /\ monitorScheduled' = FALSE
    /\ UNCHANGED <<enableVars, modulesOn, limit, steering, SHUTDOWN, CCPR1, TMR1, flagVars,
                   PWM4DCH, startedCount, stopped, rampScheduled>>

motorRunningStateMonitor ==
    /\ encoderStaticCount' = IF IsStatic THEN encoderStaticCount + 1 ELSE 0
    /\ IF HasStopped
         THEN /\ stopped' = Report
              /\ motorRunningState' = "STOPPED"
              /\ SHUTDOWN' = FALSE
              /\ monitorScheduled' = FALSE
              /\ UNCHANGED previousEncoderValue
         ELSE /\ motorRunningState' =
                   IF motorRunningState = "STARTING" THEN "STARTED" ELSE motorRunningState
              /\ previousEncoderValue' = TMR1
              /\ monitorScheduled' = TRUE
              /\ UNCHANGED <<stopped, SHUTDOWN>>
    /\ UNCHANGED <<enableVars, modulesOn, limit, steering, CCPR1, TMR1, flagVars, PWM4DCH,
                   startedCount, rampScheduled>>

motorRunningStateMonitorEvents == IF HasStopped THEN <<"MOTOR_STOPPED">> ELSE <<>>
-----------------------------------------------------------------------------
(***************************************************************************)
(* The hardware behind the registers.                                      *)
(***************************************************************************)
Driven == modulesOn /\ steering # "off" /\ ~SHUTDOWN

\* The winch turns: driven, or coasting after it was.
EncoderPulse(maxEncoder) ==
    /\ modulesOn
    /\ Driven \/ motorRunningState # "STOPPED"
    /\ TMR1 < maxEncoder
    /\ TMR1' = TMR1 + 1
    /\ LET reached == TMR1' = CCPR1
       IN  /\ SHUTDOWN' = (SHUTDOWN \/ reached)
           /\ CWG1IF' = (CWG1IF \/ reached)
    /\ UNCHANGED <<enableVars, modulesOn, limit, steering, CCPR1, C1IF, TMR1IF, PWM4DCH,
                   motorRunningState, startedCount, stopped, monitorVars, rampScheduled,
                   monitorScheduled>>

\* The comparator sees the current limit.
CurrentTrip ==
    /\ Driven
    /\ C1IF' = TRUE
    /\ SHUTDOWN' = TRUE
    /\ CWG1IF' = TRUE
    /\ UNCHANGED <<enableVars, modulesOn, limit, steering, CCPR1, TMR1, TMR1IF, PWM4DCH,
                   motorRunningState, startedCount, stopped, monitorVars, rampScheduled,
                   monitorScheduled>>

\* The shutdown at the target has failed and the encoder's counter overflows.
EncoderOverflow ==
    /\ Driven
    /\ TMR1IF' = TRUE
    /\ TMR1' = 0
    /\ UNCHANGED <<enableVars, modulesOn, limit, steering, SHUTDOWN, CCPR1, C1IF, CWG1IF,
                   PWM4DCH, motorRunningState, startedCount, stopped, monitorVars,
                   rampScheduled, monitorScheduled>>

MotorPending ==
    {c \in {"ramp", "monitor"} : \/ c = "ramp" /\ rampScheduled
                                 \/ c = "monitor" /\ monitorScheduled}

=============================================================================

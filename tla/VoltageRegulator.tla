-------------------------- MODULE VoltageRegulator --------------------------
(***************************************************************************)
(* Platform/VoltageRegulator.c: the reference-counted supply of the motor  *)
(* and the LCD.  Enabling it takes two waits of the near scheduler, one    *)
(* for the regulator and one for the processor's own supply once it has    *)
(* been switched over; neither is cancelled when the supply is disabled.   *)
(***************************************************************************)
EXTENDS MainLoop

VARIABLES
    vregEnableCount,
    fullyEnabled,
    LATB2,              \* the regulator's enable pin
    LATB0,              \* the processor is supplied by the regulator
    regulatedWaits,     \* pending onRegulatedVoltageRailStabilised schedules
    mcuWaits            \* pending onMcuVoltageRailStabilised schedules

vregVars == <<vregEnableCount, fullyEnabled, LATB2, LATB0, regulatedWaits, mcuWaits>>

voltageRegulatorInitialise ==
    /\ vregEnableCount = 0
    /\ fullyEnabled = FALSE
    /\ LATB2 = FALSE
    /\ LATB0 = FALSE
    /\ regulatedWaits = 0
    /\ mcuWaits = 0

\* Mutant of voltageRegulatorEnable: each client waits for the supply.
EnableWaitingAgain ==
    /\ LATB2' = TRUE
    /\ vregEnableCount' = vregEnableCount + 1
    /\ regulatedWaits' = regulatedWaits + 1
    /\ UNCHANGED <<fullyEnabled, LATB0, mcuWaits>>

voltageRegulatorEnable ==
    /\ LATB2' = TRUE
    /\ vregEnableCount' = vregEnableCount + 1
    /\ regulatedWaits' = regulatedWaits + (IF vregEnableCount = 0 THEN 1 ELSE 0)
    /\ UNCHANGED <<fullyEnabled, LATB0, mcuWaits>>

\* Mutant of LastClient: the first of two clients switches the supply off.
LastClientOfTwo == vregEnableCount <= 2

LastClient == vregEnableCount <= 1

voltageRegulatorDisable ==
    \/ /\ ~LastClient
       /\ vregEnableCount' = vregEnableCount - 1
       /\ UNCHANGED <<fullyEnabled, LATB2, LATB0, regulatedWaits, mcuWaits>>
    \/ /\ LastClient
       /\ vregEnableCount' = 0
       /\ fullyEnabled' = IF vregEnableCount = 1 THEN FALSE ELSE fullyEnabled
       /\ LATB2' = FALSE
       /\ LATB0' = FALSE
       /\ UNCHANGED <<regulatedWaits, mcuWaits>>

voltageRegulatorDisableEvents ==
    IF vregEnableCount = 1 /\ fullyEnabled THEN <<"VOLTAGE_REGULATOR_DISABLED">> ELSE <<>>

\* The near scheduler's handler, while something still wants the supply.
onRegulatedVoltageRailStabilised ==
    /\ regulatedWaits' = regulatedWaits - 1
    /\ IF vregEnableCount # 0
         THEN LATB0' = TRUE /\ mcuWaits' = mcuWaits + 1
         ELSE UNCHANGED <<LATB0, mcuWaits>>
    /\ UNCHANGED <<vregEnableCount, fullyEnabled, LATB2>>

onMcuVoltageRailStabilised ==
    /\ mcuWaits' = mcuWaits - 1
    /\ fullyEnabled' = (fullyEnabled \/ vregEnableCount # 0)
    /\ UNCHANGED <<vregEnableCount, LATB2, LATB0, regulatedWaits>>

onMcuVoltageRailStabilisedEvents ==
    IF vregEnableCount # 0 THEN <<"VOLTAGE_REGULATOR_ENABLED">> ELSE <<>>

VregPending ==
    {c \in {"regulated", "mcu"} : \/ c = "regulated" /\ regulatedWaits # 0
                                  \/ c = "mcu" /\ mcuWaits # 0}

=============================================================================

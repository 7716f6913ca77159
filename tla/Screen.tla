------------------------------- MODULE Screen -------------------------------
(***************************************************************************)
(* Ui/UiScreen.c over the LCD, the supply and the buttons: when the screen *)
(* is on, and how what is to be seen on it gets there.  A screen is drawn  *)
(* ("blitted") by seven transactions, each started by the callback of the  *)
(* one before; what changes meanwhile makes it dirty, and it is redrawn.   *)
(*                                                                         *)
(* Which screens there are is module Ui's business.  Here a button that is *)
(* pressed or let go changes a character, or everything, or nothing, and   *)
(* the end of a calibration of the door replaces the screen by itself.     *)
(*                                                                         *)
(* `disturbed' is a history variable.  Three coincidences spoil a screen   *)
(* until it is next switched off: the supply coming up, for the motor, just*)
(* as the screen is switched on, which configures the LCD twice at once;   *)
(* two presses in the tick that switched the screen off, the first of which*)
(* switches it on and the second of which draws on an LCD that is not up   *)
(* yet; and the splash screen ending in that tick, which begins a drawing  *)
(* that is still marked as going on when the screen is switched on again.  *)
(***************************************************************************)
EXTENDS Buttons, Lcd, SequencesExt

CONSTANTS
    ScreenTimeoutSeconds,   \* nvmSettings.application.ui.screenTimeoutSeconds
    Scenarios               \* the buttons used, whether the motor runs, and the settings

ASSUME ScreenAssumption ==
    /\ ScreenTimeoutSeconds \in 2 .. 255
    /\ Scenarios \subseteq [buttons : SUBSET BothButtons, motorRuns : BOOLEAN,
                            isCalibrationRequired : BOOLEAN]

VARIABLES
    lcdState,
    uiState,
    screenTimeoutCount,
    isTimeoutScheduled,     \* uiScreenTimeoutSchedule is pending
    isSplashScheduled,      \* and so is that of UiSystemInitialised.c
    lasting,                \* what was going on then still goes on
    isMotorEnabled,
    scenario,               \* one of Scenarios, throughout
    disturbed               \* history, see above

timeoutVars == <<screenTimeoutCount, isTimeoutScheduled, lasting>>
supplyVars == <<vregVars, pwmVars>>
screenVars == <<lcdState, uiState, timeoutVars, isSplashScheduled, disturbed>>
vars == <<loopVars, buttonVars, supplyVars, screenVars, isMotorEnabled, scenario>>

NoCursor == <<3, 1>>
CursorPositions == {NoCursor, <<2, 1>>}
NearScheduleSlots == 8

Init ==
    /\ queue = <<"SYSTEM_INITIALISED">>
    /\ waking = FALSE
    /\ due = {}
    /\ scenario \in Scenarios
    /\ buttonsInitialise
    /\ PORTA \subseteq scenario.buttons
    /\ voltageRegulatorInitialise
    /\ pwmTimerInitialise
    /\ lcdState = lcdInitialised
    /\ uiState = [isScreenOn |-> FALSE, isLcdEnabled |-> FALSE,
                  isScreenTimeoutDisabled |-> FALSE,
                  isScreenBeingBlitted |-> FALSE, isScreenBlitDirty |-> FALSE,
                  pressed |-> {},   \* isLeftButtonPressed, isRightButtonPressed
                  isButtonPressPreventedFromTurningOnScreen |-> FALSE,
                  isButtonPressTurningOnScreen |-> FALSE,
                  isInputIgnored |-> TRUE,  \* uiInputIsUninitialised
                  cursorPosition |-> NoCursor]
    /\ screenTimeoutCount = 0
    /\ isTimeoutScheduled = FALSE
    /\ isSplashScheduled = FALSE
    /\ lasting = FALSE
    /\ isMotorEnabled = FALSE
    /\ disturbed = FALSE
-----------------------------------------------------------------------------
(***************************************************************************)
(* Drawing: operators from the two records, together, to the two records.  *)
(***************************************************************************)
Both == [ui |-> uiState, lcd |-> lcdState]

\* The buffer is changed: a character by the cursor, or all of it.
Increments(ui) ==
    IF ui.cursorPosition = NoCursor THEN {}
    ELSE {[ui |-> ui, lcd |-> [lcdState EXCEPT !.isCurrent[2][1] = FALSE]]}

Shows(ui) ==
    {[ui |-> [ui EXCEPT !.cursorPosition = cursor],
      lcd |-> [lcdState EXCEPT !.isCurrent = lcdInitialised.isCurrent]] :
        cursor \in CursorPositions}

\* Mutant of Redraws: a screen that is being drawn is not marked.
RedrawsNothing(b) == [b EXCEPT !.ui.isScreenBlitDirty = FALSE]

Redraws(b) == [b EXCEPT !.ui.isScreenBlitDirty = b.ui.isScreenBeingBlitted]

uiScreenBlit(b) ==
    IF ~b.ui.isLcdEnabled \/ b.ui.isScreenBeingBlitted
      THEN Redraws(b)
      ELSE [ui |-> [b.ui EXCEPT !.isScreenBlitDirty = FALSE, !.isScreenBeingBlitted = TRUE],
            lcd |-> lcdSetCursor(b.lcd, FALSE, "uiScreenSetAddressToHome")]

uiScreenSetAddressToHome(b) ==
    [b EXCEPT !.lcd = lcdSetDdramAddress(@, <<1, 1>>, "uiScreenBlitFirstLine")]

uiScreenBlitFirstLine(b) ==
    [b EXCEPT !.ui.isScreenBlitDirty = FALSE,
              !.lcd = lcdPuts(@, 1, "uiScreenGotoSecondLine")]

uiScreenGotoSecondLine(b) ==
    [b EXCEPT !.lcd = lcdSetDdramAddress(@, <<2, 1>>, "uiScreenBlitSecondLine")]

uiScreenBlitSecondLine(b) ==
    [b EXCEPT !.lcd = lcdPuts(@, 2, "uiScreenSetCursorPosition")]

uiScreenBlitDone(b) ==
    LET done == [b EXCEPT !.ui.isScreenBeingBlitted = FALSE]
    IN IF b.ui.isScreenBlitDirty THEN uiScreenBlit(done) ELSE done

uiScreenSetCursorPosition(b) ==
    IF b.ui.cursorPosition = NoCursor THEN uiScreenBlitDone(b)
    ELSE [b EXCEPT !.lcd = lcdSetDdramAddress(@, b.ui.cursorPosition, "uiScreenTurnCursorOn")]

uiScreenTurnCursorOn(b) == [b EXCEPT !.lcd = lcdSetCursor(@, TRUE, "uiScreenBlitDone")]

\* All of them but the last give up when the LCD has been disabled.
CallBack(b) ==
    IF b.lcd.callback = "uiScreenBlitDone" THEN uiScreenBlitDone(b)
    ELSE IF b.lcd.callback = NoCallback \/ ~b.ui.isLcdEnabled THEN b
    ELSE
    CASE b.lcd.callback = "uiScreenSetAddressToHome" -> uiScreenSetAddressToHome(b)
      [] b.lcd.callback = "uiScreenBlitFirstLine" -> uiScreenBlitFirstLine(b)
      [] b.lcd.callback = "uiScreenGotoSecondLine" -> uiScreenGotoSecondLine(b)
      [] b.lcd.callback = "uiScreenBlitSecondLine" -> uiScreenBlitSecondLine(b)
      [] b.lcd.callback = "uiScreenSetCursorPosition" -> uiScreenSetCursorPosition(b)
      [] b.lcd.callback = "uiScreenTurnCursorOn" -> uiScreenTurnCursorOn(b)

lcdTransactionCompleted(b) == CallBack([b EXCEPT !.lcd.isBusy = FALSE])

lcdPutsStateMachine(b, line, column) ==
    IF column <= Width
      THEN [b EXCEPT !.lcd = lcdWriteCharacter(@, line, column)]
      ELSE lcdTransactionCompleted(b)

\* A blit that the LCD drops, being busy, or that it is about to give up.
IsDropped(b) ==
    /\ b.ui.isLcdEnabled /\ ~b.ui.isScreenBeingBlitted
    /\ b.lcd.isBusy \/ \E i \in 1 .. Len(queue) : queue[i] = "LCD_DISABLED"

Becomes(b) == uiState' = b.ui /\ lcdState' = b.lcd

Blits(b) ==
    /\ Becomes(uiScreenBlit(b))
    /\ disturbed' = (disturbed \/ IsDropped(b))
-----------------------------------------------------------------------------
(***************************************************************************)
(* On and off.                                                             *)
(***************************************************************************)
nearSchedulerAddOrUpdateTimeout ==
    /\ isTimeoutScheduled' = TRUE
    /\ lasting' = TRUE

uiScreenOn(ui) ==
    /\ uiState' = [ui EXCEPT !.isScreenOn = TRUE]
    /\ lcdState' = lcdEnable(lcdState)
    /\ IF lcdState.enableCount = 0
         THEN /\ voltageRegulatorEnable
              /\ pwmTimerEnable
         ELSE UNCHANGED supplyVars
    /\ disturbed' = ui.isScreenBeingBlitted
    /\ nearSchedulerAddOrUpdateTimeout
    /\ UNCHANGED screenTimeoutCount

\* Mutant of uiScreenStartTimeout: the seconds are not counted from the start.
StartTimeoutCountingOn ==
    /\ nearSchedulerAddOrUpdateTimeout
    /\ UNCHANGED screenTimeoutCount

uiScreenStartTimeout ==
    /\ nearSchedulerAddOrUpdateTimeout
    /\ screenTimeoutCount' = 0

\* uiScreenOff(), and so lcdDisable().
uiScreenOff ==
    /\ uiState' = [uiState EXCEPT !.isScreenBlitDirty = FALSE, !.isScreenBeingBlitted = FALSE,
                                  !.isScreenOn = FALSE]
    /\ IF uiState.isScreenOn
         THEN /\ lcdState' = lcdDisable(lcdState)
              /\ pwmTimerDisable
              /\ voltageRegulatorDisable
              /\ Publish(<<"LCD_DISABLED">> \o voltageRegulatorDisableEvents)
         ELSE /\ Publish(<<>>)
              /\ UNCHANGED <<lcdState, supplyVars>>

SecondsCounted == (IF uiState.isScreenTimeoutDisabled THEN 0 ELSE screenTimeoutCount) + 1

uiOnScreenTimeout ==
    /\ Calling("screen")
    /\ IF SecondsCounted = ScreenTimeoutSeconds
         THEN /\ uiScreenOff
              /\ screenTimeoutCount' = 0
              /\ isTimeoutScheduled' = FALSE
              /\ UNCHANGED lasting
         ELSE /\ Publish(<<>>)
              /\ screenTimeoutCount' = SecondsCounted
              /\ nearSchedulerAddOrUpdateTimeout
              /\ UNCHANGED <<lcdState, uiState, supplyVars>>
    /\ UNCHANGED <<waking, buttonVars, isSplashScheduled, isMotorEnabled, disturbed>>
-----------------------------------------------------------------------------
(***************************************************************************)
(* Waking.  A second is longer than it takes the supply to come up, the LCD*)
(* to be configured and the screen to be drawn, about half of one: of what *)
(* was going on when a wait of a second began nothing lasts until its end. *)
(***************************************************************************)
IsDrawing == lcdState.waits # <<>> \/ (uiState.isScreenOn /\ VregPending # {})

Pending ==
    VregPending
      \cup {c \in {"lcd"} : lcdState.waits # <<>>}
      \cup {c \in {"buttons"} : isBouncing}
      \cup {c \in {"screen"} : isTimeoutScheduled /\ ~(lasting /\ IsDrawing)}
      \cup {c \in {"splash"} : isSplashScheduled /\ ~(lasting /\ IsDrawing)}

WakeUp ==
    /\ Wake(Pending)
    /\ queue' = <<>> \/ scenario.motorRuns
    /\ due' # {} \/ queue' # <<>> \/ IOCIF
    /\ lasting' = (lasting /\ IsDrawing)
    /\ UNCHANGED <<buttonVars, supplyVars, lcdState, uiState, screenTimeoutCount,
                   isTimeoutScheduled, isSplashScheduled, isMotorEnabled, disturbed>>

WokenEnds ==
    /\ waking
    /\ due = {}
    /\ onWokenFromSleep
    /\ waking' = FALSE
    /\ UNCHANGED <<queue, due, supplyVars, screenVars, isMotorEnabled>>

RegulatedStabilises ==
    /\ Calling("regulated")
    /\ onRegulatedVoltageRailStabilised
    /\ Publish(<<>>)
    /\ UNCHANGED <<waking, buttonVars, pwmVars, screenVars, isMotorEnabled>>

McuStabilises ==
    /\ Calling("mcu")
    /\ onMcuVoltageRailStabilised
    /\ Publish(onMcuVoltageRailStabilisedEvents)
    /\ UNCHANGED <<waking, buttonVars, pwmVars, screenVars, isMotorEnabled>>

ButtonsStopBouncing ==
    /\ Calling("buttons")
    /\ onButtonsStoppedBouncing
    /\ Publish(onButtonsStoppedBouncingEvents)
    /\ UNCHANGED <<waking, supplyVars, screenVars, isMotorEnabled>>

\* What was going on has ended, and all of it is begun again.
IsRedrawing ==
    /\ lcdState.callback # "uiScreenSetAddressToHome"
    /\ lcdState'.callback = "uiScreenSetAddressToHome"

\* One of the LCD's near schedules, which differ in length.  A transaction that was going
\* on when the LCD was switched off, of 32 ticks at most, is over before a configuration,
\* which takes 40, is.
Outlasts(i) ==
    LET waits == lcdState.waits
    IN waits[i].handler = "lcdConfigureStateMachine" /\ waits[i].at = LastStep =>
           \A j \in 1 .. Len(waits) : waits[j].handler = waits[i].handler

LcdWaitEnds ==
    \E i \in 1 .. Len(lcdState.waits) :
        LET wait == lcdState.waits[i]
            b == [Both EXCEPT !.lcd.waits = RemoveAt(@, i)]
        IN /\ Calling("lcd")
           /\ Outlasts(i)
           /\ \/ /\ wait.handler = "lcdConfigureStateMachine"
                 /\ Becomes([b EXCEPT !.lcd = lcdConfigureStateMachine(@, wait.at)])
                 /\ Publish(lcdConfigureStateMachineEvents(wait.at))
              \/ /\ wait.handler = "lcdPutsStateMachine"
                 /\ Becomes(lcdPutsStateMachine(b, wait.line, wait.at))
                 /\ Publish(<<>>)
              \/ /\ wait.handler = "lcdTransactionCompleted"
                 /\ Becomes(lcdTransactionCompleted(b))
                 /\ Publish(<<>>)
           /\ lasting' = (lasting /\ ~IsRedrawing)
           /\ UNCHANGED <<waking, buttonVars, supplyVars, screenTimeoutCount,
                          isTimeoutScheduled, isSplashScheduled, isMotorEnabled, disturbed>>

\* The fifth second of uiOnSplashScreenTimeout().  Starting the other timeout again
\* puts it off, even if this is its tick too.
SplashEnds ==
    /\ waking
    /\ "splash" \in due
    /\ due' = due \ {"splash", "screen"}
    /\ isSplashScheduled' = FALSE
    /\ \E b \in Shows([uiState EXCEPT !.isScreenTimeoutDisabled = FALSE]) :
           Blits([b EXCEPT !.ui =
              IF scenario.isCalibrationRequired
                THEN [@ EXCEPT !.isButtonPressPreventedFromTurningOnScreen = TRUE]
                ELSE [@ EXCEPT !.isInputIgnored = FALSE]])
    /\ uiScreenStartTimeout
    /\ Publish(<<>>)
    /\ UNCHANGED <<waking, buttonVars, supplyVars, isMotorEnabled>>

Callback == \/ RegulatedStabilises \/ McuStabilises \/ ButtonsStopBouncing
            \/ LcdWaitEnds \/ uiOnScreenTimeout \/ SplashEnds
-----------------------------------------------------------------------------
(***************************************************************************)
(* The events of the LCD, its supply and the motor.                        *)
(***************************************************************************)
uiOnSystemInitialised ==
    /\ Dispatching("SYSTEM_INITIALISED")
    /\ uiScreenOn([uiState EXCEPT !.isScreenTimeoutDisabled = TRUE])
    /\ isSplashScheduled' = TRUE
    /\ Publish(<<>>)
    /\ UNCHANGED <<waking, due, buttonVars, isMotorEnabled>>

VregEnabled ==
    /\ Dispatching("VOLTAGE_REGULATOR_ENABLED")
    /\ lcdState' = lcdOnVoltageRegulatorEnabled(lcdState)
    /\ disturbed' = (disturbed \/ (lcdState.enableCount # 0 /\ IsBeingConfigured(lcdState)))
    /\ Publish(<<>>)
    /\ UNCHANGED <<waking, due, buttonVars, supplyVars, uiState, timeoutVars,
                   isSplashScheduled, isMotorEnabled>>

uiOnLcdEnabled ==
    /\ Dispatching("LCD_ENABLED")
    /\ Blits([Both EXCEPT !.ui.isLcdEnabled = TRUE])
    /\ Publish(<<>>)
    /\ UNCHANGED <<waking, due, buttonVars, supplyVars, timeoutVars, isSplashScheduled,
                   isMotorEnabled>>

uiOnLcdDisabled ==
    /\ Dispatching("LCD_DISABLED")
    /\ uiState' = [uiState EXCEPT !.isLcdEnabled = FALSE]
    /\ Publish(<<>>)
    /\ UNCHANGED <<waking, due, buttonVars, supplyVars, lcdState, timeoutVars,
                   isSplashScheduled, isMotorEnabled, disturbed>>

\* The far scheduler may open or close the door, which enables the motor...
MotorIsEnabled ==
    /\ Dispatching("TIME_CHANGED")
    /\ ~isMotorEnabled
    /\ isMotorEnabled' = TRUE
    /\ voltageRegulatorEnable
    /\ pwmTimerEnable
    /\ Publish(<<>>)
    /\ UNCHANGED <<waking, due, buttonVars, screenVars>>

\* ...and having been told of the supply it runs, stops and is disabled, perhaps at the
\* end of a calibration.
MotorIsDisabled ==
    /\ Dispatching("TIME_CHANGED")
    /\ isMotorEnabled /\ fullyEnabled
    /\ \A i \in 1 .. Len(queue) : queue[i] # "VOLTAGE_REGULATOR_ENABLED"
    /\ isMotorEnabled' = FALSE
    /\ pwmTimerDisable
    /\ voltageRegulatorDisable
    /\ \E calibrated \in {<<>>, <<"DOOR_CALIBRATED">>} :
           Publish(calibrated \o voltageRegulatorDisableEvents)
    /\ UNCHANGED <<waking, due, buttonVars, screenVars>>

Unheard ==
    /\ \E type \in {"TIME_CHANGED", "VOLTAGE_REGULATOR_DISABLED"} : Dispatching(type)
    /\ Publish(<<>>)
    /\ UNCHANGED <<waking, due, buttonVars, supplyVars, screenVars, isMotorEnabled>>
-----------------------------------------------------------------------------
(***************************************************************************)
(* The events of the buttons and the door: UiInput.c, UiDoorControlScreen.c*)
(***************************************************************************)
Behaves(ui, changes) ==
    \/ /\ uiState' = ui
       /\ UNCHANGED <<lcdState, disturbed>>
    \/ /\ ~ui.isInputIgnored
       /\ \E b \in changes : Blits(b)

ScreenStaysOff(ui) ==
    ui.isButtonPressPreventedFromTurningOnScreen \/ ui.isScreenOn

uiInputOnButtonsPressed(button) ==
    LET ui == [uiState EXCEPT !.pressed = @ \cup {button}]
        isTurnedOn == ~ScreenStaysOff(ui)
        awake == [ui EXCEPT !.isButtonPressTurningOnScreen = isTurnedOn,
                            !.isScreenTimeoutDisabled = TRUE]
    IN /\ Dispatching(PressedEvent[button])
       /\ \/ /\ isTurnedOn
             /\ uiScreenOn(awake)
          \/ /\ ~ui.isButtonPressPreventedFromTurningOnScreen
             /\ ui.isScreenOn
             /\ Behaves(awake, IF button = "left" THEN Increments(awake) ELSE {})
             /\ UNCHANGED <<supplyVars, timeoutVars>>
          \/ /\ ui.isButtonPressPreventedFromTurningOnScreen
             /\ Behaves(ui, {})
             /\ UNCHANGED <<supplyVars, timeoutVars>>
       /\ Publish(<<>>)
       /\ UNCHANGED <<waking, due, buttonVars, isSplashScheduled, isMotorEnabled>>

uiInputOnButtonsReleased(button) ==
    LET released == uiState.pressed \ {button}
        isLast == ~uiState.isButtonPressPreventedFromTurningOnScreen /\ released = {}
        ui == [uiState EXCEPT !.pressed = released,
                              !.isScreenTimeoutDisabled = @ /\ ~isLast]
    IN /\ Dispatching(ReleasedEvent[button])
       /\ Behaves(ui, IF button = "right" /\ ~ui.isButtonPressTurningOnScreen
                        THEN Shows(ui) ELSE {})
       /\ IF isLast THEN uiScreenStartTimeout ELSE UNCHANGED timeoutVars
       /\ Publish(<<>>)
       /\ UNCHANGED <<waking, due, buttonVars, supplyVars, isSplashScheduled, isMotorEnabled>>

uiDoorOnCalibrated ==
    /\ Dispatching("DOOR_CALIBRATED")
    /\ uiScreenStartTimeout
    /\ \E b \in Shows([uiState EXCEPT !.isScreenTimeoutDisabled = FALSE]) : Blits(b)
    /\ Publish(<<>>)
    /\ UNCHANGED <<waking, due, buttonVars, supplyVars, isSplashScheduled, isMotorEnabled>>

Dispatch ==
    \/ uiOnSystemInitialised \/ VregEnabled \/ uiOnLcdEnabled \/ uiOnLcdDisabled
    \/ MotorIsEnabled \/ MotorIsDisabled \/ Unheard
    \/ \E button \in BothButtons :
           uiInputOnButtonsPressed(button) \/ uiInputOnButtonsReleased(button)
    \/ uiDoorOnCalibrated

\* Every edge wakes the processor, and is noticed no sooner.
Fingers ==
    /\ ~waking /\ queue = <<>> /\ ~IOCIF
    /\ ButtonMoves
    /\ PORTA' \subseteq scenario.buttons
    /\ UNCHANGED <<loopVars, supplyVars, screenVars, isMotorEnabled>>

Next ==
    /\ WakeUp \/ WokenEnds \/ Callback \/ Dispatch \/ Fingers
    /\ UNCHANGED scenario

Spec == Init /\ [][Next]_vars
-----------------------------------------------------------------------------
(***************************************************************************)
(* Properties.                                                             *)
(***************************************************************************)

\* What the user interface means to be seen is what is to be seen, cursor included, but
\* for what is being drawn, and a drawing that is marked as going on is: no change is
\* lost to a drawing that it overtook, to a busy LCD, or to one that was off at the time,
\* and no drawing that was given up keeps the next ones out.
AllIsDrawn ==
    /\ uiState.isScreenOn /\ uiState.isLcdEnabled
    /\ queue = <<>> /\ ~waking /\ ~disturbed
    => \/ uiState.isScreenBeingBlitted /\ lcdState.waits # <<>>
       \/ /\ ~uiState.isScreenBeingBlitted
          /\ lcdState.isDisplayOn
          /\ \A line \in Lines : \A column \in 1 .. Width : lcdState.isCurrent[line][column]
          /\ lcdState.isCursorOn = (uiState.cursorPosition # NoCursor)
          /\ lcdState.isCursorOn => lcdState.address = uiState.cursorPosition

\* The LCD is never switched off in the middle of a transaction, whose callback might
\* find another one going on: the waits of the LCD are not cancelled
\* (LcdTransaction.c:7), and it takes the counting of the seconds to outlast them.
\* It may be if a button is held down from before the end of the splash screen, or of
\* a calibration, until the seconds that are counted from there have passed.
NeverCutShort ==
    [][uiState.isScreenOn /\ ~uiState'.isScreenOn /\ uiState.pressed = {}
        => lcdState'.waits = <<>>]_vars

\* The table of near schedules never fills up (NearScheduler.c:68 drops what it has no
\* room for): the supply's waits, the LCD's, with one more of a second configuration,
\* the debouncing, the two timeouts, and the motor's ramp and monitor, which may be
\* pending at any time, leave one of the slots over.
Count(condition) == IF condition THEN 1 ELSE 0

NoScheduleIsDropped ==
    regulatedWaits + mcuWaits + Len(lcdState.waits) + Count(disturbed) + Count(isBouncing)
      + Count(isTimeoutScheduled) + Count(isSplashScheduled) + 2 < NearScheduleSlots

\* Only the splash screen or a finger keeps the screen lit: otherwise the seconds are
\* being counted, nothing stops them, and a button that was let go and not noticed
\* (Buttons.c:52 starts the debouncing again at each edge) is being looked at.  Once
\* dark it is really off: unless the motor needs the supply nothing does.
OnlyAFingerKeepsItLit ==
    /\ buttonStateSampled # PORTA => isBouncing \/ IOCIF
    /\ queue = <<>> /\ ~waking =>
        /\ uiState.pressed \subseteq buttonStateSampled
        /\ uiState.isScreenOn =>
               /\ isTimeoutScheduled
               /\ uiState.isScreenTimeoutDisabled => isSplashScheduled \/ uiState.pressed # {}
        /\ ~uiState.isScreenOn /\ ~isMotorEnabled => ~LATB2 /\ ~LATB0
=============================================================================

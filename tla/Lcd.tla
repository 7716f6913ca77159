-------------------------------- MODULE Lcd --------------------------------
(***************************************************************************)
(* Platform/Lcd/: the driver of a two-line character LCD.  It obeys one    *)
(* transaction at a time, and drops the ones it is given while it is busy; *)
(* the near scheduler waits out each, and calls back.                      *)
(*                                                                         *)
(* The driver's state is a record, and its functions are operators on it,  *)
(* because a callback starts the next transaction before it returns.  What *)
(* the LCD shows is part of the record: of a character, just whether it is *)
(* the one that is in the buffer now.  The pin of the contrast is left out.*)
(***************************************************************************)
EXTENDS VoltageRegulator, PwmTimer

CONSTANT Width      \* characters to a line

ASSUME LcdAssumption == Width \in Nat \ {0}

Lines == 1 .. 2
NoCallback == "none"

\* The near schedules of the driver.
ConfigureWait(step) == [handler |-> "lcdConfigureStateMachine", line |-> 1, at |-> step]
PutsWait(line, column) == [handler |-> "lcdPutsStateMachine", line |-> line, at |-> column]
CompletedWait == [handler |-> "lcdTransactionCompleted", line |-> 1, at |-> 0]

lcdInitialised ==
    [enableCount |-> 0, isBusy |-> TRUE, callback |-> NoCallback,
     waits |-> <<>>,                                        \* pending near schedules
     isDisplayOn |-> FALSE, isCursorOn |-> FALSE,           \* the LCD itself
     isCurrent |-> [line \in Lines |-> [column \in 1 .. Width |-> FALSE]],
     address |-> <<1, 1>>]

AddWait(l, wait) == [l EXCEPT !.waits = Append(@, wait)]

\* lcdWriteNybble() does nothing when the LCD is off.
Written(before, after) == IF before.enableCount = 0 THEN before ELSE after
-----------------------------------------------------------------------------
(***************************************************************************)
(* Enabling, configuring and disabling.                                    *)
(***************************************************************************)
IsBeingConfigured(l) ==
    \E i \in 1 .. Len(l.waits) : l.waits[i].handler = "lcdConfigureStateMachine"

lcdConfigure(l) == AddWait([l EXCEPT !.isBusy = TRUE], ConfigureWait(0))

lcdEnable(l) ==
    IF l.enableCount > 0 THEN [l EXCEPT !.enableCount = @ + 1]
    ELSE IF fullyEnabled THEN lcdConfigure([l EXCEPT !.enableCount = 1])
    ELSE [l EXCEPT !.enableCount = 1]

\* What two configurations at once do to the LCD is not modelled: see module Screen.
lcdOnVoltageRegulatorEnabled(l) ==
    IF l.enableCount = 0 \/ IsBeingConfigured(l) THEN l ELSE lcdConfigure(l)

\* Setting up the interface with the display off, in six commands; clearing it, in
\* two; switching it on; and the end.
LastStep == 3

lcdConfigureStateMachine(l, step) ==
    LET configured ==
            CASE step = 0 -> [l EXCEPT !.isDisplayOn = FALSE]
              [] step = 1 -> [l EXCEPT !.isCurrent = lcdInitialised.isCurrent, !.address = <<1, 1>>]
              [] step = 2 -> [l EXCEPT !.isDisplayOn = TRUE, !.isCursorOn = FALSE]
              [] OTHER -> l
    IN IF step = LastStep THEN [l EXCEPT !.isBusy = FALSE]
       ELSE AddWait(Written(l, configured), ConfigureWait(step + 1))

lcdConfigureStateMachineEvents(step) == IF step = LastStep THEN <<"LCD_ENABLED">> ELSE <<>>

IsLastDisable(l) == l.enableCount = 1

lcdDisable(l) ==
    IF l.enableCount = 0 THEN l
    ELSE IF IsLastDisable(l) THEN [l EXCEPT !.enableCount = 0, !.isBusy = TRUE]
    ELSE [l EXCEPT !.enableCount = @ - 1]
-----------------------------------------------------------------------------
(***************************************************************************)
(* The transactions.                                                       *)
(***************************************************************************)
lcdSetCursor(l, isOn, callback) ==
    IF l.isBusy THEN l
    ELSE AddWait([Written(l, [l EXCEPT !.isDisplayOn = TRUE, !.isCursorOn = isOn])
                     EXCEPT !.isBusy = TRUE, !.callback = callback], CompletedWait)

lcdSetDdramAddress(l, address, callback) ==
    IF l.isBusy THEN l
    ELSE AddWait([Written(l, [l EXCEPT !.address = address])
                     EXCEPT !.isBusy = TRUE, !.callback = callback], CompletedWait)

\* A character of the text is read when it is written.
lcdWriteCharacter(l, line, column) ==
    LET written == [l EXCEPT !.isCurrent[l.address[1]][l.address[2]] =
                                    l.address = <<line, column>>,
                             !.address[2] = @ + 1]
    IN AddWait(Written(l, written), PutsWait(line, column + 1))

lcdPuts(l, line, callback) ==
    IF l.isBusy THEN l
    ELSE lcdWriteCharacter([l EXCEPT !.isBusy = TRUE, !.callback = callback], line, 1)
=============================================================================

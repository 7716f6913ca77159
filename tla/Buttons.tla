------------------------------ MODULE Buttons ------------------------------
(***************************************************************************)
(* Platform/Buttons.c: the two buttons, one debouncing between them.  Any  *)
(* edge of either starts it again; what it finds when it ends is compared  *)
(* with what it found the last time.  Bouncing is a pin that changes often.*)
(***************************************************************************)
EXTENDS MainLoop

VARIABLES
    PORTA,              \* the buttons that are held down
    IOCIF,              \* an edge has been seen since this was last looked at
    isBouncing,         \* onButtonsStoppedBouncingSchedule is pending
    buttonStateSampled  \* the buttons that were found to be held down

buttonVars == <<PORTA, IOCIF, isBouncing, buttonStateSampled>>

BothButtons == {"left", "right"}

buttonsInitialise ==
    /\ PORTA \in SUBSET BothButtons
    /\ IOCIF = FALSE
    /\ isBouncing = FALSE
    /\ buttonStateSampled = PORTA

Toggle(set, x) == IF x \in set THEN set \ {x} ELSE set \cup {x}

ButtonMoves ==
    /\ \E button \in BothButtons : PORTA' = Toggle(PORTA, button)
    /\ IOCIF' = TRUE
    /\ UNCHANGED <<isBouncing, buttonStateSampled>>

onWokenFromSleep ==
    /\ isBouncing' = (isBouncing \/ IOCIF)
    /\ IOCIF' = FALSE
    /\ UNCHANGED <<PORTA, buttonStateSampled>>

PressedEvent == [left |-> "BUTTONS_PRESSED left", right |-> "BUTTONS_PRESSED right"]
ReleasedEvent == [left |-> "BUTTONS_RELEASED left", right |-> "BUTTONS_RELEASED right"]

ButtonEvents(button) ==
    IF (button \in PORTA) = (button \in buttonStateSampled) THEN <<>>
    ELSE <<IF button \in PORTA THEN PressedEvent[button] ELSE ReleasedEvent[button]>>

\* Mutant of onButtonsStoppedBouncingEvents: one event, of the first that has changed.
FirstButtonEvent ==
    IF ButtonEvents("right") # <<>> THEN ButtonEvents("right") ELSE ButtonEvents("left")

onButtonsStoppedBouncingEvents == ButtonEvents("right") \o ButtonEvents("left")

onButtonsStoppedBouncing ==
    /\ isBouncing' = FALSE
    /\ buttonStateSampled' = PORTA
    /\ UNCHANGED <<PORTA, IOCIF>>
=============================================================================

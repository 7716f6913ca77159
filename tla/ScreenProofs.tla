---------------------------- MODULE ScreenProofs ----------------------------
(***************************************************************************)
(* Proofs about module Screen, for lines and a timeout of any length and   *)
(* for any buttons and motor: nothing but the splash screen or a finger    *)
(* keeps the screen lit, and a screen that is off leaves nothing on; the   *)
(* LCD is not switched off in the middle of what it is doing; the table of *)
(* near schedules never fills up; and what is meant to be seen is seen.    *)
(*                                                                         *)
(* The first of these is apart from what is drawn: drawing changes nothing *)
(* of the user interface's record but its two flags of drawing, and nothing*)
(* of the LCD's count of clients.  The next two rest on LitInv, which goes *)
(* along with the LCD from its being switched on to its being drawn on, and*)
(* the last on LookInv too, which says how far the drawing is.             *)
(***************************************************************************)
EXTENDS Screen, TLAPS

Has(events, type) == \E i \in 1 .. Len(events) : events[i] = type
IsPending(type) == Has(queue, type)

OtherTypes ==
    {"VOLTAGE_REGULATOR_ENABLED", "VOLTAGE_REGULATOR_DISABLED", "LCD_ENABLED",
     "LCD_DISABLED", "TIME_CHANGED", "DOOR_CALIBRATED"}
Types ==
    OtherTypes \cup
    {"SYSTEM_INITIALISED", "BUTTONS_PRESSED left", "BUTTONS_PRESSED right",
     "BUTTONS_RELEASED left", "BUTTONS_RELEASED right"}

\* The sets have names so that a record is one of UiStates by its shape alone.
Buttons == SUBSET BothButtons
Callbacks ==
    {NoCallback, "uiScreenSetAddressToHome", "uiScreenBlitFirstLine", "uiScreenGotoSecondLine",
     "uiScreenBlitSecondLine", "uiScreenSetCursorPosition", "uiScreenTurnCursorOn",
     "uiScreenBlitDone"}

UiStates ==
    [isScreenOn : BOOLEAN, isLcdEnabled : BOOLEAN, isScreenTimeoutDisabled : BOOLEAN,
     isScreenBeingBlitted : BOOLEAN, isScreenBlitDirty : BOOLEAN,
     pressed : Buttons, isButtonPressPreventedFromTurningOnScreen : BOOLEAN,
     isButtonPressTurningOnScreen : BOOLEAN, isInputIgnored : BOOLEAN,
     cursorPosition : CursorPositions]

Handlers == {"lcdConfigureStateMachine", "lcdPutsStateMachine", "lcdTransactionCompleted"}
Waits == [handler : Handlers, line : Lines, at : Nat]
Buffers == [Lines -> [1 .. Width -> BOOLEAN]]
Addresses == Nat \X Nat

LcdStates ==
    [enableCount : Nat, isBusy : BOOLEAN, callback : Callbacks, waits : Seq(Waits),
     isDisplayOn : BOOLEAN, isCursorOn : BOOLEAN, isCurrent : Buffers, address : Addresses]

States == [ui : UiStates, lcd : LcdStates]

\* The two records but for what drawing changes.
SameButDrawing(b, c) ==
    /\ c.ui.isScreenOn = b.ui.isScreenOn
    /\ c.ui.isLcdEnabled = b.ui.isLcdEnabled
    /\ c.ui.isScreenTimeoutDisabled = b.ui.isScreenTimeoutDisabled
    /\ c.ui.pressed = b.ui.pressed
    /\ c.ui.isButtonPressPreventedFromTurningOnScreen
         = b.ui.isButtonPressPreventedFromTurningOnScreen
    /\ c.ui.isInputIgnored = b.ui.isInputIgnored
    /\ c.ui.cursorPosition = b.ui.cursorPosition
    /\ c.lcd.enableCount = b.lcd.enableCount
    /\ b.lcd.waits # <<>> => c.lcd.waits # <<>>

Drawn(b, c) == c \in States /\ SameButDrawing(b, c)

LEMMA DrawnTwice ==
    ASSUME NEW a, NEW b, NEW c, Drawn(a, b), Drawn(b, c)
    PROVE  Drawn(a, c)
BY DEF Drawn, SameButDrawing

\* Only the LCD changes: its count stays, and while it waits it goes on waiting.
LcdDrawn(l, m) ==
    /\ m \in LcdStates /\ m.enableCount = l.enableCount
    /\ l.waits # <<>> => m.waits # <<>>

LEMMA LcdDrawnIsDrawn ==
    ASSUME NEW b \in States, NEW l, LcdDrawn(b.lcd, l)
    PROVE  Drawn(b, [b EXCEPT !.lcd = l])
BY DEF LcdDrawn, Drawn, States, SameButDrawing

LEMMA AddWaitDraws ==
    ASSUME NEW l \in LcdStates, NEW wait \in Waits
    PROVE  LcdDrawn(l, AddWait(l, wait))
<1> DEFINE waits == Append(l.waits, wait)
<1>1. waits \in Seq(Waits) /\ waits # <<>>
  <2>1. Append(l.waits, wait) \in Seq(Waits) /\ Len(Append(l.waits, wait)) = Len(l.waits) + 1
        /\ Len(l.waits) \in Nat
    BY DEF LcdStates
  <2>2. Len(waits) # 0
    BY <2>1
  <2> QED BY <2>1, <2>2
<1>2. AddWait(l, wait) = [l EXCEPT !.waits = waits]
  BY DEF AddWait, LcdStates
<1> HIDE DEF waits
<1> QED BY <1>1, <1>2 DEF LcdDrawn, LcdStates

LEMMA WaitsAreWaits ==
    /\ CompletedWait \in Waits
    /\ \A step \in Nat : ConfigureWait(step) \in Waits
    /\ \A line \in Lines, column \in Nat : PutsWait(line, column) \in Waits
BY DEF CompletedWait, ConfigureWait, PutsWait, Waits, Handlers, Lines

LEMMA SetCursorDraws ==
    ASSUME NEW l \in LcdStates, NEW isOn \in BOOLEAN, NEW callback \in Callbacks
    PROVE  LcdDrawn(l, lcdSetCursor(l, isOn, callback))
<1> DEFINE set == [l EXCEPT !.isDisplayOn = TRUE, !.isCursorOn = isOn]
           written == Written(l, set)
           busy == [written EXCEPT !.isBusy = TRUE, !.callback = callback]
<1>1. LcdDrawn(l, set)
  BY DEF LcdDrawn, LcdStates
<1>2. LcdDrawn(l, written)
  BY <1>1 DEF LcdDrawn, Written
<1> HIDE DEF written
<1>3. LcdDrawn(l, busy)
  BY <1>2 DEF LcdDrawn, LcdStates
<1>4. lcdSetCursor(l, isOn, callback) = IF l.isBusy THEN l ELSE AddWait(busy, CompletedWait)
  BY DEF lcdSetCursor, written
<1> HIDE DEF busy
<1>5. LcdDrawn(busy, AddWait(busy, CompletedWait))
  BY <1>3, AddWaitDraws, WaitsAreWaits DEF LcdDrawn
<1> QED BY <1>3, <1>4, <1>5 DEF LcdDrawn

LEMMA SetDdramAddressDraws ==
    ASSUME NEW l \in LcdStates, NEW address \in Addresses, NEW callback \in Callbacks
    PROVE  LcdDrawn(l, lcdSetDdramAddress(l, address, callback))
<1> DEFINE set == [l EXCEPT !.address = address]
           written == Written(l, set)
           busy == [written EXCEPT !.isBusy = TRUE, !.callback = callback]
<1>1. LcdDrawn(l, set)
  BY DEF LcdDrawn, LcdStates
<1>2. LcdDrawn(l, written)
  BY <1>1 DEF LcdDrawn, Written
<1> HIDE DEF written
<1>3. LcdDrawn(l, busy)
  BY <1>2 DEF LcdDrawn, LcdStates
<1>4. lcdSetDdramAddress(l, address, callback)
        = IF l.isBusy THEN l ELSE AddWait(busy, CompletedWait)
  BY DEF lcdSetDdramAddress, written
<1> HIDE DEF busy
<1>5. LcdDrawn(busy, AddWait(busy, CompletedWait))
  BY <1>3, AddWaitDraws, WaitsAreWaits DEF LcdDrawn
<1> QED BY <1>3, <1>4, <1>5 DEF LcdDrawn

LEMMA WriteCharacterDraws ==
    ASSUME NEW l \in LcdStates, NEW line \in Lines, NEW column \in Nat
    PROVE  LcdDrawn(l, lcdWriteCharacter(l, line, column))
<1> DEFINE isRight == l.address = <<line, column>>
           buffer == [l.isCurrent EXCEPT ![l.address[1]][l.address[2]] = isRight]
           address == [l.address EXCEPT ![2] = @ + 1]
           changed == [l EXCEPT !.isCurrent = buffer, !.address = address]
           written == Written(l, changed)
<1>1. l.address \in Nat \X Nat /\ l.isCurrent \in Buffers
  BY DEF LcdStates, Addresses
<1>2. address \in Addresses
  BY <1>1 DEF Addresses
<1>3. buffer \in Buffers
  <2>1. isRight \in BOOLEAN
    OBVIOUS
  <2> HIDE DEF isRight
  <2> QED BY <1>1, <2>1 DEF Buffers
<1> HIDE DEF buffer, address
<1>4. LcdDrawn(l, changed)
  BY <1>2, <1>3 DEF LcdDrawn, LcdStates
<1>5. LcdDrawn(l, written)
  BY <1>4 DEF LcdDrawn, Written
<1>6. lcdWriteCharacter(l, line, column) = AddWait(written, PutsWait(line, column + 1))
  <2>1. changed = [l EXCEPT !.isCurrent[l.address[1]][l.address[2]] = isRight,
                            !.address[2] = @ + 1]
    BY DEF buffer, address, LcdStates
  <2> QED BY <2>1 DEF lcdWriteCharacter
<1> HIDE DEF written
<1>7. PutsWait(line, column + 1) \in Waits
  BY WaitsAreWaits
<1> QED BY <1>5, <1>6, <1>7, AddWaitDraws DEF LcdDrawn

LEMMA PutsDraws ==
    ASSUME NEW l \in LcdStates, NEW line \in Lines, NEW callback \in Callbacks
    PROVE  LcdDrawn(l, lcdPuts(l, line, callback))
<1> DEFINE busy == [l EXCEPT !.isBusy = TRUE, !.callback = callback]
<1>1. LcdDrawn(l, busy)
  BY DEF LcdDrawn, LcdStates
<1>2. lcdPuts(l, line, callback) = IF l.isBusy THEN l ELSE lcdWriteCharacter(busy, line, 1)
  BY DEF lcdPuts
<1> HIDE DEF busy
<1> QED BY <1>1, <1>2, WriteCharacterDraws DEF LcdDrawn

LEMMA LcdIsState ==
    ASSUME NEW b \in States
    PROVE  b.lcd \in LcdStates /\ b.ui \in UiStates
BY DEF States

LEMMA AddressesAreAddresses == <<1, 1>> \in Addresses /\ <<2, 1>> \in Addresses
BY DEF Addresses

LEMMA ScreenBlitDraws ==
    ASSUME NEW b \in States
    PROVE  Drawn(b, uiScreenBlit(b))
<1>1. Drawn(b, Redraws(b))
  BY DEF Redraws, Drawn, States, UiStates, SameButDrawing
<1> DEFINE home == lcdSetCursor(b.lcd, FALSE, "uiScreenSetAddressToHome")
           blitted == [ui |-> [b.ui EXCEPT !.isScreenBlitDirty = FALSE,
                                           !.isScreenBeingBlitted = TRUE],
                       lcd |-> home]
<1>2. LcdDrawn(b.lcd, home)
  BY LcdIsState, SetCursorDraws DEF Callbacks
<1> HIDE DEF home
<1>3. Drawn(b, blitted)
  BY <1>2 DEF LcdDrawn, Drawn, States, UiStates, SameButDrawing
<1> QED BY <1>1, <1>3 DEF uiScreenBlit, home

LEMMA BlitDoneDraws ==
    ASSUME NEW b \in States
    PROVE  Drawn(b, uiScreenBlitDone(b))
<1> DEFINE done == [b EXCEPT !.ui.isScreenBeingBlitted = FALSE]
<1>1. Drawn(b, done)
  BY DEF Drawn, States, UiStates, SameButDrawing
<1>2. done \in States
  BY <1>1 DEF Drawn
<1> HIDE DEF done
<1> QED BY <1>1, <1>2, ScreenBlitDraws, DrawnTwice DEF uiScreenBlitDone, done

LEMMA CallBackDraws ==
    ASSUME NEW b \in States
    PROVE  Drawn(b, CallBack(b))
<1>1. b.lcd.callback \in Callbacks /\ b.lcd \in LcdStates /\ b.ui.cursorPosition \in Addresses
  BY AddressesAreAddresses
     DEF States, LcdStates, UiStates, CursorPositions, NoCursor, Addresses
<1>2. Drawn(b, b)
  BY DEF Drawn, SameButDrawing
<1>3. Drawn(b, uiScreenSetAddressToHome(b))
  BY <1>1, SetDdramAddressDraws, LcdDrawnIsDrawn, AddressesAreAddresses
     DEF uiScreenSetAddressToHome, Callbacks
<1>4. Drawn(b, uiScreenBlitFirstLine(b))
  <2> DEFINE clean == [b EXCEPT !.ui.isScreenBlitDirty = FALSE]
  <2>1. Drawn(b, clean) /\ clean.lcd = b.lcd /\ clean \in States
    BY DEF Drawn, States, UiStates, SameButDrawing
  <2>2. uiScreenBlitFirstLine(b) = [clean EXCEPT !.lcd = lcdPuts(@, 1, "uiScreenGotoSecondLine")]
    BY DEF uiScreenBlitFirstLine, States
  <2> HIDE DEF clean
  <2>3. Drawn(clean, uiScreenBlitFirstLine(b))
    BY <1>1, <2>1, <2>2, PutsDraws, LcdDrawnIsDrawn DEF Callbacks, Lines
  <2> QED BY <2>1, <2>3, DrawnTwice
<1>5. Drawn(b, uiScreenGotoSecondLine(b))
  BY <1>1, SetDdramAddressDraws, LcdDrawnIsDrawn, AddressesAreAddresses
     DEF uiScreenGotoSecondLine, Callbacks
<1>6. Drawn(b, uiScreenBlitSecondLine(b))
  BY <1>1, PutsDraws, LcdDrawnIsDrawn DEF uiScreenBlitSecondLine, Callbacks, Lines
<1>7. Drawn(b, uiScreenSetCursorPosition(b))
  BY <1>1, SetDdramAddressDraws, LcdDrawnIsDrawn, BlitDoneDraws
     DEF uiScreenSetCursorPosition, Callbacks
<1>8. Drawn(b, uiScreenTurnCursorOn(b))
  BY <1>1, SetCursorDraws, LcdDrawnIsDrawn DEF uiScreenTurnCursorOn, Callbacks
<1>9. Drawn(b, uiScreenBlitDone(b))
  BY BlitDoneDraws
<1> QED BY <1>1, <1>2, <1>3, <1>4, <1>5, <1>6, <1>7, <1>8, <1>9 DEF CallBack, Callbacks

LEMMA TransactionCompletedDraws ==
    ASSUME NEW b \in States
    PROVE  Drawn(b, lcdTransactionCompleted(b))
<1> DEFINE idle == [b EXCEPT !.lcd.isBusy = FALSE]
<1>1. Drawn(b, idle) /\ idle \in States
  BY DEF Drawn, States, LcdStates, SameButDrawing
<1> HIDE DEF idle
<1> QED BY <1>1, CallBackDraws, DrawnTwice DEF lcdTransactionCompleted, idle

LEMMA PutsStateMachineDraws ==
    ASSUME NEW b \in States, NEW line \in Lines, NEW column \in Nat
    PROVE  Drawn(b, lcdPutsStateMachine(b, line, column))
<1>1. LcdDrawn(b.lcd, lcdWriteCharacter(b.lcd, line, column))
  BY LcdIsState, WriteCharacterDraws
<1> QED BY <1>1, LcdDrawnIsDrawn, TransactionCompletedDraws DEF lcdPutsStateMachine

LEMMA ConfigureStateMachineDraws ==
    ASSUME NEW l \in LcdStates, NEW step \in Nat
    PROVE  LcdDrawn(l, lcdConfigureStateMachine(l, step))
<1> DEFINE configured ==
               CASE step = 0 -> [l EXCEPT !.isDisplayOn = FALSE]
                 [] step = 1 -> [l EXCEPT !.isCurrent = lcdInitialised.isCurrent,
                                          !.address = <<1, 1>>]
                 [] step = 2 -> [l EXCEPT !.isDisplayOn = TRUE, !.isCursorOn = FALSE]
                 [] OTHER -> l
           written == Written(l, configured)
           buffer == lcdInitialised.isCurrent
<1>1. buffer \in Buffers
  BY DEF lcdInitialised, Buffers
<1> HIDE DEF buffer
<1>2. LcdDrawn(l, configured)
  BY <1>1, AddressesAreAddresses DEF LcdDrawn, LcdStates, buffer
<1> HIDE DEF configured
<1>3. LcdDrawn(l, written)
  BY <1>2 DEF LcdDrawn, Written
<1> HIDE DEF written
<1>4. LcdDrawn(written, AddWait(written, ConfigureWait(step + 1)))
  BY <1>3, AddWaitDraws, WaitsAreWaits DEF LcdDrawn
<1>5. LcdDrawn(l, [l EXCEPT !.isBusy = FALSE])
  BY DEF LcdDrawn, LcdStates
<1> QED BY <1>3, <1>4, <1>5 DEF lcdConfigureStateMachine, written, configured, LcdDrawn
-----------------------------------------------------------------------------
(***************************************************************************)
(* The queue.                                                              *)
(***************************************************************************)
LEMMA ButtonEventsAre ==
    /\ PressedEvent["left"] = "BUTTONS_PRESSED left"
    /\ PressedEvent["right"] = "BUTTONS_PRESSED right"
    /\ ReleasedEvent["left"] = "BUTTONS_RELEASED left"
    /\ ReleasedEvent["right"] = "BUTTONS_RELEASED right"
    /\ \A b \in BothButtons : PressedEvent[b] \in Types /\ ReleasedEvent[b] \in Types
BY DEF PressedEvent, ReleasedEvent, BothButtons, Types

LEMMA HasConcatenation ==
    ASSUME NEW s \in Seq(Types), NEW t \in Seq(Types), NEW type
    PROVE  Has(s \o t, type) <=> Has(s, type) \/ Has(t, type)
<1>1. s \o t \in Seq(Types) /\ Len(s) \in Nat /\ Len(t) \in Nat
      /\ Len(s \o t) = Len(s) + Len(t)
  OBVIOUS
<1>2. /\ \A i \in 1 .. Len(s) : (s \o t)[i] = s[i]
      /\ \A i \in Len(s) + 1 .. Len(s) + Len(t) : (s \o t)[i] = t[i - Len(s)]
  OBVIOUS
<1>3. ASSUME Has(s \o t, type) PROVE Has(s, type) \/ Has(t, type)
  <2>1. PICK i \in 1 .. Len(s) + Len(t) : (s \o t)[i] = type
    BY <1>1, <1>3 DEF Has
  <2>2. CASE i <= Len(s)
    BY <1>1, <1>2, <2>1, <2>2 DEF Has
  <2>3. CASE ~(i <= Len(s))
    <3>1. i \in Len(s) + 1 .. Len(s) + Len(t) /\ i - Len(s) \in 1 .. Len(t)
      BY <1>1, <2>3
    <3> QED BY <1>2, <2>1, <3>1 DEF Has
  <2> QED BY <2>2, <2>3
<1>4. ASSUME Has(s, type) PROVE Has(s \o t, type)
  <2>1. PICK i \in 1 .. Len(s) : s[i] = type
    BY <1>4 DEF Has
  <2>2. i \in 1 .. Len(s \o t)
    BY <1>1
  <2> QED BY <1>2, <2>1, <2>2 DEF Has
<1>5. ASSUME Has(t, type) PROVE Has(s \o t, type)
  <2>1. PICK i \in 1 .. Len(t) : t[i] = type
    BY <1>5 DEF Has
  <2>2. /\ Len(s) + i \in Len(s) + 1 .. Len(s) + Len(t) /\ Len(s) + i \in 1 .. Len(s \o t)
        /\ (Len(s) + i) - Len(s) = i
    BY <1>1
  <2> QED BY <1>2, <2>1, <2>2 DEF Has
<1> QED BY <1>3, <1>4, <1>5

LEMMA HasTail ==
    ASSUME NEW s \in Seq(Types), s # <<>>, NEW type
    PROVE  /\ Tail(s) \in Seq(Types)
           /\ Has(Tail(s), type) => Has(s, type)
           /\ Has(s, type) /\ Head(s) # type => Has(Tail(s), type)
           /\ Len(s) = 1 => ~Has(Tail(s), type)
<1>1. /\ Tail(s) \in Seq(Types) /\ Len(s) \in Nat /\ Len(s) > 0 /\ Len(Tail(s)) = Len(s) - 1
      /\ \A i \in 1 .. Len(s) - 1 : Tail(s)[i] = s[i + 1]
      /\ Head(s) = s[1]
  OBVIOUS
<1>2. Has(Tail(s), type) => Has(s, type)
  <2>1. \A i \in 1 .. Len(s) - 1 : i + 1 \in 1 .. Len(s)
    BY <1>1
  <2> QED BY <1>1, <2>1 DEF Has
<1>3. ASSUME Has(s, type), Head(s) # type PROVE Has(Tail(s), type)
  <2>1. PICK i \in 1 .. Len(s) : s[i] = type
    BY <1>3 DEF Has
  <2>2. i # 1
    BY <1>1, <1>3, <2>1
  <2>3. i - 1 \in 1 .. Len(s) - 1 /\ (i - 1) + 1 = i
    BY <1>1, <2>2
  <2> QED BY <1>1, <2>1, <2>3 DEF Has
<1>4. Len(s) = 1 => ~Has(Tail(s), type)
  BY <1>1 DEF Has
<1> QED BY <1>1, <1>2, <1>3, <1>4

LEMMA HasFew ==
    /\ \A type : ~Has(<<>>, type)
    /\ \A type : \A a \in Types : Has(<<a>>, type) <=> a = type
    /\ <<>> \in Seq(Types) /\ \A a \in Types : <<a>> \in Seq(Types)
<1>1. \A type : ~Has(<<>>, type)
  BY DEF Has
<1>2. ASSUME NEW a \in Types, NEW type PROVE Has(<<a>>, type) <=> a = type
  BY DEF Has
<1> QED BY <1>1, <1>2
-----------------------------------------------------------------------------
(***************************************************************************)
(* The invariant.                                                          *)
(***************************************************************************)
TypesInv ==
    /\ queue \in Seq(Types) /\ waking \in BOOLEAN
    /\ PORTA \in Buttons /\ buttonStateSampled \in Buttons
    /\ IOCIF \in BOOLEAN /\ isBouncing \in BOOLEAN
    /\ Both \in States
    /\ isTimeoutScheduled \in BOOLEAN /\ isSplashScheduled \in BOOLEAN
    /\ isMotorEnabled \in BOOLEAN

\* The first event finds everything off.
FirstInv ==
    IsPending("SYSTEM_INITIALISED") =>
        /\ Len(queue) = 1 /\ ~waking
        /\ ~uiState.isScreenOn
        /\ ~uiState.isButtonPressPreventedFromTurningOnScreen

\* A button is told of once in a wake-up, which is over when the queue is dry: what the
\* user interface has not been told of yet is in the queue.
IsTold(b) ==
    /\ IsPending(PressedEvent[b]) => b \in buttonStateSampled /\ ~IsPending(ReleasedEvent[b])
    /\ b \in uiState.pressed => b \in buttonStateSampled \/ IsPending(ReleasedEvent[b])
    /\ "buttons" \in due => ~IsPending(PressedEvent[b]) /\ ~IsPending(ReleasedEvent[b])

ToldInv ==
    /\ due # {} => waking
    /\ \A b \in BothButtons : IsTold(b)

BouncingInv == buttonStateSampled # PORTA => isBouncing \/ IOCIF

ScreenInv ==
    /\ uiState.isScreenOn => isTimeoutScheduled
    /\ uiState.isScreenTimeoutDisabled => isSplashScheduled \/ uiState.pressed # {}
    /\ uiState.isButtonPressPreventedFromTurningOnScreen => ~uiState.isScreenTimeoutDisabled

SupplyInv ==
    /\ lcdState.enableCount = Count(uiState.isScreenOn)
    /\ vregEnableCount = Count(uiState.isScreenOn) + Count(isMotorEnabled)
    /\ LATB2 \/ LATB0 => vregEnableCount # 0

\* A callback of the LCD is one that it waits for.
WaitsInv == "lcd" \in due => lcdState.waits # <<>>

IInv == TypesInv /\ FirstInv /\ ToldInv /\ BouncingInv /\ ScreenInv /\ SupplyInv /\ WaitsInv

LEMMA InitHolds == Init => IInv
<1> SUFFICES ASSUME Init PROVE IInv
  OBVIOUS
<1>1. queue = <<"SYSTEM_INITIALISED">> /\ "SYSTEM_INITIALISED" \in Types
  BY DEF Init, Types
<1>2. /\ queue \in Seq(Types) /\ Len(queue) = 1
      /\ \A type : IsPending(type) => type = "SYSTEM_INITIALISED"
  BY <1>1, HasFew DEF IsPending
<1>3. uiState \in UiStates
  BY DEF Init, UiStates, Buttons, CursorPositions, BothButtons
<1>4. lcdState \in LcdStates
  <2> DEFINE buffer == [line \in Lines |-> [column \in 1 .. Width |-> FALSE]]
  <2>1. buffer \in Buffers
    BY DEF Buffers
  <2>2. <<>> \in Seq(Waits) /\ <<1, 1>> \in Addresses /\ NoCallback \in Callbacks
    BY AddressesAreAddresses DEF Callbacks
  <2> HIDE DEF buffer
  <2>3. lcdInitialised \in LcdStates
    BY <2>1, <2>2 DEF lcdInitialised, LcdStates, buffer
  <2> QED BY <2>3 DEF Init
<1>5. TypesInv
  BY <1>2, <1>3, <1>4 DEF Init, TypesInv, Both, States, buttonsInitialise, Buttons
<1>6. FirstInv
  BY <1>2 DEF Init, FirstInv
<1>7. ToldInv
  <2>1. \A b \in BothButtons : ~IsPending(PressedEvent[b]) /\ ~IsPending(ReleasedEvent[b])
    BY <1>2, ButtonEventsAre DEF BothButtons
  <2> QED BY <2>1 DEF Init, ToldInv, IsTold
<1>8. BouncingInv /\ ScreenInv /\ SupplyInv /\ WaitsInv
  BY DEF Init, BouncingInv, ScreenInv, SupplyInv, WaitsInv, buttonsInitialise,
         voltageRegulatorInitialise, lcdInitialised, Count
<1> QED BY <1>5, <1>6, <1>7, <1>8 DEF IInv
-----------------------------------------------------------------------------
(***************************************************************************)
(* What the handlers leave alone.                                          *)
(***************************************************************************)
ButtonTypes ==
    {"BUTTONS_PRESSED left", "BUTTONS_PRESSED right", "BUTTONS_RELEASED left",
     "BUTTONS_RELEASED right"}

\* The one event is being dispatched, or a callback of a wake-up runs.
Running == waking \/ \E type \in Types \ ButtonTypes : Dispatching(type)

LEMMA PublishKeeps ==
    ASSUME TypesInv, FirstInv, waking \/ queue # <<>>,
           NEW events \in Seq(Types), Publish(events)
    PROVE  /\ queue' \in Seq(Types)
           /\ \A type : IsPending(type)' => IsPending(type) \/ Has(events, type)
           /\ \A type : /\ IsPending(type) /\ (waking \/ Head(queue) # type) => IsPending(type)'
                        /\ Has(events, type) => IsPending(type)'
           /\ IsPending("SYSTEM_INITIALISED")' => Has(events, "SYSTEM_INITIALISED")
<1>1. /\ queue \in Seq(Types) /\ Rest \in Seq(Types)
      /\ \A type : /\ Has(Rest, type) => Has(queue, type)
                   /\ Has(queue, type) /\ (waking \/ Head(queue) # type) => Has(Rest, type)
  BY HasTail DEF TypesInv, Rest
<1>2. ~Has(Rest, "SYSTEM_INITIALISED")
  BY <1>1, HasTail DEF FirstInv, IsPending, Rest
<1>3. queue' = Rest \o events
  BY DEF Publish
<1>4. queue' \in Seq(Types) /\ \A type : Has(queue', type) <=> Has(Rest, type) \/ Has(events, type)
  BY <1>1, <1>3, HasConcatenation
<1> QED BY <1>1, <1>2, <1>4 DEF IsPending

\* Whatever has nothing to do with the buttons.
LEMMA OthersKeepTold ==
    ASSUME TypesInv, FirstInv, ToldInv, Running, NEW events \in Seq(Types), Publish(events),
           \A type \in ButtonTypes \cup {"SYSTEM_INITIALISED"} : ~Has(events, type),
           due' \subseteq due, UNCHANGED <<waking, buttonStateSampled>>,
           uiState'.pressed = uiState.pressed
    PROVE  queue' \in Seq(Types) /\ FirstInv' /\ ToldInv'
<1>1. waking \/ queue # <<>>
  BY DEF Running, Dispatching
<1>2. /\ queue' \in Seq(Types)
      /\ ~IsPending("SYSTEM_INITIALISED")'
      /\ \A type \in ButtonTypes : IsPending(type)' <=> IsPending(type)
  <2>1. \A type \in ButtonTypes : waking \/ Head(queue) # type
    BY DEF Running, Dispatching
  <2> QED BY <1>1, <2>1, PublishKeeps
<1>3. FirstInv'
  BY <1>2 DEF FirstInv
<1>4. due' # {} => waking'
  BY DEF ToldInv
<1>5. \A b \in BothButtons : IsTold(b)'
  <2> SUFFICES ASSUME NEW b \in BothButtons PROVE IsTold(b)'
    OBVIOUS
  <2>1. PressedEvent[b] \in ButtonTypes /\ ReleasedEvent[b] \in ButtonTypes
    BY ButtonEventsAre DEF BothButtons, ButtonTypes
  <2>2. /\ IsPending(PressedEvent[b])' <=> IsPending(PressedEvent[b])
        /\ IsPending(ReleasedEvent[b])' <=> IsPending(ReleasedEvent[b])
    BY <1>2, <2>1
  <2>3. IsTold(b)
    BY DEF ToldInv
  <2> QED BY <2>2, <2>3 DEF IsTold
<1> QED BY <1>2, <1>3, <1>4, <1>5 DEF ToldInv

LEMMA FewEvents ==
    ASSUME NEW type \in Types \ (ButtonTypes \cup {"SYSTEM_INITIALISED"})
    PROVE  /\ <<>> \in Seq(Types) /\ <<type>> \in Seq(Types)
           /\ \A other \in ButtonTypes \cup {"SYSTEM_INITIALISED"} :
                  ~Has(<<>>, other) /\ ~Has(<<type>>, other)
BY HasFew

\* The supply and its clients.
LEMMA SupplyEnabled ==
    ASSUME voltageRegulatorEnable, vregEnableCount \in Nat
    PROVE  vregEnableCount' = vregEnableCount + 1 /\ vregEnableCount' # 0
BY DEF voltageRegulatorEnable

LEMMA SupplyDisabled ==
    ASSUME voltageRegulatorDisable, vregEnableCount \in Nat \ {0},
           LATB2 \/ LATB0 => vregEnableCount # 0
    PROVE  vregEnableCount' = vregEnableCount - 1 /\ (LATB2' \/ LATB0' => vregEnableCount' # 0)
<1>1. CASE LastClient
  <2>1. vregEnableCount = 1
    BY <1>1 DEF LastClient
  <2>2. vregEnableCount' = 0 /\ LATB2' = FALSE /\ LATB0' = FALSE
    BY <1>1 DEF voltageRegulatorDisable
  <2> QED BY <2>1, <2>2
<1>2. CASE ~LastClient
  <2>1. vregEnableCount > 1
    BY <1>2 DEF LastClient
  <2>2. vregEnableCount' = vregEnableCount - 1
    BY <1>2 DEF voltageRegulatorDisable
  <2> QED BY <2>1, <2>2
<1> QED BY <1>1, <1>2

LEMMA CountsAreNumbers ==
    ASSUME TypesInv, SupplyInv
    PROVE  vregEnableCount \in Nat
BY DEF TypesInv, SupplyInv, Count, Both, States, UiStates

\* All that the invariant says of the two records.
SameScreen(b, c) ==
    /\ c.ui.isScreenOn = b.ui.isScreenOn
    /\ c.ui.isScreenTimeoutDisabled = b.ui.isScreenTimeoutDisabled
    /\ c.ui.pressed = b.ui.pressed
    /\ c.ui.isButtonPressPreventedFromTurningOnScreen
         = b.ui.isButtonPressPreventedFromTurningOnScreen
    /\ c.lcd.enableCount = b.lcd.enableCount

LEMMA DrawnIsSameScreen ==
    ASSUME NEW b, NEW c, Drawn(b, c)
    PROVE  c \in States /\ SameScreen(b, c)
BY DEF Drawn, SameButDrawing, SameScreen

LEMMA ScreenIsKept ==
    ASSUME ScreenInv, SupplyInv, SameScreen(Both, Both'),
           UNCHANGED <<vregEnableCount, LATB2, LATB0, isMotorEnabled, isSplashScheduled>>,
           isTimeoutScheduled => isTimeoutScheduled'
    PROVE  uiState'.pressed = uiState.pressed /\ ScreenInv' /\ SupplyInv'
<1>1. SupplyInv'
  BY DEF SupplyInv, SameScreen, Both
<1>2. ScreenInv' /\ uiState'.pressed = uiState.pressed
  BY DEF ScreenInv, SameScreen, Both
<1> QED BY <1>1, <1>2

LEMMA OthersKeep ==
    ASSUME IInv, Running, NEW events \in Seq(Types), Publish(events),
           \A type \in ButtonTypes \cup {"SYSTEM_INITIALISED"} : ~Has(events, type),
           due' \subseteq due, UNCHANGED <<waking, buttonVars>>,
           uiState'.pressed = uiState.pressed, Both' \in States,
           isTimeoutScheduled' \in BOOLEAN, isSplashScheduled' \in BOOLEAN,
           isMotorEnabled' \in BOOLEAN, ScreenInv', SupplyInv', WaitsInv'
    PROVE  IInv'
<1>1. queue' \in Seq(Types) /\ FirstInv' /\ ToldInv'
  BY OthersKeepTold DEF IInv, buttonVars
<1>2. BouncingInv'
  BY DEF IInv, BouncingInv, buttonVars
<1>3. TypesInv'
  BY <1>1 DEF IInv, TypesInv, buttonVars
<1> QED BY <1>1, <1>2, <1>3 DEF IInv

LEMMA StillOf ==
    ASSUME IInv
    PROVE  /\ Both \in States /\ uiState \in UiStates /\ lcdState \in LcdStates
           /\ isTimeoutScheduled \in BOOLEAN /\ isSplashScheduled \in BOOLEAN
           /\ isMotorEnabled \in BOOLEAN /\ vregEnableCount \in Nat
           /\ ScreenInv /\ SupplyInv
BY CountsAreNumbers DEF IInv, TypesInv, Both, States

\* An event or a callback that changes nothing of the screen.
LEMMA NothingKeeps ==
    ASSUME IInv, Running, NEW type \in OtherTypes, Publish(<<>>) \/ Publish(<<type>>),
           due' \subseteq due, UNCHANGED <<waking, buttonVars>>,
           Both' \in States, SameScreen(Both, Both'),
           UNCHANGED <<vregEnableCount, LATB2, LATB0, isMotorEnabled, isSplashScheduled>>,
           isTimeoutScheduled' \in {isTimeoutScheduled, TRUE}, WaitsInv'
    PROVE  IInv'
<1>1. /\ isTimeoutScheduled' \in BOOLEAN /\ isSplashScheduled' \in BOOLEAN
      /\ isMotorEnabled' \in BOOLEAN /\ (isTimeoutScheduled => isTimeoutScheduled')
  <2>1. isTimeoutScheduled \in BOOLEAN /\ isSplashScheduled \in BOOLEAN
        /\ isMotorEnabled \in BOOLEAN
    BY StillOf
  <2>2. isTimeoutScheduled' \in BOOLEAN /\ (isTimeoutScheduled => isTimeoutScheduled')
    BY <2>1, Zenon
  <2>3. isSplashScheduled' \in BOOLEAN /\ isMotorEnabled' \in BOOLEAN
    BY <2>1, Zenon
  <2> QED BY <2>2, <2>3
<1>2. uiState'.pressed = uiState.pressed /\ ScreenInv' /\ SupplyInv'
  BY <1>1, StillOf, ScreenIsKept
<1>3. type \in Types \ (ButtonTypes \cup {"SYSTEM_INITIALISED"})
  BY DEF OtherTypes, Types, ButtonTypes
<1> QED BY <1>1, <1>2, <1>3, FewEvents, OthersKeep
-----------------------------------------------------------------------------
(***************************************************************************)
(* The wake-up and its callbacks.                                          *)
(***************************************************************************)
LEMMA WakeUpKeeps ==
    ASSUME IInv, WakeUp
    PROVE  IInv'
<1>1. /\ queue = <<>> /\ ~waking /\ waking' = TRUE
      /\ queue' \in {<<>>, <<"TIME_CHANGED">>}
      /\ UNCHANGED <<buttonVars, supplyVars, lcdState, uiState, isTimeoutScheduled,
                     isSplashScheduled, isMotorEnabled>>
  BY DEF WakeUp, Wake
<1>2. /\ queue' \in Seq(Types)
      /\ \A type \in ButtonTypes \cup {"SYSTEM_INITIALISED"} : ~Has(queue', type)
      /\ \A type \in ButtonTypes : ~Has(queue, type)
  <2>1. "TIME_CHANGED" \in Types \ (ButtonTypes \cup {"SYSTEM_INITIALISED"})
    BY DEF Types, OtherTypes, ButtonTypes
  <2>2. CASE queue' = <<>>
    BY <1>1, <2>1, <2>2, FewEvents
  <2>3. CASE queue' = <<"TIME_CHANGED">>
    BY <1>1, <2>1, <2>3, FewEvents
  <2> QED BY <1>1, <2>2, <2>3
<1>3. TypesInv'
  BY <1>1, <1>2 DEF IInv, TypesInv, Both, buttonVars
<1>4. FirstInv'
  BY <1>2 DEF FirstInv, IsPending
<1>5. ToldInv'
  <2> SUFFICES ASSUME NEW b \in BothButtons PROVE IsTold(b)'
    BY <1>1 DEF ToldInv
  <2>1. PressedEvent[b] \in ButtonTypes /\ ReleasedEvent[b] \in ButtonTypes
    BY ButtonEventsAre DEF BothButtons, ButtonTypes
  <2>2. b \in uiState.pressed => b \in buttonStateSampled
    BY <1>2, <2>1 DEF IInv, ToldInv, IsTold, IsPending
  <2> QED BY <1>1, <1>2, <2>1, <2>2 DEF IsTold, IsPending, buttonVars
<1>6. BouncingInv' /\ ScreenInv' /\ SupplyInv'
  BY <1>1 DEF IInv, BouncingInv, ScreenInv, SupplyInv, buttonVars, supplyVars, vregVars
<1>7. WaitsInv'
  <2>1. due' \subseteq Pending
    BY DEF WakeUp, Wake
  <2>2. "lcd" \in Pending => lcdState.waits # <<>>
    BY DEF Pending, VregPending
  <2> QED BY <1>1, <2>1, <2>2 DEF WaitsInv
<1> QED BY <1>3, <1>4, <1>5, <1>6, <1>7 DEF IInv

LEMMA WokenEndsKeeps ==
    ASSUME IInv, WokenEnds
    PROVE  IInv'
<1>1. /\ waking /\ due = {} /\ waking' = FALSE
      /\ isBouncing' = (isBouncing \/ IOCIF) /\ IOCIF' = FALSE
      /\ UNCHANGED <<PORTA, buttonStateSampled, queue, due, supplyVars, screenVars, isMotorEnabled>>
  BY DEF WokenEnds, onWokenFromSleep
<1>2. TypesInv'
  BY <1>1 DEF IInv, TypesInv, Both, screenVars, timeoutVars
<1>3. FirstInv' /\ ToldInv'
  BY <1>1 DEF IInv, FirstInv, ToldInv, IsTold, IsPending, screenVars
<1>4. BouncingInv'
  BY <1>1 DEF IInv, BouncingInv, TypesInv
<1>5. ScreenInv' /\ SupplyInv' /\ WaitsInv'
  BY <1>1 DEF IInv, ScreenInv, SupplyInv, WaitsInv, screenVars, timeoutVars, supplyVars, vregVars
<1> QED BY <1>2, <1>3, <1>4, <1>5 DEF IInv

LEMMA FingersKeep ==
    ASSUME IInv, Fingers
    PROVE  IInv'
<1>1. /\ IOCIF' = TRUE /\ PORTA' \in Buttons
      /\ UNCHANGED <<isBouncing, buttonStateSampled, loopVars, supplyVars, screenVars,
                     isMotorEnabled>>
  BY DEF Fingers, ButtonMoves, Toggle, IInv, TypesInv, Buttons
<1>2. TypesInv'
  BY <1>1 DEF IInv, TypesInv, Both, screenVars, timeoutVars, loopVars
<1>3. FirstInv' /\ ToldInv'
  BY <1>1 DEF IInv, FirstInv, ToldInv, IsTold, IsPending, screenVars, loopVars
<1>4. BouncingInv' /\ ScreenInv' /\ SupplyInv' /\ WaitsInv'
  BY <1>1 DEF IInv, BouncingInv, ScreenInv, SupplyInv, WaitsInv, screenVars, timeoutVars,
              supplyVars, vregVars, loopVars
<1> QED BY <1>2, <1>3, <1>4 DEF IInv

LEMMA SupplyCallbacksKeep ==
    ASSUME IInv, RegulatedStabilises \/ McuStabilises
    PROVE  IInv'
<1>1. /\ waking /\ due' \subseteq due
      /\ UNCHANGED <<waking, buttonVars, pwmVars, screenVars, isMotorEnabled>>
  BY DEF RegulatedStabilises, McuStabilises, Calling
<1>2. Publish(<<>>) \/ Publish(<<"VOLTAGE_REGULATOR_ENABLED">>)
  BY DEF RegulatedStabilises, McuStabilises, onMcuVoltageRailStabilisedEvents
<1>3. /\ vregEnableCount' = vregEnableCount /\ LATB2' = LATB2
      /\ LATB0' = LATB0 \/ vregEnableCount # 0
  BY DEF RegulatedStabilises, McuStabilises, onRegulatedVoltageRailStabilised,
         onMcuVoltageRailStabilised
<1>4. SupplyInv' /\ WaitsInv'
  BY <1>1, <1>3 DEF IInv, SupplyInv, WaitsInv, screenVars
<1>5. /\ ScreenInv' /\ uiState'.pressed = uiState.pressed /\ Both' \in States
      /\ isTimeoutScheduled' \in BOOLEAN /\ isSplashScheduled' \in BOOLEAN
      /\ isMotorEnabled' \in BOOLEAN
  BY <1>1 DEF IInv, TypesInv, ScreenInv, Both, screenVars, timeoutVars
<1>6. "VOLTAGE_REGULATOR_ENABLED" \in Types \ (ButtonTypes \cup {"SYSTEM_INITIALISED"})
  BY DEF Types, OtherTypes, ButtonTypes
<1> QED BY <1>1, <1>2, <1>4, <1>5, <1>6, FewEvents, OthersKeep DEF Running

LEMMA RemoveAtRemoves ==
    ASSUME NEW S, NEW seq \in Seq(S), NEW i \in 1 .. Len(seq)
    PROVE  /\ RemoveAt(seq, i) \in Seq(S) /\ Len(RemoveAt(seq, i)) = Len(seq) - 1
           /\ \A k \in 1 .. Len(seq) - 1 :
                  RemoveAt(seq, i)[k] = seq[IF k < i THEN k ELSE k + 1]
<1> DEFINE before == SubSeq(seq, 1, i - 1)
           after == SubSeq(seq, i + 1, Len(seq))
<1>1. /\ before \in Seq(S) /\ Len(before) = i - 1
      /\ \A k \in 1 .. i - 1 : before[k] = seq[k]
  OBVIOUS
<1>2. /\ after \in Seq(S) /\ Len(after) = Len(seq) - i
      /\ \A k \in 1 .. Len(seq) - i : after[k] = seq[i + k]
  OBVIOUS
<1>3. RemoveAt(seq, i) = before \o after
  BY DEF RemoveAt
<1> HIDE DEF before, after
<1>4. before \o after \in Seq(S) /\ Len(before \o after) = Len(seq) - 1
  BY <1>1, <1>2
<1>5. ASSUME NEW k \in 1 .. Len(seq) - 1
      PROVE  (before \o after)[k] = seq[IF k < i THEN k ELSE k + 1]
  <2>1. CASE k < i
    BY <1>1, <1>2, <2>1
  <2>2. CASE k >= i
    <3>1. (before \o after)[k] = after[k - (i - 1)]
      BY <1>1, <1>2, <2>2
    <3>2. after[k - (i - 1)] = seq[i + (k - (i - 1))] /\ i + (k - (i - 1)) = k + 1
      BY <1>2, <2>2
    <3> QED BY <2>2, <3>1, <3>2
  <2>3. k < i \/ k >= i
    OBVIOUS
  <2> QED BY <2>1, <2>2, <2>3
<1> QED BY <1>3, <1>4, <1>5

\* What a wait of the LCD's leads to.
LEMMA LcdWaitIsDrawn ==
    ASSUME IInv, LcdWaitEnds
    PROVE  Both' \in States /\ SameScreen(Both, Both')
<1>1. Both \in States /\ lcdState \in LcdStates
  BY StillOf
<1> PICK i \in 1 .. Len(lcdState.waits) :
        LET wait == lcdState.waits[i]
            b == [Both EXCEPT !.lcd.waits = RemoveAt(@, i)]
        IN \/ Becomes([b EXCEPT !.lcd = lcdConfigureStateMachine(@, wait.at)])
           \/ Becomes(lcdPutsStateMachine(b, wait.line, wait.at))
           \/ Becomes(lcdTransactionCompleted(b))
  BY DEF LcdWaitEnds
<1> DEFINE wait == lcdState.waits[i]
           b == [Both EXCEPT !.lcd.waits = RemoveAt(@, i)]
<1>2. wait \in Waits /\ RemoveAt(lcdState.waits, i) \in Seq(Waits)
  <2>1. lcdState.waits \in Seq(Waits)
    BY <1>1 DEF LcdStates
  <2> QED BY <2>1, RemoveAtRemoves
<1>3. b \in States /\ b.lcd \in LcdStates /\ SameScreen(Both, b)
  BY <1>1, <1>2 DEF States, LcdStates, SameScreen, Both
<1>4. /\ wait.handler \in Handlers /\ wait.line \in Lines /\ wait.at \in Nat
  BY <1>2 DEF Waits
<1>5. \/ Becomes([b EXCEPT !.lcd = lcdConfigureStateMachine(@, wait.at)])
      \/ Becomes(lcdPutsStateMachine(b, wait.line, wait.at))
      \/ Becomes(lcdTransactionCompleted(b))
  OBVIOUS
<1> HIDE DEF b, wait
<1>6. ASSUME NEW c, Drawn(b, c), Becomes(c) PROVE Both' \in States /\ SameScreen(Both, Both')
  <2>1. Both' = c
    BY <1>6 DEF Becomes, Both, Drawn, States
  <2>2. c \in States /\ SameScreen(b, c)
    BY <1>6, DrawnIsSameScreen
  <2> QED BY <1>3, <2>1, <2>2 DEF SameScreen
<1>7. Drawn(b, [b EXCEPT !.lcd = lcdConfigureStateMachine(@, wait.at)])
  <2>1. LcdDrawn(b.lcd, lcdConfigureStateMachine(b.lcd, wait.at))
    BY <1>3, <1>4, ConfigureStateMachineDraws
  <2> QED BY <1>3, <2>1, LcdDrawnIsDrawn
<1>8. /\ Drawn(b, lcdPutsStateMachine(b, wait.line, wait.at))
      /\ Drawn(b, lcdTransactionCompleted(b))
  BY <1>3, <1>4, PutsStateMachineDraws, TransactionCompletedDraws
<1> QED BY <1>5, <1>6, <1>7, <1>8

LEMMA LcdWaitEndsKeeps ==
    ASSUME IInv, LcdWaitEnds
    PROVE  IInv'
<1>1. /\ waking /\ due' = due \ {"lcd"}
      /\ UNCHANGED <<waking, buttonVars, supplyVars, isTimeoutScheduled, isSplashScheduled,
                     isMotorEnabled>>
      /\ Publish(<<>>) \/ Publish(<<"LCD_ENABLED">>)
  BY DEF LcdWaitEnds, Calling, lcdConfigureStateMachineEvents
<1>2. Running /\ due' \subseteq due /\ WaitsInv' /\ "LCD_ENABLED" \in OtherTypes
  BY <1>1 DEF Running, WaitsInv, OtherTypes
<1>3. UNCHANGED <<vregEnableCount, LATB2, LATB0>> /\ isTimeoutScheduled' = isTimeoutScheduled
  BY <1>1 DEF supplyVars, vregVars
<1> QED BY <1>1, <1>2, <1>3, LcdWaitIsDrawn, NothingKeeps

LEMMA BlitsDraw ==
    ASSUME NEW b \in States, Blits(b)
    PROVE  Drawn(b, Both')
<1>1. Drawn(b, uiScreenBlit(b)) /\ uiScreenBlit(b) \in States
  BY ScreenBlitDraws DEF Drawn
<1>2. Both' = uiScreenBlit(b)
  BY <1>1 DEF Blits, Becomes, Both, States
<1> QED BY <1>1, <1>2

\* What a changed buffer leaves as it was.
OfUi(ui, b) ==
    /\ b \in States
    /\ b.ui.isScreenOn = ui.isScreenOn
    /\ b.ui.isScreenTimeoutDisabled = ui.isScreenTimeoutDisabled
    /\ b.ui.pressed = ui.pressed
    /\ b.ui.isButtonPressPreventedFromTurningOnScreen
         = ui.isButtonPressPreventedFromTurningOnScreen
    /\ b.lcd.enableCount = lcdState.enableCount
    /\ lcdState.waits # <<>> => b.lcd.waits # <<>>

LEMMA ShowsKeeps ==
    ASSUME NEW ui \in UiStates, lcdState \in LcdStates, NEW b \in Shows(ui)
    PROVE  OfUi(ui, b)
<1> DEFINE buffer == lcdInitialised.isCurrent
<1>1. buffer \in Buffers
  BY DEF lcdInitialised, Buffers
<1> HIDE DEF buffer
<1>2. PICK cursor \in CursorPositions :
          b = [ui |-> [ui EXCEPT !.cursorPosition = cursor],
               lcd |-> [lcdState EXCEPT !.isCurrent = buffer]]
  BY DEF Shows, buffer
<1> QED BY <1>1, <1>2 DEF OfUi, States, UiStates, LcdStates

LEMMA IncrementsKeeps ==
    ASSUME NEW ui \in UiStates, lcdState \in LcdStates, NEW b \in Increments(ui)
    PROVE  OfUi(ui, b)
<1> DEFINE buffer == [lcdState.isCurrent EXCEPT ![2][1] = FALSE]
<1>1. buffer \in Buffers
  BY DEF LcdStates, Buffers
<1>2. b = [ui |-> ui, lcd |-> [lcdState EXCEPT !.isCurrent = buffer]]
  BY DEF Increments, LcdStates
<1> HIDE DEF buffer
<1> QED BY <1>1, <1>2 DEF OfUi, States, UiStates, LcdStates

LEMMA OfUiBlits ==
    ASSUME NEW ui, NEW b, OfUi(ui, b), Blits(b)
    PROVE  OfUi(ui, Both')
<1>1. b \in States
  BY DEF OfUi
<1>2. Drawn(b, Both')
  BY <1>1, BlitsDraw
<1> QED BY <1>2 DEF OfUi, Drawn, SameButDrawing

\* The supply is the screen's as long as the screen stays on or off.
LEMMA SupplyIsKept ==
    ASSUME IInv, NEW ui, OfUi(ui, Both'), ui.isScreenOn = uiState.isScreenOn,
           UNCHANGED <<supplyVars, isMotorEnabled>>
    PROVE  SupplyInv'
BY DEF IInv, SupplyInv, OfUi, Both, supplyVars, vregVars

LEMMA SplashEndsKeeps ==
    ASSUME IInv, SplashEnds
    PROVE  IInv'
<1> DEFINE shown == [uiState EXCEPT !.isScreenTimeoutDisabled = FALSE]
           heard(ui) == IF scenario.isCalibrationRequired
                          THEN [ui EXCEPT !.isButtonPressPreventedFromTurningOnScreen = TRUE]
                          ELSE [ui EXCEPT !.isInputIgnored = FALSE]
<1>1. PICK b \in Shows(shown) : Blits([b EXCEPT !.ui = heard(@)])
  BY DEF SplashEnds
<1>2. /\ waking /\ due' \subseteq due
      /\ isSplashScheduled' = FALSE /\ isTimeoutScheduled' = TRUE
      /\ UNCHANGED <<waking, buttonVars, supplyVars, isMotorEnabled>> /\ Publish(<<>>)
  BY DEF SplashEnds, uiScreenStartTimeout, nearSchedulerAddOrUpdateTimeout
<1>3. shown \in UiStates /\ lcdState \in LcdStates
  BY StillOf DEF UiStates
<1> DEFINE c == [b EXCEPT !.ui = heard(@)]
<1>4. OfUi(heard(shown), c) /\ heard(shown).isScreenOn = uiState.isScreenOn
      /\ heard(shown).pressed = uiState.pressed /\ ~heard(shown).isScreenTimeoutDisabled
  <2>1. OfUi(shown, b)
    BY <1>3, ShowsKeeps
  <2>2. b \in States /\ b.ui \in UiStates /\ uiState \in UiStates
    BY <2>1, StillOf DEF OfUi, States
  <2>3. CASE scenario.isCalibrationRequired
    BY <1>3, <2>1, <2>2, <2>3 DEF OfUi, States, UiStates
  <2>4. CASE ~scenario.isCalibrationRequired
    BY <1>3, <2>1, <2>2, <2>4 DEF OfUi, States, UiStates
  <2> QED BY <2>3, <2>4
<1> HIDE DEF shown
<1> DEFINE ui == heard(shown)
<1> HIDE DEF ui, c
<1>5. OfUi(ui, Both') /\ ui.isScreenOn = uiState.isScreenOn /\ ui.pressed = uiState.pressed
      /\ ~ui.isScreenTimeoutDisabled
  BY <1>1, <1>4, OfUiBlits DEF ui, c
<1>6. ScreenInv' /\ uiState'.pressed = uiState.pressed
  BY <1>2, <1>5 DEF ScreenInv, OfUi, Both
<1>7. SupplyInv'
  BY <1>2, <1>5, SupplyIsKept
<1>8. WaitsInv' /\ Both' \in States
  BY <1>2, <1>5 DEF IInv, WaitsInv, OfUi, Both
<1> QED BY <1>2, <1>6, <1>7, <1>8, StillOf, HasFew, OthersKeep DEF Running

\* Off it takes the supply with it, unless the motor needs that.
LEMMA ScreenOffKeeps ==
    ASSUME IInv, uiScreenOff, UNCHANGED isMotorEnabled
    PROVE  /\ Both' \in States /\ ~uiState'.isScreenOn /\ SupplyInv'
           /\ uiState'.pressed = uiState.pressed
           /\ uiState'.isScreenTimeoutDisabled = uiState.isScreenTimeoutDisabled
           /\ uiState'.isButtonPressPreventedFromTurningOnScreen
                = uiState.isButtonPressPreventedFromTurningOnScreen
           /\ lcdState'.waits = lcdState.waits
<1>1. uiState \in UiStates /\ lcdState \in LcdStates
  BY StillOf
<1>2. /\ uiState' \in UiStates /\ ~uiState'.isScreenOn
      /\ uiState'.pressed = uiState.pressed
      /\ uiState'.isScreenTimeoutDisabled = uiState.isScreenTimeoutDisabled
      /\ uiState'.isButtonPressPreventedFromTurningOnScreen
           = uiState.isButtonPressPreventedFromTurningOnScreen
  BY <1>1 DEF uiScreenOff, UiStates
<1>3. CASE ~uiState.isScreenOn
  <2>1. lcdState' = lcdState /\ UNCHANGED <<vregEnableCount, LATB2, LATB0>>
    BY <1>3 DEF uiScreenOff, supplyVars, vregVars
  <2>2. SupplyInv'
    <3>1. Count(uiState.isScreenOn) = 0 /\ Count(uiState'.isScreenOn) = 0
      BY <1>2, <1>3 DEF Count
    <3> QED BY <2>1, <3>1 DEF IInv, SupplyInv
  <2>3. lcdState' \in LcdStates /\ lcdState'.waits = lcdState.waits
    BY <1>1, <2>1
  <2>4. Both' \in States
    BY <1>2, <2>3 DEF Both, States
  <2> QED BY <1>2, <2>2, <2>3, <2>4, Zenon
<1>4. CASE uiState.isScreenOn
  <2>1. lcdState' = lcdDisable(lcdState) /\ voltageRegulatorDisable
    BY <1>4 DEF uiScreenOff
  <2>2. lcdState.enableCount = 1 /\ vregEnableCount = 1 + Count(isMotorEnabled)
        /\ (LATB2 \/ LATB0 => vregEnableCount # 0)
    BY <1>4 DEF IInv, SupplyInv, Count
  <2>3. lcdState' \in LcdStates /\ lcdState'.enableCount = 0 /\ lcdState'.waits = lcdState.waits
    BY <1>1, <2>1, <2>2 DEF lcdDisable, IsLastDisable, LcdStates
  <2>4. vregEnableCount \in Nat \ {0}
    BY <2>2 DEF Count
  <2>5. vregEnableCount' = vregEnableCount - 1 /\ (LATB2' \/ LATB0' => vregEnableCount' # 0)
    BY <2>1, <2>2, <2>4, SupplyDisabled
  <2>6. vregEnableCount' = Count(isMotorEnabled)
    BY <2>2, <2>5 DEF Count
  <2>7. SupplyInv'
    BY <1>2, <2>3, <2>5, <2>6 DEF SupplyInv, Count
  <2> QED BY <1>2, <2>3, <2>7 DEF Both, States
<1> QED BY <1>3, <1>4

LEMMA ScreenTimeoutKeeps ==
    ASSUME IInv, uiOnScreenTimeout
    PROVE  IInv'
<1>1. /\ waking /\ due' \subseteq due
      /\ UNCHANGED <<waking, buttonVars, isSplashScheduled, isMotorEnabled>>
  BY DEF uiOnScreenTimeout, Calling
<1>2. CASE SecondsCounted = ScreenTimeoutSeconds
  <2> DEFINE events == IF uiState.isScreenOn
                         THEN <<"LCD_DISABLED">> \o voltageRegulatorDisableEvents ELSE <<>>
  <2>1. uiScreenOff /\ isTimeoutScheduled' = FALSE
    BY <1>2 DEF uiOnScreenTimeout
  <2>2. Publish(events)
    BY <2>1 DEF uiScreenOff
  <2>3. events \in Seq(Types)
        /\ \A type \in ButtonTypes \cup {"SYSTEM_INITIALISED"} : ~Has(events, type)
    <3> DEFINE others == voltageRegulatorDisableEvents
    <3>1. {"LCD_DISABLED", "VOLTAGE_REGULATOR_DISABLED"}
            \subseteq Types \ (ButtonTypes \cup {"SYSTEM_INITIALISED"})
      BY DEF Types, OtherTypes, ButtonTypes
    <3>2. others = <<>> \/ others = <<"VOLTAGE_REGULATOR_DISABLED">>
      BY DEF voltageRegulatorDisableEvents
    <3>3. others \in Seq(Types)
          /\ \A type \in ButtonTypes \cup {"SYSTEM_INITIALISED"} : ~Has(others, type)
      <4>1. CASE others = <<>>
        BY <3>1, <4>1, FewEvents
      <4>2. CASE others = <<"VOLTAGE_REGULATOR_DISABLED">>
        BY <3>1, <4>2, FewEvents
      <4> QED BY <3>2, <4>1, <4>2
    <3> HIDE DEF others
    <3>4. /\ <<"LCD_DISABLED">> \in Seq(Types) /\ <<>> \in Seq(Types)
          /\ \A type \in ButtonTypes \cup {"SYSTEM_INITIALISED"} :
                 ~Has(<<"LCD_DISABLED">>, type) /\ ~Has(<<>>, type)
      BY <3>1, FewEvents
    <3>5. <<"LCD_DISABLED">> \o others \in Seq(Types)
      BY <3>3, <3>4
    <3>6. \A type \in ButtonTypes \cup {"SYSTEM_INITIALISED"} :
             ~Has(<<"LCD_DISABLED">> \o others, type)
      BY <3>3, <3>4, HasConcatenation
    <3> QED BY <3>4, <3>5, <3>6 DEF others
  <2> HIDE DEF events
  <2>4. ScreenInv' /\ WaitsInv'
    BY <1>1, <2>1, ScreenOffKeeps DEF IInv, ScreenInv, WaitsInv
  <2>5. SupplyInv' /\ Both' \in States /\ uiState'.pressed = uiState.pressed
    BY <1>1, <2>1, ScreenOffKeeps
  <2>6. isTimeoutScheduled' \in BOOLEAN /\ isSplashScheduled' \in BOOLEAN
        /\ isMotorEnabled' \in BOOLEAN
    BY <1>1, <2>1, StillOf
  <2> QED BY <1>1, <2>2, <2>3, <2>4, <2>5, <2>6, OthersKeep DEF Running
<1>3. CASE SecondsCounted # ScreenTimeoutSeconds
  <2>1. /\ Publish(<<>>) /\ isTimeoutScheduled' = TRUE
        /\ UNCHANGED <<lcdState, uiState, vregEnableCount, LATB2, LATB0>>
    BY <1>3 DEF uiOnScreenTimeout, nearSchedulerAddOrUpdateTimeout, supplyVars, vregVars
  <2>2. Both' \in States /\ SameScreen(Both, Both') /\ WaitsInv'
    BY <1>1, <2>1, StillOf DEF IInv, Both, SameScreen, WaitsInv
  <2> QED BY <1>1, <2>1, <2>2, NothingKeeps DEF Running, OtherTypes
<1> QED BY <1>2, <1>3

\* What the buttons are found to be, at the end of the debouncing.
LEMMA ButtonEventsTell ==
    ASSUME PORTA \in Buttons, buttonStateSampled \in Buttons, NEW b \in BothButtons
    PROVE  LET events == ButtonEvents(b)
           IN /\ events \in Seq(Types)
              /\ \A type \in Types :
                     Has(events, type) <=>
                         \/ type = PressedEvent[b] /\ b \in PORTA \ buttonStateSampled
                         \/ type = ReleasedEvent[b] /\ b \in buttonStateSampled \ PORTA
<1>1. PressedEvent[b] \in Types /\ ReleasedEvent[b] \in Types
  BY ButtonEventsAre
<1>2. CASE (b \in PORTA) = (b \in buttonStateSampled)
  BY <1>2, HasFew DEF ButtonEvents
<1>3. CASE b \in PORTA /\ b \notin buttonStateSampled
  <2>1. ButtonEvents(b) = <<PressedEvent[b]>>
    BY <1>3 DEF ButtonEvents
  <2> QED BY <1>1, <1>3, <2>1, HasFew
<1>4. CASE b \notin PORTA /\ b \in buttonStateSampled
  <2>1. ButtonEvents(b) = <<ReleasedEvent[b]>>
    BY <1>4 DEF ButtonEvents
  <2> QED BY <1>1, <1>4, <2>1, HasFew
<1> QED BY <1>2, <1>3, <1>4

LEMMA ButtonsAreFound ==
    ASSUME PORTA \in Buttons, buttonStateSampled \in Buttons
    PROVE  LET events == onButtonsStoppedBouncingEvents
           IN /\ events \in Seq(Types)
              /\ \A type \in Types \ ButtonTypes : ~Has(events, type)
              /\ \A b \in BothButtons :
                     /\ Has(events, PressedEvent[b]) <=> b \in PORTA \ buttonStateSampled
                     /\ Has(events, ReleasedEvent[b]) <=> b \in buttonStateSampled \ PORTA
<1> DEFINE left == ButtonEvents("left")
           right == ButtonEvents("right")
<1>1. "left" \in BothButtons /\ "right" \in BothButtons
      /\ \A b \in BothButtons : b = "left" \/ b = "right"
  BY DEF BothButtons
<1>2. left \in Seq(Types) /\ right \in Seq(Types)
  BY <1>1, ButtonEventsTell
<1>3. \A type \in Types :
         /\ Has(left, type) <=>
                \/ type = PressedEvent["left"] /\ "left" \in PORTA \ buttonStateSampled
                \/ type = ReleasedEvent["left"] /\ "left" \in buttonStateSampled \ PORTA
         /\ Has(right, type) <=>
                \/ type = PressedEvent["right"] /\ "right" \in PORTA \ buttonStateSampled
                \/ type = ReleasedEvent["right"] /\ "right" \in buttonStateSampled \ PORTA
  BY <1>1, ButtonEventsTell
<1> HIDE DEF left, right
<1>4. \A type : Has(right \o left, type) <=> Has(right, type) \/ Has(left, type)
  BY <1>2, HasConcatenation
<1>5. right \o left \in Seq(Types)
  BY <1>2
<1>6. onButtonsStoppedBouncingEvents = right \o left
  BY DEF onButtonsStoppedBouncingEvents, left, right
<1>7. ASSUME NEW type \in Types \ ButtonTypes PROVE ~Has(right \o left, type)
  BY <1>3, <1>4, ButtonEventsAre DEF ButtonTypes
<1>8. ASSUME NEW b \in BothButtons
      PROVE  /\ Has(right \o left, PressedEvent[b]) <=> b \in PORTA \ buttonStateSampled
             /\ Has(right \o left, ReleasedEvent[b]) <=> b \in buttonStateSampled \ PORTA
  <2>1. CASE b = "left"
    BY <1>3, <1>4, <2>1, ButtonEventsAre
  <2>2. CASE b = "right"
    BY <1>3, <1>4, <2>2, ButtonEventsAre
  <2> QED BY <1>1, <2>1, <2>2
<1> QED BY <1>5, <1>6, <1>7, <1>8

LEMMA ButtonsStopBouncingKeeps ==
    ASSUME IInv, ButtonsStopBouncing
    PROVE  IInv'
<1> DEFINE events == onButtonsStoppedBouncingEvents
<1>1. /\ waking /\ waking' /\ "buttons" \in due /\ due' = due \ {"buttons"} /\ Publish(events)
      /\ isBouncing' = FALSE /\ buttonStateSampled' = PORTA
      /\ UNCHANGED <<waking, PORTA, IOCIF, supplyVars, screenVars, isMotorEnabled>>
  BY DEF ButtonsStopBouncing, Calling, onButtonsStoppedBouncing
<1>2. TypesInv /\ FirstInv /\ PORTA \in Buttons /\ buttonStateSampled \in Buttons
  BY DEF IInv, TypesInv
<1>3. events \in Seq(Types)
  BY <1>2, ButtonsAreFound
<1>4. \A b \in BothButtons :
         /\ Has(events, PressedEvent[b]) <=> b \in PORTA \ buttonStateSampled
         /\ Has(events, ReleasedEvent[b]) <=> b \in buttonStateSampled \ PORTA
  BY <1>2, ButtonsAreFound
<1>5. ~Has(events, "SYSTEM_INITIALISED")
  <2>1. "SYSTEM_INITIALISED" \in Types \ ButtonTypes
    BY DEF Types, ButtonTypes
  <2> QED BY <1>2, <2>1, ButtonsAreFound
<1> HIDE DEF events
<1>6. /\ queue' \in Seq(Types) /\ ~IsPending("SYSTEM_INITIALISED")'
      /\ \A type : IsPending(type)' <=> IsPending(type) \/ Has(events, type)
  BY <1>1, <1>2, <1>3, <1>5, PublishKeeps
<1>7. TypesInv'
  BY <1>1, <1>2, <1>6 DEF TypesInv, Both, screenVars, timeoutVars
<1>8. FirstInv'
  BY <1>6 DEF FirstInv
<1>9. ToldInv'
  <2> SUFFICES ASSUME NEW b \in BothButtons PROVE IsTold(b)'
    BY <1>1 DEF ToldInv
  <2>1. IsTold(b) /\ ~IsPending(PressedEvent[b]) /\ ~IsPending(ReleasedEvent[b])
    BY <1>1 DEF IInv, ToldInv, IsTold
  <2>2. /\ IsPending(PressedEvent[b])' <=> b \in PORTA \ buttonStateSampled
        /\ IsPending(ReleasedEvent[b])' <=> b \in buttonStateSampled \ PORTA
    BY <1>4, <1>6, <2>1
  <2>3. b \in uiState.pressed => b \in buttonStateSampled
    BY <2>1 DEF IsTold
  <2>4. uiState' = uiState
    BY <1>1 DEF screenVars
  <2> QED BY <1>1, <2>2, <2>3, <2>4 DEF IsTold
<1>10. BouncingInv' /\ ScreenInv' /\ SupplyInv' /\ WaitsInv'
  BY <1>1 DEF IInv, BouncingInv, ScreenInv, SupplyInv, WaitsInv, screenVars, timeoutVars,
              supplyVars, vregVars
<1> QED BY <1>7, <1>8, <1>9, <1>10 DEF IInv
-----------------------------------------------------------------------------
(***************************************************************************)
(* The events.  Nothing is due while one is dispatched.                    *)
(***************************************************************************)
LEMMA DispatchingIs ==
    ASSUME IInv, NEW type, Dispatching(type), UNCHANGED <<waking, due>>
    PROVE  /\ due' \subseteq due /\ WaitsInv' /\ (due' # {} => waking')
           /\ \A b \in BothButtons : "buttons" \notin due'
           /\ type \in Types \ ButtonTypes => Running
<1>1. due' = {}
  BY DEF IInv, ToldInv, Dispatching
<1> QED BY <1>1 DEF WaitsInv, Running

\* The events of the LCD, its supply and the motor that change nothing but the drawing.
LEMMA LcdEventsKeep ==
    ASSUME IInv, VregEnabled \/ uiOnLcdEnabled \/ uiOnLcdDisabled \/ Unheard
    PROVE  IInv'
<1>1. /\ Publish(<<>>)
      /\ UNCHANGED <<waking, due, buttonVars, supplyVars, timeoutVars, isSplashScheduled,
                     isMotorEnabled>>
  BY DEF VregEnabled, uiOnLcdEnabled, uiOnLcdDisabled, Unheard, screenVars
<1>2. PICK type \in OtherTypes : Dispatching(type)
  BY DEF VregEnabled, uiOnLcdEnabled, uiOnLcdDisabled, Unheard, OtherTypes
<1>3. due' \subseteq due /\ WaitsInv' /\ Running
  <2>1. type \in Types \ ButtonTypes
    BY DEF OtherTypes, Types, ButtonTypes
  <2> QED BY <1>1, <1>2, <2>1, DispatchingIs
<1>4. Both \in States /\ lcdState \in LcdStates /\ uiState \in UiStates
  BY StillOf
<1>5. Both' \in States /\ SameScreen(Both, Both')
  <2>1. CASE VregEnabled
    <3> DEFINE busy == [lcdState EXCEPT !.isBusy = TRUE]
    <3>1. uiState' = uiState /\ lcdState' = lcdOnVoltageRegulatorEnabled(lcdState)
      BY <2>1 DEF VregEnabled
    <3>2. busy \in LcdStates /\ busy.enableCount = lcdState.enableCount
      BY <1>4 DEF LcdStates
    <3>3. lcdConfigure(lcdState) = AddWait(busy, ConfigureWait(0))
      BY DEF lcdConfigure
    <3> HIDE DEF busy
    <3>4. LcdDrawn(busy, lcdConfigure(lcdState))
      BY <3>2, <3>3, AddWaitDraws, WaitsAreWaits
    <3>5. lcdState' \in LcdStates /\ lcdState'.enableCount = lcdState.enableCount
      BY <1>4, <3>1, <3>2, <3>4 DEF lcdOnVoltageRegulatorEnabled, LcdDrawn
    <3> QED BY <1>4, <3>1, <3>5 DEF Both, States, SameScreen
  <2>2. CASE uiOnLcdEnabled
    <3> DEFINE b == [Both EXCEPT !.ui.isLcdEnabled = TRUE]
    <3>1. b \in States /\ SameScreen(Both, b)
      BY <1>4 DEF States, UiStates, Both, SameScreen
    <3>2. Blits(b)
      BY <2>2 DEF uiOnLcdEnabled
    <3> HIDE DEF b
    <3>3. Drawn(b, Both')
      BY <3>1, <3>2, BlitsDraw
    <3>4. Both' \in States /\ SameScreen(b, Both')
      BY <3>3, DrawnIsSameScreen
    <3> QED BY <3>1, <3>4 DEF SameScreen
  <2>3. CASE uiOnLcdDisabled
    <3>1. uiState' = [uiState EXCEPT !.isLcdEnabled = FALSE] /\ lcdState' = lcdState
      BY <2>3 DEF uiOnLcdDisabled
    <3> QED BY <1>4, <3>1 DEF States, UiStates, Both, SameScreen
  <2>4. CASE Unheard
    <3>1. uiState' = uiState /\ lcdState' = lcdState
      BY <2>4 DEF Unheard, screenVars
    <3> QED BY <1>4, <3>1 DEF Both, SameScreen
  <2> QED BY <2>1, <2>2, <2>3, <2>4
<1>6. UNCHANGED <<vregEnableCount, LATB2, LATB0>> /\ isTimeoutScheduled' = isTimeoutScheduled
      /\ isSplashScheduled' = isSplashScheduled /\ isMotorEnabled' = isMotorEnabled
  BY <1>1 DEF supplyVars, vregVars, timeoutVars
<1>7. UNCHANGED <<waking, buttonVars>>
  BY <1>1
<1> QED BY <1>1, <1>3, <1>5, <1>6, <1>7, NothingKeeps

LEMMA MotorKeeps ==
    ASSUME IInv, MotorIsEnabled \/ MotorIsDisabled
    PROVE  IInv'
<1>1. /\ Dispatching("TIME_CHANGED")
      /\ UNCHANGED <<waking, due, buttonVars, screenVars>>
  BY DEF MotorIsEnabled, MotorIsDisabled
<1>2. due' \subseteq due /\ WaitsInv' /\ Running
  <2>1. "TIME_CHANGED" \in Types \ ButtonTypes
    BY DEF OtherTypes, Types, ButtonTypes
  <2> QED BY <1>1, <2>1, DispatchingIs
<1>3. PICK events \in Seq(Types) :
          /\ Publish(events)
          /\ \A type \in ButtonTypes \cup {"SYSTEM_INITIALISED"} : ~Has(events, type)
  <2> DEFINE others == voltageRegulatorDisableEvents
             Rid(s) == s \in Seq(Types)
                      /\ \A type \in ButtonTypes \cup {"SYSTEM_INITIALISED"} : ~Has(s, type)
  <2>1. {"DOOR_CALIBRATED", "VOLTAGE_REGULATOR_DISABLED"}
          \subseteq Types \ (ButtonTypes \cup {"SYSTEM_INITIALISED"})
    BY DEF Types, OtherTypes, ButtonTypes
  <2>2. Rid(<<>>) /\ Rid(<<"DOOR_CALIBRATED">>) /\ Rid(<<"VOLTAGE_REGULATOR_DISABLED">>)
    BY <2>1, FewEvents
  <2>3. others = <<>> \/ others = <<"VOLTAGE_REGULATOR_DISABLED">>
    BY DEF voltageRegulatorDisableEvents
  <2>4. Rid(others)
    BY <2>2, <2>3
  <2> HIDE DEF others
  <2>5. ASSUME NEW s, Rid(s) PROVE Rid(s \o others)
    BY <2>4, <2>5, HasConcatenation
  <2>6. CASE MotorIsEnabled
    BY <2>2, <2>6 DEF MotorIsEnabled
  <2>7. CASE MotorIsDisabled
    <3>1. PICK calibrated \in {<<>>, <<"DOOR_CALIBRATED">>} : Publish(calibrated \o others)
      BY <2>7 DEF MotorIsDisabled, others
    <3>2. Rid(calibrated \o others)
      BY <2>2, <2>5
    <3> QED BY <3>1, <3>2
  <2> QED BY <2>6, <2>7
<1>4. isMotorEnabled' \in BOOLEAN /\ SupplyInv'
  <2>1. vregEnableCount \in Nat /\ SupplyInv /\ uiState' = uiState /\ lcdState' = lcdState
    BY <1>1, StillOf DEF screenVars
  <2>2. CASE MotorIsEnabled
    <3>1. ~isMotorEnabled /\ isMotorEnabled' = TRUE /\ vregEnableCount' = vregEnableCount + 1
          /\ vregEnableCount' # 0
      BY <2>1, <2>2, SupplyEnabled DEF MotorIsEnabled
    <3> QED BY <2>1, <3>1 DEF SupplyInv, Count
  <2>3. CASE MotorIsDisabled
    <3>1. isMotorEnabled /\ isMotorEnabled' = FALSE /\ voltageRegulatorDisable
      BY <2>3 DEF MotorIsDisabled
    <3>2. vregEnableCount \in Nat \ {0}
      BY <2>1, <3>1 DEF SupplyInv, Count
    <3>3. vregEnableCount' = vregEnableCount - 1 /\ (LATB2' \/ LATB0' => vregEnableCount' # 0)
      BY <2>1, <3>1, <3>2, SupplyDisabled DEF SupplyInv
    <3>4. vregEnableCount' = Count(uiState.isScreenOn)
      BY <2>1, <3>1, <3>3 DEF SupplyInv, Count
    <3>5. SupplyInv'
      BY <2>1, <3>1, <3>3, <3>4 DEF SupplyInv, Count
    <3> QED BY <3>1, <3>5
  <2> QED BY <2>2, <2>3
<1>5. /\ ScreenInv' /\ uiState'.pressed = uiState.pressed /\ Both' \in States
      /\ isTimeoutScheduled' \in BOOLEAN /\ isSplashScheduled' \in BOOLEAN
  BY <1>1, StillOf DEF ScreenInv, Both, screenVars, timeoutVars
<1>6. UNCHANGED <<waking, buttonVars>>
  BY <1>1
<1> QED BY <1>2, <1>3, <1>4, <1>5, <1>6, OthersKeep

LEMMA ScreenOnKeeps ==
    ASSUME IInv, NEW ui \in UiStates, ~uiState.isScreenOn, uiScreenOn(ui),
           UNCHANGED isMotorEnabled
    PROVE  /\ Both' \in States /\ SupplyInv' /\ isTimeoutScheduled' = TRUE
           /\ uiState'.pressed = ui.pressed
           /\ uiState'.isScreenTimeoutDisabled = ui.isScreenTimeoutDisabled
           /\ uiState'.isButtonPressPreventedFromTurningOnScreen
                = ui.isButtonPressPreventedFromTurningOnScreen
<1>1. /\ uiState' \in UiStates /\ uiState'.isScreenOn
      /\ uiState'.pressed = ui.pressed
      /\ uiState'.isScreenTimeoutDisabled = ui.isScreenTimeoutDisabled
      /\ uiState'.isButtonPressPreventedFromTurningOnScreen
           = ui.isButtonPressPreventedFromTurningOnScreen
  BY DEF uiScreenOn, UiStates
<1>2. lcdState \in LcdStates /\ lcdState.enableCount = 0
      /\ vregEnableCount = Count(isMotorEnabled)
  BY StillOf DEF SupplyInv, Count
<1>3. lcdState' \in LcdStates /\ lcdState'.enableCount = 1
  <2> DEFINE on == [lcdState EXCEPT !.enableCount = 1]
             busy == [on EXCEPT !.isBusy = TRUE]
  <2>1. on \in LcdStates /\ on.enableCount = 1 /\ busy \in LcdStates /\ busy.enableCount = 1
    BY <1>2 DEF LcdStates
  <2>2. lcdState' = IF fullyEnabled THEN AddWait(busy, ConfigureWait(0)) ELSE on
    BY <1>2 DEF uiScreenOn, lcdEnable, lcdConfigure
  <2> HIDE DEF on, busy
  <2>3. LcdDrawn(busy, AddWait(busy, ConfigureWait(0)))
    BY <2>1, AddWaitDraws, WaitsAreWaits
  <2> QED BY <2>1, <2>2, <2>3 DEF LcdDrawn
<1>4. vregEnableCount' = 1 + Count(isMotorEnabled) /\ vregEnableCount' # 0
  <2>1. voltageRegulatorEnable /\ vregEnableCount \in Nat
    BY <1>2, StillOf DEF uiScreenOn
  <2> QED BY <1>2, <2>1, SupplyEnabled DEF Count
<1>5. SupplyInv'
  BY <1>1, <1>3, <1>4 DEF SupplyInv, Count
<1>6. isTimeoutScheduled' = TRUE
  BY DEF uiScreenOn, nearSchedulerAddOrUpdateTimeout
<1>7. Both' \in States
  BY <1>1, <1>3 DEF Both, States
<1> QED BY <1>1, <1>5, <1>6, <1>7, Zenon

LEMMA SystemInitialisedKeeps ==
    ASSUME IInv, uiOnSystemInitialised
    PROVE  IInv'
<1> DEFINE ui == [uiState EXCEPT !.isScreenTimeoutDisabled = TRUE]
<1>1. /\ Dispatching("SYSTEM_INITIALISED") /\ uiScreenOn(ui) /\ isSplashScheduled' = TRUE
      /\ Publish(<<>>) /\ UNCHANGED <<waking, due, buttonVars, isMotorEnabled>>
  BY DEF uiOnSystemInitialised
<1>2. IsPending("SYSTEM_INITIALISED")
  <2>1. queue \in Seq(Types) /\ queue # <<>> /\ queue[1] = "SYSTEM_INITIALISED"
    BY <1>1 DEF Dispatching, IInv, TypesInv
  <2>2. 1 \in 1 .. Len(queue)
    BY <2>1
  <2> QED BY <2>1, <2>2 DEF IsPending, Has
<1>3. ~uiState.isScreenOn /\ ~uiState.isButtonPressPreventedFromTurningOnScreen
  BY <1>2 DEF IInv, FirstInv
<1>4. /\ ui \in UiStates /\ ui.pressed = uiState.pressed
      /\ ~ui.isButtonPressPreventedFromTurningOnScreen
  BY <1>3, StillOf DEF UiStates
<1> HIDE DEF ui
<1>5. /\ Both' \in States /\ SupplyInv' /\ isTimeoutScheduled' = TRUE
      /\ uiState'.pressed = uiState.pressed
      /\ ~uiState'.isButtonPressPreventedFromTurningOnScreen
  BY <1>1, <1>3, <1>4, ScreenOnKeeps
<1>6. ScreenInv'
  BY <1>1, <1>5 DEF ScreenInv
<1>7. due' \subseteq due /\ WaitsInv' /\ Running
  <2>1. "SYSTEM_INITIALISED" \in Types \ ButtonTypes
    BY DEF Types, ButtonTypes
  <2> QED BY <1>1, <2>1, DispatchingIs
<1>8. UNCHANGED <<waking, buttonVars>> /\ isSplashScheduled' \in BOOLEAN
      /\ isMotorEnabled' \in BOOLEAN
  BY <1>1, StillOf
<1> QED BY <1>1, <1>5, <1>6, <1>7, <1>8, HasFew, OthersKeep

LEMMA DoorCalibratedKeeps ==
    ASSUME IInv, uiDoorOnCalibrated
    PROVE  IInv'
<1> DEFINE ui == [uiState EXCEPT !.isScreenTimeoutDisabled = FALSE]
<1>1. /\ Dispatching("DOOR_CALIBRATED") /\ isTimeoutScheduled' = TRUE
      /\ Publish(<<>>)
      /\ UNCHANGED <<waking, due, buttonVars, supplyVars, isSplashScheduled, isMotorEnabled>>
  BY DEF uiDoorOnCalibrated, uiScreenStartTimeout, nearSchedulerAddOrUpdateTimeout
<1>2. PICK b \in Shows(ui) : Blits(b)
  BY DEF uiDoorOnCalibrated
<1>3. ui \in UiStates /\ ui.pressed = uiState.pressed /\ ui.isScreenOn = uiState.isScreenOn
      /\ ~ui.isScreenTimeoutDisabled /\ lcdState \in LcdStates
  BY StillOf DEF UiStates
<1> HIDE DEF ui
<1>4. OfUi(ui, Both')
  BY <1>2, <1>3, ShowsKeeps, OfUiBlits
<1>5. SupplyInv'
  BY <1>1, <1>3, <1>4, SupplyIsKept
<1>6. ScreenInv' /\ uiState'.pressed = uiState.pressed /\ Both' \in States
  BY <1>1, <1>3, <1>4 DEF ScreenInv, OfUi, Both
<1>7. due' \subseteq due /\ WaitsInv' /\ Running
  <2>1. "DOOR_CALIBRATED" \in Types \ ButtonTypes
    BY DEF Types, OtherTypes, ButtonTypes
  <2> QED BY <1>1, <2>1, DispatchingIs
<1>8. UNCHANGED <<waking, buttonVars>> /\ isSplashScheduled' \in BOOLEAN
      /\ isMotorEnabled' \in BOOLEAN
  BY <1>1, StillOf
<1> QED BY <1>1, <1>5, <1>6, <1>7, <1>8, HasFew, OthersKeep

\* The user interface is told of a button.
LEMMA BehavesKeeps ==
    ASSUME IInv, NEW ui \in UiStates,
           NEW changes, \A b \in changes : OfUi(ui, b), Behaves(ui, changes)
    PROVE  OfUi(ui, Both')
<1>1. CASE uiState' = ui /\ UNCHANGED lcdState
  BY <1>1, StillOf DEF OfUi, Both, States
<1>2. CASE \E b \in changes : Blits(b)
  BY <1>2, OfUiBlits
<1> QED BY <1>1, <1>2 DEF Behaves

LEMMA ToldOfButton ==
    ASSUME IInv, NEW button \in BothButtons,
           \/ Dispatching(PressedEvent[button]) /\ uiState'.pressed = uiState.pressed \cup {button}
           \/ Dispatching(ReleasedEvent[button]) /\ uiState'.pressed = uiState.pressed \ {button},
           Publish(<<>>), UNCHANGED <<waking, due, buttonVars, isSplashScheduled, isMotorEnabled>>,
           Both' \in States, isTimeoutScheduled' \in BOOLEAN, ScreenInv', SupplyInv'
    PROVE  IInv'
<1>1. queue # <<>> /\ ~waking
  BY DEF Dispatching
<1>2. TypesInv /\ FirstInv /\ ToldInv /\ queue \in Seq(Types)
  BY DEF IInv, TypesInv
<1>3. /\ queue' \in Seq(Types) /\ ~IsPending("SYSTEM_INITIALISED")'
      /\ \A type : IsPending(type)' => IsPending(type)
      /\ \A type : IsPending(type) /\ Head(queue) # type => IsPending(type)'
  BY <1>1, <1>2, HasFew, PublishKeeps
<1>4. due = {} /\ due' = {} /\ WaitsInv'
  BY <1>1, <1>2 DEF ToldInv, WaitsInv
<1>5. IsPending(Head(queue))
  <2>1. 1 \in 1 .. Len(queue) /\ queue[1] = Head(queue)
    BY <1>1, <1>2
  <2> QED BY <2>1 DEF IsPending, Has
<1>6. ToldInv'
  <2> SUFFICES ASSUME NEW b \in BothButtons PROVE IsTold(b)'
    BY <1>4 DEF ToldInv
  <2>1. IsTold(b)
    BY <1>2 DEF ToldInv
  <2>2. buttonStateSampled' = buttonStateSampled
    BY DEF buttonVars
  <2>3. IsPending(PressedEvent[b])' => b \in buttonStateSampled /\ ~IsPending(ReleasedEvent[b])'
    BY <1>3, <2>1 DEF IsTold
  <2>4. b \in uiState'.pressed => b \in buttonStateSampled \/ IsPending(ReleasedEvent[b])'
    <3>1. CASE /\ Dispatching(PressedEvent[button])
               /\ uiState'.pressed = uiState.pressed \cup {button}
      <4>1. Head(queue) = PressedEvent[button] /\ IsPending(PressedEvent[button])
        BY <1>5, <3>1 DEF Dispatching
      <4>2. CASE b = button
        BY <2>1, <4>1, <4>2 DEF IsTold
      <4>3. CASE b # button
        <5>1. b \in uiState'.pressed => b \in uiState.pressed
          BY <3>1, <4>3
        <5>2. Head(queue) # ReleasedEvent[b]
          BY <4>1, ButtonEventsAre DEF BothButtons
        <5> QED BY <1>3, <2>1, <5>1, <5>2 DEF IsTold
      <4> QED BY <4>2, <4>3
    <3>2. CASE /\ Dispatching(ReleasedEvent[button])
               /\ uiState'.pressed = uiState.pressed \ {button}
      <4>1. CASE b = button
        BY <3>2, <4>1
      <4>2. CASE b # button
        <5>1. b \in uiState'.pressed => b \in uiState.pressed
          BY <3>2
        <5>2. Head(queue) # ReleasedEvent[b]
          BY <3>2, <4>2, ButtonEventsAre DEF Dispatching, BothButtons
        <5> QED BY <1>3, <2>1, <5>1, <5>2 DEF IsTold
      <4> QED BY <4>1, <4>2
    <3> QED BY <3>1, <3>2
  <2>5. "buttons" \notin due'
    BY <1>4
  <2> QED BY <2>2, <2>3, <2>4, <2>5 DEF IsTold
<1>7. TypesInv'
  BY <1>2, <1>3 DEF TypesInv, buttonVars
<1>8. FirstInv' /\ BouncingInv'
  BY <1>3 DEF FirstInv, IInv, BouncingInv, buttonVars
<1> QED BY <1>4, <1>6, <1>7, <1>8 DEF IInv

LEMMA PressedKeeps ==
    ASSUME IInv, NEW button \in BothButtons, uiInputOnButtonsPressed(button)
    PROVE  IInv'
<1> DEFINE ui == [uiState EXCEPT !.pressed = @ \cup {button}]
           awake == [ui EXCEPT !.isButtonPressTurningOnScreen = ~ScreenStaysOff(ui),
                               !.isScreenTimeoutDisabled = TRUE]
           increments == IF button = "left" THEN Increments(awake) ELSE {}
<1>1. /\ Dispatching(PressedEvent[button]) /\ Publish(<<>>)
      /\ UNCHANGED <<waking, due, buttonVars, isSplashScheduled, isMotorEnabled>>
      /\ \/ ~ScreenStaysOff(ui) /\ uiScreenOn(awake)
         \/ /\ ~ui.isButtonPressPreventedFromTurningOnScreen /\ ui.isScreenOn
            /\ Behaves(awake, increments) /\ UNCHANGED <<supplyVars, timeoutVars>>
         \/ /\ ui.isButtonPressPreventedFromTurningOnScreen
            /\ Behaves(ui, {}) /\ UNCHANGED <<supplyVars, timeoutVars>>
  BY DEF uiInputOnButtonsPressed
<1>2. /\ ui \in UiStates /\ ui.pressed = uiState.pressed \cup {button}
      /\ ui.isScreenOn = uiState.isScreenOn
      /\ ui.isScreenTimeoutDisabled = uiState.isScreenTimeoutDisabled
      /\ ui.isButtonPressPreventedFromTurningOnScreen
           = uiState.isButtonPressPreventedFromTurningOnScreen
  BY StillOf DEF UiStates, Buttons
<1>3. /\ awake \in UiStates /\ awake.pressed = uiState.pressed \cup {button}
      /\ awake.isScreenOn = uiState.isScreenOn
      /\ awake.isScreenTimeoutDisabled
      /\ awake.isButtonPressPreventedFromTurningOnScreen
           = uiState.isButtonPressPreventedFromTurningOnScreen
  <2>1. ScreenStaysOff(ui) \in BOOLEAN
    BY DEF ScreenStaysOff
  <2> HIDE DEF ui
  <2> QED BY <1>2, <2>1 DEF UiStates
<1>4. lcdState \in LcdStates /\ isTimeoutScheduled \in BOOLEAN /\ ScreenInv
  BY StillOf
<1>5. ScreenStaysOff(ui) <=> ui.isButtonPressPreventedFromTurningOnScreen \/ ui.isScreenOn
  BY DEF ScreenStaysOff
<1>6. \A b \in increments : OfUi(awake, b)
  BY <1>3, <1>4, IncrementsKeeps
<1> HIDE DEF awake, ui, increments
<1>7. /\ uiState'.pressed = uiState.pressed \cup {button}
      /\ Both' \in States /\ isTimeoutScheduled' \in BOOLEAN /\ ScreenInv' /\ SupplyInv'
  <2>1. CASE ~ScreenStaysOff(ui) /\ uiScreenOn(awake)
    <3>1. ~uiState.isScreenOn /\ ~awake.isButtonPressPreventedFromTurningOnScreen
      BY <1>2, <1>3, <1>5, <2>1
    <3>2. /\ Both' \in States /\ SupplyInv' /\ isTimeoutScheduled' = TRUE
          /\ uiState'.pressed = uiState.pressed \cup {button}
          /\ ~uiState'.isButtonPressPreventedFromTurningOnScreen
      BY <1>1, <1>3, <2>1, <3>1, ScreenOnKeeps
    <3>3. ScreenInv'
      BY <3>2 DEF ScreenInv
    <3> QED BY <3>2, <3>3
  <2>2. CASE /\ ~ui.isButtonPressPreventedFromTurningOnScreen /\ ui.isScreenOn
             /\ Behaves(awake, increments) /\ UNCHANGED <<supplyVars, timeoutVars>>
    <3>1. OfUi(awake, Both')
      BY <1>3, <1>6, <2>2, BehavesKeeps
    <3>2. isTimeoutScheduled' = isTimeoutScheduled
      BY <2>2 DEF timeoutVars
    <3>3. SupplyInv'
      BY <1>1, <1>3, <2>2, <3>1, SupplyIsKept
    <3>4. Both' \in States /\ uiState'.pressed = uiState.pressed \cup {button}
      BY <1>3, <3>1 DEF OfUi, Both
    <3>5. ScreenInv'
      BY <1>2, <1>3, <1>4, <2>2, <3>1, <3>2 DEF OfUi, Both, ScreenInv
    <3> QED BY <1>4, <3>2, <3>3, <3>4, <3>5
  <2>3. CASE /\ ui.isButtonPressPreventedFromTurningOnScreen
             /\ Behaves(ui, {}) /\ UNCHANGED <<supplyVars, timeoutVars>>
    <3>1. OfUi(ui, Both')
      BY <1>2, <2>3, BehavesKeeps
    <3>2. isTimeoutScheduled' = isTimeoutScheduled
      BY <2>3 DEF timeoutVars
    <3>3. SupplyInv'
      BY <1>1, <1>2, <2>3, <3>1, SupplyIsKept
    <3>4. Both' \in States /\ uiState'.pressed = uiState.pressed \cup {button}
      BY <1>2, <3>1 DEF OfUi, Both
    <3>5. ScreenInv'
      BY <1>2, <1>4, <2>3, <3>1, <3>2 DEF OfUi, Both, ScreenInv
    <3> QED BY <1>4, <3>2, <3>3, <3>4, <3>5
  <2> QED BY <1>1, <2>1, <2>2, <2>3
<1> QED BY <1>1, <1>7, ToldOfButton

LEMMA ReleasedKeeps ==
    ASSUME IInv, NEW button \in BothButtons, uiInputOnButtonsReleased(button)
    PROVE  IInv'
<1> DEFINE released == uiState.pressed \ {button}
           isLast == ~uiState.isButtonPressPreventedFromTurningOnScreen /\ released = {}
           ui == [uiState EXCEPT !.pressed = released,
                                 !.isScreenTimeoutDisabled = @ /\ ~isLast]
           shown == IF button = "right" /\ ~ui.isButtonPressTurningOnScreen
                      THEN Shows(ui) ELSE {}
<1>1. /\ Dispatching(ReleasedEvent[button]) /\ Publish(<<>>)
      /\ UNCHANGED <<waking, due, buttonVars, supplyVars, isSplashScheduled, isMotorEnabled>>
      /\ Behaves(ui, shown)
      /\ isTimeoutScheduled' = TRUE \/ isTimeoutScheduled' = isTimeoutScheduled
  BY DEF uiInputOnButtonsReleased, uiScreenStartTimeout, nearSchedulerAddOrUpdateTimeout,
         timeoutVars
<1>2. lcdState \in LcdStates /\ isTimeoutScheduled \in BOOLEAN /\ ScreenInv
      /\ uiState \in UiStates
  BY StillOf
<1>3. /\ ui \in UiStates /\ ui.pressed = released
      /\ ui.isScreenOn = uiState.isScreenOn
      /\ ui.isScreenTimeoutDisabled => uiState.isScreenTimeoutDisabled /\ ~isLast
      /\ ui.isButtonPressPreventedFromTurningOnScreen
           = uiState.isButtonPressPreventedFromTurningOnScreen
  <2>1. released \in Buttons
    BY <1>2 DEF UiStates, Buttons
  <2>2. isLast \in BOOLEAN
    OBVIOUS
  <2> HIDE DEF isLast, released
  <2> QED BY <1>2, <2>1, <2>2 DEF UiStates
<1>4. \A b \in shown : OfUi(ui, b)
  BY <1>2, <1>3, ShowsKeeps
<1> HIDE DEF ui, shown
<1>5. OfUi(ui, Both')
  BY <1>1, <1>3, <1>4, BehavesKeeps
<1>6. SupplyInv'
  BY <1>1, <1>3, <1>5, SupplyIsKept
<1>7. Both' \in States /\ uiState'.pressed = released
  BY <1>3, <1>5 DEF OfUi, Both
<1>8. isTimeoutScheduled' \in BOOLEAN
  BY <1>1, <1>2
<1>9. ScreenInv'
  <2>1. uiState'.isScreenOn => isTimeoutScheduled'
    BY <1>1, <1>2, <1>3, <1>5 DEF OfUi, Both, ScreenInv
  <2>2. uiState'.isScreenTimeoutDisabled => isSplashScheduled' \/ uiState'.pressed # {}
    BY <1>2, <1>3, <1>5, <1>7 DEF OfUi, Both, ScreenInv
  <2>3. uiState'.isButtonPressPreventedFromTurningOnScreen => ~uiState'.isScreenTimeoutDisabled
    BY <1>2, <1>3, <1>5 DEF OfUi, Both, ScreenInv
  <2> QED BY <2>1, <2>2, <2>3 DEF ScreenInv
<1> HIDE DEF released
<1>10. uiState'.pressed = uiState.pressed \ {button}
  BY <1>7 DEF released
<1> QED BY <1>1, <1>6, <1>7, <1>8, <1>9, <1>10, ToldOfButton
-----------------------------------------------------------------------------
LEMMA StepPreserves ==
    ASSUME IInv, [Next]_vars
    PROVE  IInv'
<1>1. CASE WakeUp
  BY <1>1, WakeUpKeeps
<1>2. CASE WokenEnds
  BY <1>2, WokenEndsKeeps
<1>3. CASE Callback
  BY <1>3, SupplyCallbacksKeep, ButtonsStopBouncingKeeps, LcdWaitEndsKeeps, ScreenTimeoutKeeps,
     SplashEndsKeeps DEF Callback
<1>4. CASE Dispatch
  BY <1>4, SystemInitialisedKeeps, LcdEventsKeep, MotorKeeps, PressedKeeps, ReleasedKeeps,
     DoorCalibratedKeeps DEF Dispatch
<1>5. CASE Fingers
  BY <1>5, FingersKeep
<1>6. CASE UNCHANGED vars
  <2>1. UNCHANGED <<loopVars, buttonVars, supplyVars, screenVars, isMotorEnabled>>
    BY <1>6 DEF vars
  <2>2. UNCHANGED <<queue, waking, due, PORTA, IOCIF, isBouncing, buttonStateSampled,
                    vregEnableCount, LATB2, LATB0, lcdState, uiState, isTimeoutScheduled,
                    isSplashScheduled, isMotorEnabled>>
    BY <2>1 DEF loopVars, buttonVars, supplyVars, vregVars, screenVars, timeoutVars
  <2>3. TypesInv'
    BY <2>2 DEF IInv, TypesInv, Both
  <2>4. FirstInv' /\ ToldInv'
    BY <2>2 DEF IInv, FirstInv, ToldInv, IsTold, IsPending
  <2>5. BouncingInv' /\ ScreenInv' /\ SupplyInv' /\ WaitsInv'
    BY <2>2 DEF IInv, BouncingInv, ScreenInv, SupplyInv, WaitsInv
  <2> QED BY <2>3, <2>4, <2>5 DEF IInv
<1> QED BY <1>1, <1>2, <1>3, <1>4, <1>5, <1>6 DEF Next

LEMMA InvariantHolds == Spec => []IInv
<1>1. Init => IInv
  BY InitHolds
<1>2. IInv /\ [Next]_vars => IInv'
  BY StepPreserves
<1> QED BY <1>1, <1>2, PTL DEF Spec

LEMMA InvariantSuffices == IInv => OnlyAFingerKeepsItLit
<1> SUFFICES ASSUME IInv PROVE OnlyAFingerKeepsItLit
  OBVIOUS
<1>1. buttonStateSampled # PORTA => isBouncing \/ IOCIF
  BY DEF IInv, BouncingInv
<1>2. ASSUME queue = <<>>
      PROVE  uiState.pressed \subseteq buttonStateSampled
  <2>1. \A b \in BothButtons : b \in uiState.pressed => b \in buttonStateSampled
    BY <1>2, HasFew DEF IInv, ToldInv, IsTold, IsPending
  <2>2. uiState.pressed \subseteq BothButtons
    BY StillOf DEF UiStates, Buttons
  <2> QED BY <2>1, <2>2
<1>3. uiState.isScreenOn =>
          /\ isTimeoutScheduled
          /\ uiState.isScreenTimeoutDisabled => isSplashScheduled \/ uiState.pressed # {}
  BY DEF IInv, ScreenInv
<1>4. ~uiState.isScreenOn /\ ~isMotorEnabled => ~LATB2 /\ ~LATB0
  BY DEF IInv, SupplyInv, Count
<1> QED BY <1>1, <1>2, <1>3, <1>4 DEF OnlyAFingerKeepsItLit

\* Whatever the buttons and the motor do, and however long a line of the LCD and the
\* timeout are: a screen that is lit is having its seconds counted, and nothing but the
\* splash screen and a button that is still held stops them; a button whose state is
\* not the one that was last looked at is being debounced or has an edge to be seen;
\* and a screen that is off has let go of the supply (UiScreen.c, UiInput.c, Buttons.c).
THEOREM TheScreenGoesDark == Spec => []OnlyAFingerKeepsItLit
BY InvariantHolds, InvariantSuffices, PTL
-----------------------------------------------------------------------------
(***************************************************************************)
(* What the LCD waits for.                                                 *)
(***************************************************************************)
IsConfigure(wait) == wait.handler = "lcdConfigureStateMachine"
Configures(waits) == \E i \in 1 .. Len(waits) : IsConfigure(waits[i])
Transacts(waits) == \E i \in 1 .. Len(waits) : ~IsConfigure(waits[i])

\* One configuration and one transaction at most.
OneOfEach(waits) ==
    \A i, j \in 1 .. Len(waits) : (IsConfigure(waits[i]) <=> IsConfigure(waits[j])) => i = j

LEMMA NoWaits ==
    ASSUME NEW waits \in Seq(Waits)
    PROVE  waits = <<>> <=> ~Configures(waits) /\ ~Transacts(waits)
<1>1. Len(waits) \in Nat /\ (waits # <<>> => Len(waits) > 0)
  OBVIOUS
<1>2. CASE waits = <<>>
  BY <1>2 DEF Configures, Transacts
<1>3. CASE waits # <<>>
  <2>1. 1 \in 1 .. Len(waits)
    BY <1>1, <1>3
  <2>2. IsConfigure(waits[1]) \/ ~IsConfigure(waits[1])
    OBVIOUS
  <2>3. Configures(waits) \/ Transacts(waits)
    BY <2>1, <2>2, Zenon DEF Configures, Transacts
  <2> QED BY <1>3, <2>3
<1> QED BY <1>2, <1>3

LEMMA FewWaits ==
    ASSUME NEW waits \in Seq(Waits), OneOfEach(waits)
    PROVE  Len(waits) <= Count(Configures(waits)) + Count(Transacts(waits))
<1>1. Len(waits) \in Nat
  OBVIOUS
<1>2. CASE Len(waits) = 0
  BY <1>2 DEF Count
<1>3. CASE Len(waits) = 1
  <2>1. waits # <<>>
    BY <1>3
  <2>2. Configures(waits) \/ Transacts(waits)
    BY <2>1, NoWaits
  <2> QED BY <1>3, <2>2 DEF Count
<1>4. CASE Len(waits) > 1
  <2>1. 1 \in 1 .. Len(waits) /\ 2 \in 1 .. Len(waits)
    BY <1>1, <1>4
  <2>2. IsConfigure(waits[1]) <=> ~IsConfigure(waits[2])
    BY <2>1 DEF OneOfEach
  <2>3. Configures(waits) /\ Transacts(waits)
    BY <2>1, <2>2 DEF Configures, Transacts
  <2>4. ~(Len(waits) > 2)
    <3>1. SUFFICES ASSUME Len(waits) > 2 PROVE FALSE
      OBVIOUS
    <3>2. 3 \in 1 .. Len(waits)
      BY <1>1, <3>1
    <3> QED BY <2>1, <2>2, <3>2 DEF OneOfEach
  <2> QED BY <1>1, <1>4, <2>3, <2>4 DEF Count
<1>5. \A n \in Nat : n = 0 \/ n = 1 \/ n > 1
  OBVIOUS
<1> QED BY <1>1, <1>2, <1>3, <1>4, <1>5, Zenon

LEMMA WaitIsAdded ==
    ASSUME NEW waits \in Seq(Waits), NEW wait \in Waits
    PROVE  LET added == Append(waits, wait)
           IN /\ added \in Seq(Waits)
              /\ Configures(added) <=> Configures(waits) \/ IsConfigure(wait)
              /\ Transacts(added) <=> Transacts(waits) \/ ~IsConfigure(wait)
              /\ /\ OneOfEach(waits)
                 /\ IF IsConfigure(wait) THEN ~Configures(waits) ELSE ~Transacts(waits)
                 => OneOfEach(added)
<1> DEFINE added == Append(waits, wait)
           n == Len(waits)
<1>1. /\ added \in Seq(Waits) /\ n \in Nat /\ Len(added) = n + 1
      /\ \A i \in 1 .. n : added[i] = waits[i]
      /\ added[n + 1] = wait
  OBVIOUS
<1>2. 1 .. Len(added) = (1 .. n) \cup {n + 1}
  BY <1>1
<1> HIDE DEF added
<1>3. \A i \in 1 .. Len(added) : i \in 1 .. n \/ i = n + 1
  BY <1>2
<1>4. (1 .. n) \subseteq 1 .. Len(added) /\ n + 1 \in 1 .. Len(added)
  BY <1>2
<1> HIDE DEF n
<1>5. Configures(added) <=> Configures(waits) \/ IsConfigure(wait)
  BY <1>1, <1>3, <1>4 DEF Configures, n
<1>6. Transacts(added) <=> Transacts(waits) \/ ~IsConfigure(wait)
  BY <1>1, <1>3, <1>4 DEF Transacts, n
<1>7. ASSUME OneOfEach(waits),
             IF IsConfigure(wait) THEN ~Configures(waits) ELSE ~Transacts(waits),
             NEW i \in 1 .. Len(added), NEW j \in 1 .. Len(added),
             IsConfigure(added[i]) <=> IsConfigure(added[j])
      PROVE  i = j
  <2>1. CASE i \in 1 .. n /\ j \in 1 .. n
    BY <1>1, <1>7, <2>1 DEF OneOfEach, n
  <2>2. ASSUME NEW k \in 1 .. n PROVE ~(IsConfigure(waits[k]) <=> IsConfigure(wait))
    BY <1>7 DEF Configures, Transacts, n
  <2>3. CASE i = n + 1 /\ j \in 1 .. n
    BY <1>1, <1>7, <2>2, <2>3
  <2>4. CASE j = n + 1 /\ i \in 1 .. n
    BY <1>1, <1>7, <2>2, <2>4
  <2> QED BY <1>3, <2>1, <2>3, <2>4
<1>8. /\ OneOfEach(waits)
      /\ IF IsConfigure(wait) THEN ~Configures(waits) ELSE ~Transacts(waits)
      => OneOfEach(added)
  BY <1>7 DEF OneOfEach
<1> QED BY <1>1, <1>5, <1>6, <1>8 DEF added

LEMMA WaitIsRemoved ==
    ASSUME NEW waits \in Seq(Waits), NEW i \in 1 .. Len(waits), OneOfEach(waits)
    PROVE  LET left == RemoveAt(waits, i)
           IN /\ left \in Seq(Waits) /\ OneOfEach(left)
              /\ Configures(left) <=> Configures(waits) /\ ~IsConfigure(waits[i])
              /\ Transacts(left) <=> Transacts(waits) /\ IsConfigure(waits[i])
<1> DEFINE left == RemoveAt(waits, i)
           At(k) == IF k < i THEN k ELSE k + 1
<1>1. /\ left \in Seq(Waits) /\ Len(left) = Len(waits) - 1 /\ Len(waits) \in Nat
      /\ \A k \in 1 .. Len(left) : left[k] = waits[At(k)]
  <2>1. Len(waits) \in Nat
    OBVIOUS
  <2> QED BY <2>1, RemoveAtRemoves
<1> HIDE DEF left
<1>2. \A k \in 1 .. Len(left) : At(k) \in 1 .. Len(waits) /\ At(k) # i
  BY <1>1
<1>3. \A j \in 1 .. Len(waits) : j # i => \E k \in 1 .. Len(left) : At(k) = j
  <2> SUFFICES ASSUME NEW j \in 1 .. Len(waits), j # i
               PROVE  \E k \in 1 .. Len(left) : At(k) = j
    OBVIOUS
  <2>1. CASE j < i
    <3>1. j \in 1 .. Len(left) /\ At(j) = j
      BY <1>1, <2>1
    <3> QED BY <3>1
  <2>2. CASE j > i
    <3>1. j - 1 \in 1 .. Len(left) /\ At(j - 1) = j
      BY <1>1, <2>2
    <3> QED BY <3>1
  <2> QED BY <2>1, <2>2
<1>4. \A k, m \in 1 .. Len(left) : At(k) = At(m) => k = m
  BY <1>1
<1>5. \A j \in 1 .. Len(waits) : (IsConfigure(waits[i]) <=> IsConfigure(waits[j])) => i = j
  BY DEF OneOfEach
<1> HIDE DEF At
<1>6. OneOfEach(left)
  BY <1>1, <1>2, <1>4 DEF OneOfEach
<1>7. Configures(left) <=> Configures(waits) /\ ~IsConfigure(waits[i])
  BY <1>1, <1>2, <1>3, <1>5 DEF Configures
<1>8. Transacts(left) <=> Transacts(waits) /\ IsConfigure(waits[i])
  BY <1>1, <1>2, <1>3, <1>5 DEF Transacts
<1> QED BY <1>1, <1>6, <1>7, <1>8 DEF left
-----------------------------------------------------------------------------
(***************************************************************************)
(* From the supply to the first drawing, and what the LCD waits for.       *)
(***************************************************************************)
IsConfiguring == Configures(lcdState.waits)
IsTransacting == Transacts(lcdState.waits)

RailIsUp == IsPending("VOLTAGE_REGULATOR_ENABLED")
LcdIsUp == IsPending("LCD_ENABLED")
LcdIsDown == IsPending("LCD_DISABLED")

\* The screen is on and the user interface has not been told that the LCD is up.
IsStarting == uiState.isScreenOn /\ (~uiState.isLcdEnabled \/ LcdIsDown)

\* No event of the one type was published after one of the other.
NoneAfter(events, a, b) ==
    \A i, j \in 1 .. Len(events) : events[i] = a /\ events[j] = b => j <= i

QueueInv ==
    /\ IsPending("SYSTEM_INITIALISED") => uiState.isInputIgnored /\ lcdState.waits = <<>>
    /\ waking => ~IsPending("DOOR_CALIBRATED")
    /\ NoneAfter(queue, "DOOR_CALIBRATED", "LCD_DISABLED")
    /\ NoneAfter(queue, "LCD_ENABLED", "LCD_ENABLED")

\* While the supply comes up it is wanted, and there is one wait for it.
RailInv ==
    /\ regulatedWaits \in Nat /\ mcuWaits \in Nat /\ fullyEnabled \in BOOLEAN
    /\ "regulated" \in due => regulatedWaits # 0
    /\ "mcu" \in due => mcuWaits # 0
    /\ fullyEnabled => vregEnableCount # 0
    /\ regulatedWaits + mcuWaits = Count(vregEnableCount # 0 /\ ~fullyEnabled)

\* Something is on its way that will tell: the supply, its event, the configuration or
\* the LCD's event; and of the LCD nothing is once that has told.
ConfigureInv ==
    /\ RailIsUp => fullyEnabled
    /\ IsConfiguring => uiState.isScreenOn /\ fullyEnabled
    /\ LcdIsUp => /\ uiState.isScreenOn /\ fullyEnabled /\ ~IsConfiguring
                  /\ ~RailIsUp /\ ~LcdIsDown /\ ~uiState.isLcdEnabled
    /\ IsStarting => ~fullyEnabled \/ RailIsUp \/ IsConfiguring \/ LcdIsUp
    /\ uiState.isScreenOn /\ ~IsStarting => fullyEnabled /\ ~RailIsUp /\ ~IsConfiguring

WakingInv ==
    /\ ~uiState.isScreenOn /\ uiState.isLcdEnabled => LcdIsDown
    /\ waking /\ LcdIsDown => ~uiState.isScreenOn
    /\ waking /\ RailIsUp => ~IsConfiguring

\* All of that takes less than the first second, in which nothing is counted.
StartInv ==
    IsStarting => /\ lasting /\ "screen" \notin due
                  /\ uiState.isScreenTimeoutDisabled \/ screenTimeoutCount = 0

\* Nobody can change what is to be seen.
IsQuiet ==
    /\ uiState.isScreenOn /\ ~uiState.isScreenTimeoutDisabled
    /\ uiState.pressed = {} \/ uiState.isInputIgnored

\* Then the drawing that goes on is over within the second that is being counted: it is
\* the first of them, or the drawing is the last.
DrawingInv ==
    /\ uiState.isButtonPressPreventedFromTurningOnScreen => uiState.isInputIgnored
    /\ "screen" \in due => ~lasting
    /\ IsQuiet /\ lcdState.waits # <<>> =>
           /\ "screen" \in due => screenTimeoutCount = 0
           /\ \/ screenTimeoutCount = 0 /\ lasting
              \/ ~uiState.isScreenBlitDirty /\ (screenTimeoutCount = 0 \/ lasting)

\* A transaction that was cut short is the only one until it is over.
TransactionInv ==
    /\ OneOfEach(lcdState.waits)
    /\ ~lcdState.isBusy => ~IsTransacting
    /\ LcdIsUp => ~IsTransacting
    /\ "splash" \in due => isSplashScheduled
    /\ isSplashScheduled => /\ uiState.isInputIgnored
                            /\ ~uiState.isButtonPressPreventedFromTurningOnScreen
    /\ isSplashScheduled /\ (IsStarting \/ ~uiState.isScreenOn) => ~IsTransacting

LitInv ==
    /\ IInv /\ QueueInv /\ RailInv /\ ConfigureInv /\ WakingInv /\ StartInv /\ DrawingInv
    /\ TransactionInv
    /\ lasting \in BOOLEAN

LEMMA LitTypes ==
    ASSUME LitInv
    PROVE  /\ IInv /\ Both \in States /\ uiState \in UiStates /\ lcdState \in LcdStates
           /\ lcdState.waits \in Seq(Waits)
           /\ lcdState.waits = <<>> <=> ~IsConfiguring /\ ~IsTransacting
           /\ queue \in Seq(Types) /\ vregEnableCount \in Nat
           /\ lcdState.enableCount = Count(uiState.isScreenOn)
           /\ vregEnableCount = Count(uiState.isScreenOn) + Count(isMotorEnabled)
<1>1. IInv
  BY DEF LitInv
<1>2. lcdState.waits \in Seq(Waits)
  BY <1>1, StillOf DEF LcdStates
<1> QED BY <1>1, <1>2, StillOf, NoWaits
       DEF IInv, TypesInv, SupplyInv, IsConfiguring, IsTransacting

LEMMA InitIsLit == Init => LitInv
<1> SUFFICES ASSUME Init PROVE LitInv
  OBVIOUS
<1>1. IInv
  BY InitHolds
<1>2. queue = <<"SYSTEM_INITIALISED">> /\ "SYSTEM_INITIALISED" \in Types
  BY DEF Init, Types
<1>3. \A type : IsPending(type) => type = "SYSTEM_INITIALISED"
  BY <1>2, HasFew DEF IsPending
<1>4. ~RailIsUp /\ ~LcdIsUp /\ ~LcdIsDown /\ ~IsPending("DOOR_CALIBRATED")
  BY <1>3 DEF RailIsUp, LcdIsUp, LcdIsDown
<1>5. lcdState.waits = <<>> /\ uiState.isInputIgnored /\ ~uiState.isScreenOn
      /\ ~uiState.isLcdEnabled /\ ~uiState.isButtonPressPreventedFromTurningOnScreen
  BY DEF Init, lcdInitialised
<1>6. ~IsConfiguring /\ ~IsTransacting
  BY <1>5 DEF IsConfiguring, IsTransacting, Configures, Transacts
<1>7. QueueInv
  <2>1. Len(queue) = 1 /\ queue[1] = "SYSTEM_INITIALISED"
    BY <1>2
  <2> QED BY <1>4, <1>5, <2>1 DEF QueueInv, NoneAfter
<1>8. RailInv
  <2>1. /\ regulatedWaits = 0 /\ mcuWaits = 0 /\ fullyEnabled = FALSE /\ vregEnableCount = 0
        /\ due = {}
    BY DEF Init, voltageRegulatorInitialise
  <2>2. fullyEnabled \in BOOLEAN /\ ~fullyEnabled
    BY <2>1
  <2> QED BY <2>1, <2>2 DEF RailInv, Count
<1>9. ConfigureInv /\ WakingInv /\ StartInv
  BY <1>4, <1>5, <1>6 DEF ConfigureInv, WakingInv, StartInv, IsStarting
<1>10. DrawingInv
  BY <1>5 DEF Init, DrawingInv
<1>11. TransactionInv
  BY <1>5, <1>6 DEF Init, TransactionInv, OneOfEach
<1>12. lasting \in BOOLEAN
  BY DEF Init
<1> QED BY <1>1, <1>7, <1>8, <1>9, <1>10, <1>11, <1>12 DEF LitInv
-----------------------------------------------------------------------------
(***************************************************************************)
(* The queue.                                                              *)
(***************************************************************************)
SameRails ==
    (RailIsUp' <=> RailIsUp) /\ (LcdIsUp' <=> LcdIsUp) /\ (LcdIsDown' <=> LcdIsDown)

Rails == {"VOLTAGE_REGULATOR_ENABLED", "LCD_ENABLED", "LCD_DISABLED"}

LEMMA RailsAre == Rails \subseteq Types /\ \A type \in Rails : ~Has(<<>>, type)
BY HasFew DEF Rails, Types, OtherTypes

LEMMA RailsKept ==
    ASSUME IInv, NEW events \in Seq(Types), Publish(events),
           \A type \in Rails : ~Has(events, type),
           waking \/ (queue # <<>> /\ Head(queue) \notin Rails)
    PROVE  SameRails
<1>1. \A type \in Rails : IsPending(type)' <=> IsPending(type)
  BY PublishKeeps DEF IInv
<1> QED BY <1>1 DEF Rails, SameRails, RailIsUp, LcdIsUp, LcdIsDown

LEMMA NothingPublished ==
    ASSUME IInv, Publish(<<>>), waking \/ (queue # <<>> /\ Head(queue) \notin Rails)
    PROVE  SameRails
BY RailsKept, RailsAre, HasFew

LEMMA NoneAfterTail ==
    ASSUME NEW s \in Seq(Types), s # <<>>, NEW a, NEW b, NoneAfter(s, a, b)
    PROVE  /\ NoneAfter(Tail(s), a, b)
           /\ Head(s) = a => ~Has(Tail(s), b)
<1>1. /\ Tail(s) \in Seq(Types) /\ Len(s) \in Nat /\ Len(s) > 0 /\ Len(Tail(s)) = Len(s) - 1
      /\ \A i \in 1 .. Len(s) - 1 : Tail(s)[i] = s[i + 1]
      /\ Head(s) = s[1]
  OBVIOUS
<1>2. ASSUME NEW i \in 1 .. Len(Tail(s)), NEW j \in 1 .. Len(Tail(s)),
             Tail(s)[i] = a, Tail(s)[j] = b
      PROVE  j <= i
  <2>1. i + 1 \in 1 .. Len(s) /\ j + 1 \in 1 .. Len(s) /\ s[i + 1] = a /\ s[j + 1] = b
    BY <1>1, <1>2
  <2>2. j + 1 <= i + 1
    BY <2>1 DEF NoneAfter
  <2> QED BY <1>1, <2>2
<1>3. ASSUME Head(s) = a, NEW j \in 1 .. Len(Tail(s)), Tail(s)[j] = b PROVE FALSE
  <2>1. 1 \in 1 .. Len(s) /\ j + 1 \in 1 .. Len(s) /\ s[1] = a /\ s[j + 1] = b
    BY <1>1, <1>3
  <2>2. j + 1 <= 1
    BY <2>1 DEF NoneAfter
  <2> QED BY <1>1, <2>2
<1> QED BY <1>2, <1>3 DEF NoneAfter, Has

LEMMA NoneAfterMore ==
    ASSUME NEW s \in Seq(Types), NEW t \in Seq(Types), NEW a, NEW b,
           NoneAfter(s, a, b), NoneAfter(t, a, b), ~Has(s, a) \/ ~Has(t, b)
    PROVE  NoneAfter(s \o t, a, b)
<1>1. s \o t \in Seq(Types) /\ Len(s) \in Nat /\ Len(t) \in Nat
      /\ Len(s \o t) = Len(s) + Len(t)
  OBVIOUS
<1>2. \A i \in 1 .. Len(s) + Len(t) :
         IF i <= Len(s) THEN i \in 1 .. Len(s) /\ (s \o t)[i] = s[i]
         ELSE i - Len(s) \in 1 .. Len(t) /\ (s \o t)[i] = t[i - Len(s)]
  BY <1>1
<1>3. SUFFICES ASSUME NEW i \in 1 .. Len(s) + Len(t), NEW j \in 1 .. Len(s) + Len(t),
                      (s \o t)[i] = a, (s \o t)[j] = b
               PROVE  j <= i
  BY <1>1 DEF NoneAfter
<1>4. CASE i <= Len(s) /\ j <= Len(s)
  BY <1>2, <1>3, <1>4 DEF NoneAfter
<1>5. CASE ~(i <= Len(s)) /\ ~(j <= Len(s))
  <2>1. j - Len(s) <= i - Len(s)
    BY <1>2, <1>3, <1>5 DEF NoneAfter
  <2> QED BY <1>1, <2>1
<1>6. CASE i <= Len(s) /\ ~(j <= Len(s))
  <2>1. Has(s, a) /\ Has(t, b)
    BY <1>2, <1>3, <1>6 DEF Has
  <2> QED BY <2>1
<1>7. CASE ~(i <= Len(s)) /\ j <= Len(s)
  BY <1>1, <1>7
<1> QED BY <1>4, <1>5, <1>6, <1>7

LEMMA NoneAfterFew ==
    ASSUME NEW s \in Seq(Types), NEW a, NEW b, ~Has(s, a) \/ ~Has(s, b)
    PROVE  NoneAfter(s, a, b)
BY DEF NoneAfter, Has

\* The first event is long past, a calibration ends after the wake-up, and what is
\* published keeps to the order.
LEMMA QueueKept ==
    ASSUME LitInv, waking \/ queue # <<>>, waking' = waking,
           NEW events \in Seq(Types), Publish(events),
           ~Has(events, "SYSTEM_INITIALISED"),
           waking => ~Has(events, "DOOR_CALIBRATED"),
           ~waking => ~Has(events, "LCD_DISABLED"),
           NoneAfter(events, "LCD_ENABLED", "LCD_ENABLED"),
           LcdIsUp => ~Has(events, "LCD_ENABLED")
    PROVE  QueueInv'
<1>1. TypesInv /\ FirstInv /\ queue \in Seq(Types) /\ QueueInv
  BY DEF LitInv, IInv, TypesInv
<1>2. ~IsPending("SYSTEM_INITIALISED")'
  BY <1>1, PublishKeeps
<1>3. waking' => ~IsPending("DOOR_CALIBRATED")'
  BY <1>1, PublishKeeps DEF QueueInv
<1>4. /\ Rest \in Seq(Types) /\ queue' = Rest \o events
      /\ \A type : Has(Rest, type) => Has(queue, type)
  BY <1>1, HasTail DEF Rest, Publish
<1>5. ASSUME NEW a, NEW b, NoneAfter(queue, a, b) PROVE NoneAfter(Rest, a, b)
  BY <1>1, <1>5, NoneAfterTail DEF Rest
<1>6. NoneAfter(queue', "DOOR_CALIBRATED", "LCD_DISABLED")
  <2>1. NoneAfter(events, "DOOR_CALIBRATED", "LCD_DISABLED")
    BY NoneAfterFew
  <2>2. ~Has(Rest, "DOOR_CALIBRATED") \/ ~Has(events, "LCD_DISABLED")
    BY <1>1, <1>4 DEF QueueInv, IsPending
  <2> QED BY <1>1, <1>4, <1>5, <2>1, <2>2, NoneAfterMore DEF QueueInv
<1>7. NoneAfter(queue', "LCD_ENABLED", "LCD_ENABLED")
  <2>1. ~Has(Rest, "LCD_ENABLED") \/ ~Has(events, "LCD_ENABLED")
    BY <1>4 DEF LcdIsUp, IsPending
  <2> QED BY <1>1, <1>4, <1>5, <2>1, NoneAfterMore DEF QueueInv
<1> QED BY <1>2, <1>3, <1>6, <1>7 DEF QueueInv

LEMMA QueueKeptByNothing ==
    ASSUME LitInv, waking \/ queue # <<>>, waking' = waking, Publish(<<>>)
    PROVE  QueueInv'
BY QueueKept, HasFew, NoneAfterFew

LEMMA QueueKeptByOne ==
    ASSUME LitInv, waking \/ queue # <<>>, waking' = waking,
           NEW type \in Types \ {"SYSTEM_INITIALISED", "LCD_DISABLED", "DOOR_CALIBRATED"},
           Publish(<<type>>), LcdIsUp => type # "LCD_ENABLED"
    PROVE  QueueInv'
<1>1. <<type>> \in Seq(Types) /\ \A other : Has(<<type>>, other) <=> other = type
  BY HasFew
<1>2. NoneAfter(<<type>>, "LCD_ENABLED", "LCD_ENABLED")
  BY DEF NoneAfter
<1> QED BY <1>1, <1>2, QueueKept
-----------------------------------------------------------------------------
(***************************************************************************)
(* The supply.                                                             *)
(***************************************************************************)
LEMMA DispatchingIsAlone ==
    ASSUME IInv, NEW type, Dispatching(type)
    PROVE  due = {} /\ ~waking /\ queue # <<>> /\ Head(queue) = type
BY DEF IInv, ToldInv, Dispatching

\* Of what a step does to the supply's own variables.
LEMMA RailStill ==
    ASSUME RailInv, UNCHANGED <<regulatedWaits, mcuWaits, fullyEnabled, vregEnableCount>>,
           due' \subseteq due
    PROVE  RailInv'
<1>1. Count(vregEnableCount # 0 /\ ~fullyEnabled)' = Count(vregEnableCount # 0 /\ ~fullyEnabled)
  BY DEF Count
<1> QED BY <1>1 DEF RailInv

LEMMA RailEnabled ==
    ASSUME RailInv, vregEnableCount \in Nat, voltageRegulatorEnable, due' \subseteq due
    PROVE  RailInv' /\ fullyEnabled' = fullyEnabled
<1>1. /\ vregEnableCount' = vregEnableCount + 1 /\ mcuWaits' = mcuWaits
      /\ fullyEnabled' = fullyEnabled
      /\ regulatedWaits' = regulatedWaits + (IF vregEnableCount = 0 THEN 1 ELSE 0)
  BY DEF voltageRegulatorEnable
<1>2. CASE vregEnableCount = 0
  <2>1. regulatedWaits + mcuWaits = 0 /\ ~fullyEnabled
    BY <1>2 DEF RailInv, Count
  <2>2. regulatedWaits' = 1 /\ mcuWaits' = 0 /\ vregEnableCount' = 1
    BY <1>1, <1>2, <2>1 DEF RailInv
  <2>3. "mcu" \notin due
    BY <2>1 DEF RailInv
  <2> QED BY <1>1, <2>1, <2>2, <2>3 DEF RailInv, Count
<1>3. CASE vregEnableCount # 0
  <2>1. regulatedWaits' = regulatedWaits /\ vregEnableCount' # 0
    BY <1>1, <1>3 DEF RailInv
  <2> QED BY <1>1, <1>3, <2>1 DEF RailInv, Count
<1> QED BY <1>2, <1>3

LEMMA RailDisabled ==
    ASSUME RailInv, vregEnableCount \in Nat \ {0}, fullyEnabled, voltageRegulatorDisable,
           due' \subseteq due
    PROVE  /\ RailInv'
           /\ vregEnableCount' # 0 => fullyEnabled'
           /\ fullyEnabled' \in BOOLEAN
<1>1. regulatedWaits = 0 /\ mcuWaits = 0 /\ "mcu" \notin due /\ "regulated" \notin due
  BY DEF RailInv, Count
<1>2. regulatedWaits' = 0 /\ mcuWaits' = 0
  BY <1>1 DEF voltageRegulatorDisable
<1>3. CASE LastClient
  <2>0. vregEnableCount = 1
    BY <1>3 DEF LastClient
  <2>1. vregEnableCount' = 0
    BY <1>3 DEF voltageRegulatorDisable
  <2>2. fullyEnabled' = FALSE
    BY <1>3, <2>0 DEF voltageRegulatorDisable
  <2>3. fullyEnabled' \in BOOLEAN /\ ~fullyEnabled'
    BY <2>2
  <2> QED BY <1>1, <1>2, <2>1, <2>3 DEF RailInv, Count
<1>4. CASE ~LastClient
  <2>0. vregEnableCount > 1
    BY <1>4 DEF LastClient
  <2>1. vregEnableCount' = vregEnableCount - 1
    BY <1>4 DEF voltageRegulatorDisable
  <2>2. fullyEnabled' = fullyEnabled
    BY <1>4 DEF voltageRegulatorDisable
  <2> QED BY <1>1, <1>2, <2>0, <2>1, <2>2 DEF RailInv, Count
<1> QED BY <1>3, <1>4

LEMMA RailRises ==
    ASSUME RailInv, vregEnableCount \in Nat, RegulatedStabilises
    PROVE  RailInv' /\ fullyEnabled' = fullyEnabled
<1>1. /\ regulatedWaits # 0 /\ due' = due \ {"regulated"}
      /\ regulatedWaits' = regulatedWaits - 1
      /\ vregEnableCount # 0 => mcuWaits' = mcuWaits + 1
      /\ vregEnableCount' = vregEnableCount /\ fullyEnabled' = fullyEnabled
  BY DEF RegulatedStabilises, onRegulatedVoltageRailStabilised, Calling, RailInv
<1>2. vregEnableCount # 0 /\ ~fullyEnabled
  BY <1>1 DEF RailInv, Count
<1>3. regulatedWaits = 1 /\ mcuWaits = 0
  BY <1>1, <1>2 DEF RailInv, Count
<1> QED BY <1>1, <1>2, <1>3 DEF RailInv, Count

LEMMA RailIsThere ==
    ASSUME RailInv, vregEnableCount \in Nat, McuStabilises
    PROVE  RailInv' /\ ~fullyEnabled /\ fullyEnabled' /\ vregEnableCount # 0
<1>1. /\ mcuWaits # 0 /\ due' = due \ {"mcu"}
      /\ mcuWaits' = mcuWaits - 1 /\ regulatedWaits' = regulatedWaits
      /\ vregEnableCount # 0 => fullyEnabled' = TRUE
      /\ vregEnableCount' = vregEnableCount
  BY DEF McuStabilises, onMcuVoltageRailStabilised, Calling, RailInv
<1>2. vregEnableCount # 0 /\ ~fullyEnabled
  BY <1>1 DEF RailInv, Count
<1>3. mcuWaits = 1 /\ regulatedWaits = 0
  BY <1>1, <1>2 DEF RailInv, Count
<1>4. "regulated" \notin due
  BY <1>3 DEF RailInv
<1> QED BY <1>1, <1>2, <1>3, <1>4 DEF RailInv, Count

\* The supply that is on its way, and the screen with it.
LEMMA ConfigureKept ==
    ASSUME LitInv, SameRails,
           uiState'.isScreenOn = uiState.isScreenOn,
           uiState'.isLcdEnabled = uiState.isLcdEnabled,
           IsConfiguring' <=> IsConfiguring,
           \/ fullyEnabled' = fullyEnabled
           \/ ~uiState.isScreenOn /\ ~RailIsUp,
           waking' => waking
    PROVE  ConfigureInv' /\ WakingInv' /\ (IsStarting' <=> IsStarting)
<1>1. IsStarting' <=> IsStarting
  BY DEF IsStarting, SameRails
<1>2. (RailIsUp' <=> RailIsUp) /\ (LcdIsUp' <=> LcdIsUp) /\ (LcdIsDown' <=> LcdIsDown)
  BY DEF SameRails
<1>3. ConfigureInv
  BY DEF LitInv
<1>4. ConfigureInv'
  <2>1. CASE fullyEnabled' = fullyEnabled
    BY <1>1, <1>2, <1>3, <2>1 DEF ConfigureInv
  <2>2. CASE ~uiState.isScreenOn /\ ~RailIsUp
    <3>1. ~IsStarting /\ ~LcdIsUp /\ ~IsConfiguring
      BY <1>3, <2>2 DEF ConfigureInv, IsStarting
    <3>2. ~IsStarting' /\ ~LcdIsUp' /\ ~IsConfiguring' /\ ~uiState'.isScreenOn /\ ~RailIsUp'
      BY <1>1, <1>2, <2>2, <3>1
    <3> QED BY <3>2 DEF ConfigureInv
  <2> QED BY <2>1, <2>2
<1>5. WakingInv'
  BY <1>2 DEF LitInv, WakingInv
<1> QED BY <1>1, <1>4, <1>5

\* A step that leaves alone what is shown and what is counted.
LEMMA StillLit ==
    ASSUME LitInv, IInv', QueueInv', RailInv', SameRails, due' \subseteq due,
           UNCHANGED <<uiState, lcdState, lasting, screenTimeoutCount, isSplashScheduled>>,
           \/ fullyEnabled' = fullyEnabled
           \/ ~uiState.isScreenOn /\ ~RailIsUp,
           waking' => waking
    PROVE  LitInv'
<1>1. (IsConfiguring' <=> IsConfiguring) /\ (IsTransacting' <=> IsTransacting)
  BY DEF IsConfiguring, IsTransacting
<1>2. ConfigureInv' /\ WakingInv' /\ (IsStarting' <=> IsStarting)
  BY <1>1, ConfigureKept
<1>3. StartInv'
  BY <1>2 DEF LitInv, StartInv
<1>4. DrawingInv'
  BY DEF LitInv, DrawingInv, IsQuiet
<1>5. TransactionInv'
  BY <1>1, <1>2 DEF LitInv, TransactionInv, SameRails
<1>6. lasting' \in BOOLEAN
  BY DEF LitInv
<1> QED BY <1>2, <1>3, <1>4, <1>5, <1>6 DEF LitInv
-----------------------------------------------------------------------------
(***************************************************************************)
(* Steps that change nothing of what is shown.                             *)
(***************************************************************************)
LEMMA UnchangedLit ==
    ASSUME LitInv, IInv',
           UNCHANGED <<queue, supplyVars, screenVars>>, due' = due, waking' => waking
    PROVE  LitInv'
<1>1. UNCHANGED <<regulatedWaits, mcuWaits, fullyEnabled, vregEnableCount, uiState, lcdState,
                  lasting, screenTimeoutCount, isSplashScheduled>>
  BY DEF supplyVars, vregVars, screenVars, timeoutVars
<1>2. SameRails /\ QueueInv'
  BY <1>1 DEF SameRails, RailIsUp, LcdIsUp, LcdIsDown, IsPending, LitInv, QueueInv
<1>3. RailInv'
  BY <1>1, RailStill DEF LitInv
<1> QED BY <1>1, <1>2, <1>3, StillLit

LEMMA WokenEndsLit ==
    ASSUME LitInv, WokenEnds
    PROVE  LitInv'
<1>1. IInv'
  BY WokenEndsKeeps DEF LitInv
<1>2. UNCHANGED <<queue, supplyVars, screenVars>> /\ due' = due /\ ~waking'
  BY DEF WokenEnds
<1> QED BY <1>1, <1>2, UnchangedLit

LEMMA FingersLit ==
    ASSUME LitInv, Fingers
    PROVE  LitInv'
<1>1. IInv'
  BY FingersKeep DEF LitInv
<1>2. UNCHANGED <<queue, supplyVars, screenVars>> /\ due' = due /\ waking' = waking
  BY DEF Fingers, loopVars
<1> QED BY <1>1, <1>2, UnchangedLit

LEMMA RegulatedLit ==
    ASSUME LitInv, RegulatedStabilises
    PROVE  LitInv'
<1>1. IInv /\ IInv'
  BY SupplyCallbacksKeep DEF LitInv
<1>2. /\ waking /\ waking' = waking /\ due' \subseteq due /\ Publish(<<>>)
      /\ UNCHANGED <<uiState, lcdState, lasting, screenTimeoutCount, isSplashScheduled>>
  BY DEF RegulatedStabilises, Calling, screenVars, timeoutVars
<1>3. RailInv' /\ fullyEnabled' = fullyEnabled
  BY LitTypes, RailRises DEF LitInv
<1>4. SameRails /\ QueueInv'
  BY <1>1, <1>2, NothingPublished, QueueKeptByNothing
<1> QED BY <1>1, <1>2, <1>3, <1>4, StillLit

LEMMA ButtonsStopBouncingLit ==
    ASSUME LitInv, ButtonsStopBouncing
    PROVE  LitInv'
<1> DEFINE events == onButtonsStoppedBouncingEvents
<1>1. IInv /\ IInv' /\ PORTA \in Buttons /\ buttonStateSampled \in Buttons
  BY ButtonsStopBouncingKeeps DEF LitInv, IInv, TypesInv
<1>2. /\ waking /\ waking' = waking /\ due' \subseteq due /\ Publish(events)
      /\ UNCHANGED <<regulatedWaits, mcuWaits, fullyEnabled, vregEnableCount, uiState,
                     lcdState, lasting, screenTimeoutCount, isSplashScheduled>>
  BY DEF ButtonsStopBouncing, Calling, screenVars, timeoutVars, supplyVars, vregVars
<1>3. events \in Seq(Types) /\ \A type \in Types \ ButtonTypes : ~Has(events, type)
  BY <1>1, ButtonsAreFound
<1> HIDE DEF events
<1>4. \A type \in Rails \cup {"SYSTEM_INITIALISED", "DOOR_CALIBRATED"} : ~Has(events, type)
  <2>1. Rails \cup {"SYSTEM_INITIALISED", "DOOR_CALIBRATED"} \subseteq Types \ ButtonTypes
    BY DEF Rails, Types, OtherTypes, ButtonTypes
  <2> QED BY <1>3, <2>1
<1>5. SameRails
  BY <1>1, <1>2, <1>3, <1>4, RailsKept
<1>6. ~Has(events, "LCD_ENABLED")
  BY <1>4 DEF Rails
<1>7. QueueInv'
  BY <1>2, <1>3, <1>4, <1>6, QueueKept, NoneAfterFew
<1>8. RailInv'
  BY <1>2, RailStill DEF LitInv
<1> QED BY <1>1, <1>2, <1>5, <1>7, <1>8, StillLit

LEMMA UnheardLit ==
    ASSUME LitInv, Unheard
    PROVE  LitInv'
<1>1. IInv /\ IInv'
  BY LcdEventsKeep DEF LitInv
<1>2. /\ waking' = waking /\ due' = due /\ Publish(<<>>)
      /\ UNCHANGED <<regulatedWaits, mcuWaits, fullyEnabled, vregEnableCount, uiState,
                     lcdState, lasting, screenTimeoutCount, isSplashScheduled>>
  BY DEF Unheard, screenVars, timeoutVars, supplyVars, vregVars
<1>3. queue # <<>> /\ Head(queue) \notin Rails
  BY DEF Unheard, Dispatching, Rails
<1>4. SameRails /\ QueueInv'
  BY <1>1, <1>2, <1>3, NothingPublished, QueueKeptByNothing
<1>5. RailInv'
  BY <1>2, RailStill DEF LitInv
<1> QED BY <1>1, <1>2, <1>4, <1>5, StillLit

LEMMA MotorIsEnabledLit ==
    ASSUME LitInv, MotorIsEnabled
    PROVE  LitInv'
<1>1. IInv /\ IInv'
  BY MotorKeeps DEF LitInv
<1>2. /\ waking' = waking /\ due' = due /\ Publish(<<>>) /\ voltageRegulatorEnable
      /\ UNCHANGED <<uiState, lcdState, lasting, screenTimeoutCount, isSplashScheduled>>
  BY DEF MotorIsEnabled, screenVars, timeoutVars
<1>3. queue # <<>> /\ Head(queue) \notin Rails
  BY DEF MotorIsEnabled, Dispatching, Rails
<1>4. SameRails /\ QueueInv'
  BY <1>1, <1>2, <1>3, NothingPublished, QueueKeptByNothing
<1>5. RailInv' /\ fullyEnabled' = fullyEnabled
  BY <1>2, LitTypes, RailEnabled DEF LitInv
<1> QED BY <1>1, <1>2, <1>4, <1>5, StillLit

LEMMA DisableEventsAre ==
    LET events == voltageRegulatorDisableEvents
    IN /\ events \in Seq(Types)
       /\ \A type : Has(events, type) => type = "VOLTAGE_REGULATOR_DISABLED"
<1> DEFINE Only(s) == /\ s \in Seq(Types)
                      /\ \A type : Has(s, type) => type = "VOLTAGE_REGULATOR_DISABLED"
           events == voltageRegulatorDisableEvents
<1>1. "VOLTAGE_REGULATOR_DISABLED" \in Types
  BY DEF Types, OtherTypes
<1>2. Only(<<>>) /\ Only(<<"VOLTAGE_REGULATOR_DISABLED">>)
  BY <1>1, HasFew
<1>3. events = <<>> \/ events = <<"VOLTAGE_REGULATOR_DISABLED">>
  BY DEF voltageRegulatorDisableEvents
<1> HIDE DEF events
<1>4. Only(events)
  BY <1>2, <1>3
<1> QED BY <1>4 DEF events

LEMMA MotorIsDisabledLit ==
    ASSUME LitInv, MotorIsDisabled
    PROVE  LitInv'
<1>1. IInv /\ IInv'
  BY MotorKeeps DEF LitInv
<1>2. /\ waking' = waking /\ due' = due /\ voltageRegulatorDisable
      /\ fullyEnabled /\ isMotorEnabled /\ ~RailIsUp /\ ~waking
      /\ UNCHANGED <<uiState, lcdState, lasting, screenTimeoutCount, isSplashScheduled>>
      /\ queue # <<>> /\ Head(queue) = "TIME_CHANGED"
  BY DEF MotorIsDisabled, screenVars, timeoutVars, RailIsUp, IsPending, Has, Dispatching
<1>3. PICK events \in Seq(Types) :
          /\ Publish(events)
          /\ \A type : Has(events, type) =>
                 type \in {"DOOR_CALIBRATED", "VOLTAGE_REGULATOR_DISABLED"}
  <2> DEFINE others == voltageRegulatorDisableEvents
             Only(s) == s \in Seq(Types)
                      /\ \A type : Has(s, type) =>
                             type \in {"DOOR_CALIBRATED", "VOLTAGE_REGULATOR_DISABLED"}
  <2>1. {"DOOR_CALIBRATED", "VOLTAGE_REGULATOR_DISABLED"} \subseteq Types
    BY DEF Types, OtherTypes
  <2>2. Only(<<>>) /\ Only(<<"DOOR_CALIBRATED">>)
    BY <2>1, HasFew
  <2>3. Only(others)
    BY DisableEventsAre
  <2> HIDE DEF others
  <2>4. PICK calibrated \in {<<>>, <<"DOOR_CALIBRATED">>} : Publish(calibrated \o others)
    BY DEF MotorIsDisabled, others
  <2>5. Only(calibrated)
    BY <2>2
  <2>6. Only(calibrated \o others)
    BY <2>3, <2>5, HasConcatenation
  <2> QED BY <2>4, <2>6
<1>4. /\ \A type \in Rails : ~Has(events, type)
      /\ ~Has(events, "SYSTEM_INITIALISED") /\ ~Has(events, "LCD_ENABLED")
      /\ ~Has(events, "LCD_DISABLED") /\ Head(queue) \notin Rails
  BY <1>2, <1>3 DEF Rails
<1>5. SameRails
  BY <1>1, <1>2, <1>3, <1>4, RailsKept
<1>6. QueueInv'
  BY <1>2, <1>3, <1>4, QueueKept, NoneAfterFew
<1>7. vregEnableCount \in Nat \ {0} /\ (~uiState.isScreenOn => vregEnableCount = 1)
      /\ (uiState.isScreenOn => vregEnableCount = 2)
  BY <1>2, LitTypes DEF Count
<1>8. RailInv'
  BY <1>2, <1>7, RailDisabled DEF LitInv
<1>9. fullyEnabled' = fullyEnabled \/ ~uiState.isScreenOn
  <2>1. CASE uiState.isScreenOn
    <3>1. ~LastClient
      BY <1>7, <2>1 DEF LastClient
    <3> QED BY <1>2, <3>1 DEF voltageRegulatorDisable
  <2> QED BY <2>1
<1> QED BY <1>1, <1>2, <1>5, <1>6, <1>8, <1>9, StillLit
-----------------------------------------------------------------------------
(***************************************************************************)
(* The supply is there; the processor wakes up; a second is counted.       *)
(***************************************************************************)
LEMMA McuLit ==
    ASSUME LitInv, McuStabilises
    PROVE  LitInv'
<1>1. IInv /\ IInv'
  BY SupplyCallbacksKeep DEF LitInv
<1>2. /\ waking /\ waking' = waking /\ due' \subseteq due
      /\ UNCHANGED <<uiState, lcdState, lasting, screenTimeoutCount, isSplashScheduled>>
  BY DEF McuStabilises, Calling, screenVars, timeoutVars
<1>3. RailInv' /\ ~fullyEnabled /\ fullyEnabled' /\ vregEnableCount # 0
  BY LitTypes, RailIsThere DEF LitInv
<1>4. Publish(<<"VOLTAGE_REGULATOR_ENABLED">>)
  BY <1>3 DEF McuStabilises, onMcuVoltageRailStabilisedEvents
<1>5. "VOLTAGE_REGULATOR_ENABLED" \in Types
  BY DEF Types, OtherTypes
<1>6. QueueInv'
  BY <1>2, <1>4, <1>5, QueueKeptByOne
<1>7. RailIsUp' /\ (LcdIsUp' <=> LcdIsUp) /\ (LcdIsDown' <=> LcdIsDown)
  <2>1. \A type : IsPending(type)' <=> IsPending(type) \/ type = "VOLTAGE_REGULATOR_ENABLED"
    <3>1. /\ <<"VOLTAGE_REGULATOR_ENABLED">> \in Seq(Types)
          /\ \A type : Has(<<"VOLTAGE_REGULATOR_ENABLED">>, type)
                          <=> type = "VOLTAGE_REGULATOR_ENABLED"
      BY <1>5, HasFew
    <3> QED BY <1>1, <1>2, <1>4, <3>1, PublishKeeps DEF IInv
  <2> QED BY <2>1 DEF RailIsUp, LcdIsUp, LcdIsDown
<1>8. (IsConfiguring' <=> IsConfiguring) /\ (IsTransacting' <=> IsTransacting)
      /\ (IsStarting' <=> IsStarting)
  BY <1>2, <1>7 DEF IsConfiguring, IsTransacting, IsStarting
<1>9. ConfigureInv
  BY DEF LitInv
<1>10. ~IsConfiguring /\ ~LcdIsUp /\ (uiState.isScreenOn => IsStarting)
  BY <1>3, <1>9 DEF ConfigureInv
<1>11. ConfigureInv' /\ WakingInv'
  BY <1>2, <1>3, <1>7, <1>8, <1>10 DEF LitInv, ConfigureInv, WakingInv
<1>12. StartInv'
  BY <1>2, <1>8 DEF LitInv, StartInv
<1>13. DrawingInv'
  BY <1>2 DEF LitInv, DrawingInv, IsQuiet
<1>14. TransactionInv'
  BY <1>2, <1>7, <1>8 DEF LitInv, TransactionInv
<1>15. lasting' \in BOOLEAN
  BY <1>2 DEF LitInv
<1> QED BY <1>1, <1>3, <1>6, <1>11, <1>12, <1>13, <1>14, <1>15 DEF LitInv

\* Whatever was begun together with the counting is over before a second is.
LEMMA WakeUpLit ==
    ASSUME LitInv, WakeUp
    PROVE  LitInv'
<1>1. IInv /\ IInv'
  BY WakeUpKeeps DEF LitInv
<1>2. /\ queue = <<>> /\ ~waking /\ due' \subseteq Pending
      /\ lasting' = (lasting /\ IsDrawing)
      /\ queue' \in {<<>>, <<"TIME_CHANGED">>}
      /\ UNCHANGED <<regulatedWaits, mcuWaits, fullyEnabled, vregEnableCount, uiState,
                     lcdState, screenTimeoutCount, isSplashScheduled>>
  BY DEF WakeUp, Wake, supplyVars, vregVars
<1>3. /\ \A type : ~Has(queue, type)
      /\ \A type : Has(queue', type) => type = "TIME_CHANGED"
  <2>1. "TIME_CHANGED" \in Types
    BY DEF Types, OtherTypes
  <2> QED BY <1>2, <2>1, HasFew
<1>4. /\ ~RailIsUp /\ ~LcdIsUp /\ ~LcdIsDown /\ ~RailIsUp' /\ ~LcdIsUp' /\ ~LcdIsDown'
      /\ ~IsPending("SYSTEM_INITIALISED")' /\ ~IsPending("DOOR_CALIBRATED")'
  BY <1>3 DEF RailIsUp, LcdIsUp, LcdIsDown, IsPending
<1>5. QueueInv'
  BY <1>3, <1>4 DEF QueueInv, NoneAfter, Has
<1>6. /\ "regulated" \in due' => regulatedWaits # 0
      /\ "mcu" \in due' => mcuWaits # 0
      /\ "screen" \in due' => ~(lasting /\ IsDrawing)
      /\ "splash" \in due' => isSplashScheduled
  BY <1>2 DEF Pending, VregPending
<1>7. RailInv'
  BY <1>2, <1>6 DEF LitInv, RailInv, Count
<1>8. (IsConfiguring' <=> IsConfiguring) /\ (IsTransacting' <=> IsTransacting)
      /\ (IsStarting' <=> IsStarting)
  BY <1>2, <1>4 DEF IsConfiguring, IsTransacting, IsStarting
<1>9. ConfigureInv' /\ WakingInv'
  BY <1>2, <1>4, <1>8 DEF LitInv, ConfigureInv, WakingInv
<1>10. IsStarting => IsDrawing
  <2>1. SUFFICES ASSUME IsStarting PROVE IsDrawing
    OBVIOUS
  <2>2. uiState.isScreenOn /\ (~fullyEnabled \/ IsConfiguring)
    BY <1>4, <2>1 DEF LitInv, ConfigureInv, IsStarting
  <2>3. IsConfiguring => lcdState.waits # <<>>
    BY LitTypes
  <2>4. ~fullyEnabled => regulatedWaits # 0 \/ mcuWaits # 0
    <3>1. vregEnableCount # 0
      BY <2>2, LitTypes DEF Count
    <3> QED BY <3>1 DEF LitInv, RailInv, Count
  <2>5. regulatedWaits # 0 \/ mcuWaits # 0 => VregPending # {}
    BY DEF VregPending
  <2> QED BY <2>2, <2>3, <2>4, <2>5 DEF IsDrawing
<1>11. StartInv'
  BY <1>2, <1>6, <1>8, <1>10 DEF LitInv, StartInv
<1>12. DrawingInv'
  <2>1. lcdState.waits # <<>> => IsDrawing
    BY DEF IsDrawing
  <2>2. (IsQuiet' <=> IsQuiet) /\ lcdState' = lcdState
    BY <1>2 DEF IsQuiet
  <2>3. /\ uiState'.isButtonPressPreventedFromTurningOnScreen => uiState'.isInputIgnored
        /\ "screen" \in due' => ~lasting'
    BY <1>2, <1>6 DEF LitInv, DrawingInv
  <2>4. ASSUME IsQuiet, lcdState.waits # <<>>
        PROVE  /\ "screen" \in due' => screenTimeoutCount = 0
               /\ lasting' <=> lasting
    BY <1>2, <1>6, <2>1, <2>4 DEF LitInv, DrawingInv
  <2>5. ASSUME IsQuiet, lcdState.waits # <<>>
        PROVE  /\ "screen" \in due' => screenTimeoutCount' = 0
               /\ \/ screenTimeoutCount' = 0 /\ lasting'
                  \/ ~uiState'.isScreenBlitDirty /\ (screenTimeoutCount' = 0 \/ lasting')
    BY <1>2, <2>4, <2>5 DEF LitInv, DrawingInv
  <2> QED BY <2>2, <2>3, <2>5 DEF DrawingInv
<1>13. TransactionInv'
  BY <1>2, <1>4, <1>6, <1>8 DEF LitInv, TransactionInv
<1>14. lasting' \in BOOLEAN
  BY <1>2
<1> QED BY <1>1, <1>5, <1>7, <1>9, <1>11, <1>12, <1>13, <1>14 DEF LitInv
-----------------------------------------------------------------------------
(***************************************************************************)
(* The seconds that are counted, and the screen going off.                 *)
(***************************************************************************)
LEMMA CountingLit ==
    ASSUME LitInv, uiOnScreenTimeout, SecondsCounted # ScreenTimeoutSeconds
    PROVE  LitInv'
<1>1. IInv /\ IInv'
  BY ScreenTimeoutKeeps DEF LitInv
<1>2. /\ waking /\ waking' = waking /\ "screen" \in due /\ due' = due \ {"screen"}
      /\ Publish(<<>>) /\ screenTimeoutCount' = SecondsCounted /\ lasting' = TRUE
      /\ UNCHANGED <<regulatedWaits, mcuWaits, fullyEnabled, vregEnableCount, uiState,
                     lcdState, isSplashScheduled>>
  BY DEF uiOnScreenTimeout, Calling, nearSchedulerAddOrUpdateTimeout, supplyVars, vregVars
<1>3. SameRails /\ QueueInv'
  BY <1>1, <1>2, NothingPublished, QueueKeptByNothing
<1>4. RailInv'
  BY <1>2, RailStill DEF LitInv
<1>5. (IsConfiguring' <=> IsConfiguring) /\ (IsTransacting' <=> IsTransacting)
  BY <1>2 DEF IsConfiguring, IsTransacting
<1>6. ConfigureInv' /\ WakingInv' /\ (IsStarting' <=> IsStarting)
  BY <1>2, <1>3, <1>5, ConfigureKept
<1>7. StartInv'
  BY <1>2, <1>6 DEF LitInv, StartInv
<1>8. DrawingInv'
  <2>1. "screen" \notin due' /\ (IsQuiet' <=> IsQuiet) /\ lcdState' = lcdState
    BY <1>2 DEF IsQuiet
  <2>2. uiState'.isButtonPressPreventedFromTurningOnScreen => uiState'.isInputIgnored
    BY <1>2 DEF LitInv, DrawingInv
  <2>3. IsQuiet /\ lcdState.waits # <<>> => ~uiState'.isScreenBlitDirty
    BY <1>2 DEF LitInv, DrawingInv
  <2> QED BY <1>2, <2>1, <2>2, <2>3 DEF DrawingInv
<1>9. TransactionInv'
  BY <1>2, <1>3, <1>5, <1>6 DEF LitInv, TransactionInv, SameRails
<1>10. lasting' \in BOOLEAN
  BY <1>2
<1> QED BY <1>1, <1>3, <1>4, <1>6, <1>7, <1>8, <1>9, <1>10 DEF LitInv

\* The seconds are over, and more than one of them has been counted.
LEMMA SecondsAreOver ==
    ASSUME LitInv, uiOnScreenTimeout, SecondsCounted = ScreenTimeoutSeconds
    PROVE  /\ waking /\ "screen" \in due /\ ~IsStarting
           /\ ~uiState.isScreenTimeoutDisabled /\ screenTimeoutCount # 0
           /\ IsQuiet => lcdState.waits = <<>>
<1>1. waking /\ "screen" \in due
  BY DEF uiOnScreenTimeout, Calling
<1>2. ScreenTimeoutSeconds # 1
  BY ScreenAssumption
<1>3. ~uiState.isScreenTimeoutDisabled /\ screenTimeoutCount # 0
  BY <1>2 DEF SecondsCounted
<1>4. ~IsStarting
  BY <1>1 DEF LitInv, StartInv
<1>5. IsQuiet => lcdState.waits = <<>>
  BY <1>1, <1>3 DEF LitInv, DrawingInv
<1> QED BY <1>1, <1>3, <1>4, <1>5

LEMMA OffLit ==
    ASSUME LitInv, uiOnScreenTimeout, SecondsCounted = ScreenTimeoutSeconds
    PROVE  LitInv'
<1>1. IInv /\ IInv' /\ uiState \in UiStates
  BY ScreenTimeoutKeeps, LitTypes DEF LitInv
<1>2. /\ waking /\ waking' = waking /\ "screen" \in due /\ due' = due \ {"screen"}
      /\ uiScreenOff /\ isTimeoutScheduled' = FALSE /\ lasting' = lasting
      /\ isSplashScheduled' = isSplashScheduled
      /\ UNCHANGED isMotorEnabled
  BY DEF uiOnScreenTimeout, Calling
<1>3. /\ ~uiState'.isScreenOn /\ uiState'.isLcdEnabled = uiState.isLcdEnabled
      /\ uiState'.isInputIgnored = uiState.isInputIgnored
      /\ uiState'.isButtonPressPreventedFromTurningOnScreen
           = uiState.isButtonPressPreventedFromTurningOnScreen
      /\ lcdState'.waits = lcdState.waits
  BY <1>1, <1>2, ScreenOffKeeps DEF uiScreenOff, UiStates
<1>4. /\ ~IsStarting /\ ~uiState.isScreenTimeoutDisabled
      /\ IsQuiet => lcdState.waits = <<>>
  BY SecondsAreOver
<1>5. (IsConfiguring' <=> IsConfiguring) /\ (IsTransacting' <=> IsTransacting) /\ ~IsStarting'
      /\ ~IsQuiet'
  BY <1>3 DEF IsConfiguring, IsTransacting, IsStarting, IsQuiet
<1>6. ConfigureInv /\ WakingInv /\ TransactionInv
  BY DEF LitInv
<1>7. CASE ~uiState.isScreenOn
  <2>1. /\ Publish(<<>>) /\ lcdState' = lcdState
        /\ UNCHANGED <<regulatedWaits, mcuWaits, fullyEnabled, vregEnableCount>>
    BY <1>2, <1>7 DEF uiScreenOff, supplyVars, vregVars
  <2>2. SameRails /\ QueueInv'
    BY <1>1, <1>2, <2>1, NothingPublished, QueueKeptByNothing
  <2>3. RailInv'
    BY <1>2, <2>1, RailStill DEF LitInv
  <2>4. ConfigureInv' /\ WakingInv'
    BY <1>2, <1>3, <1>5, <1>6, <1>7, <2>1, <2>2 DEF ConfigureInv, WakingInv, SameRails
  <2>5. TransactionInv'
    BY <1>2, <1>3, <1>5, <1>6, <1>7, <2>1, <2>2 DEF TransactionInv, SameRails
  <2> QED BY <1>1, <1>2, <1>3, <1>5, <2>2, <2>3, <2>4, <2>5
          DEF LitInv, StartInv, DrawingInv
<1>8. CASE uiState.isScreenOn
  <2> DEFINE others == voltageRegulatorDisableEvents
             events == <<"LCD_DISABLED">> \o others
  <2>1. Publish(events) /\ voltageRegulatorDisable /\ lcdState' = lcdDisable(lcdState)
    BY <1>2, <1>8 DEF uiScreenOff
  <2>2. /\ events \in Seq(Types)
        /\ \A type : Has(events, type) <=> type = "LCD_DISABLED" \/ Has(others, type)
        /\ \A type : Has(others, type) => type = "VOLTAGE_REGULATOR_DISABLED"
    <3>1. {"LCD_DISABLED", "VOLTAGE_REGULATOR_DISABLED"} \subseteq Types
      BY DEF Types, OtherTypes
    <3>2. others \in Seq(Types) /\ \A type : Has(others, type) => type = "VOLTAGE_REGULATOR_DISABLED"
      BY DisableEventsAre
    <3>3. <<"LCD_DISABLED">> \in Seq(Types)
          /\ \A type : Has(<<"LCD_DISABLED">>, type) <=> type = "LCD_DISABLED"
      BY <3>1, HasFew
    <3> HIDE DEF others
    <3>4. events \in Seq(Types)
      BY <3>2, <3>3
    <3> QED BY <3>2, <3>3, <3>4, HasConcatenation
  <2> HIDE DEF events, others
  <2>3. /\ ~Has(events, "SYSTEM_INITIALISED") /\ ~Has(events, "DOOR_CALIBRATED")
        /\ ~Has(events, "LCD_ENABLED") /\ ~Has(events, "VOLTAGE_REGULATOR_ENABLED")
        /\ Has(events, "LCD_DISABLED")
    BY <2>2
  <2>4. QueueInv'
    BY <1>2, <2>1, <2>2, <2>3, QueueKept, NoneAfterFew
  <2>5. (RailIsUp' <=> RailIsUp) /\ (LcdIsUp' <=> LcdIsUp) /\ LcdIsDown'
    BY <1>1, <1>2, <2>1, <2>2, <2>3, PublishKeeps
       DEF IInv, RailIsUp, LcdIsUp, LcdIsDown
  <2>6. fullyEnabled /\ ~RailIsUp /\ ~IsConfiguring
    BY <1>4, <1>6, <1>8 DEF ConfigureInv
  <2>7. ~LcdIsUp
    BY <1>4, <1>6, <1>8 DEF ConfigureInv, IsStarting
  <2>8. RailInv'
    <3>1. vregEnableCount \in Nat \ {0}
      BY <1>8, LitTypes DEF Count
    <3>2. due' \subseteq due
      BY <1>2
    <3> QED BY <2>1, <2>6, <3>1, <3>2, RailDisabled DEF LitInv
  <2>9. ConfigureInv' /\ WakingInv'
    BY <1>3, <1>5, <2>5, <2>6, <2>7 DEF ConfigureInv, WakingInv
  <2>10. TransactionInv'
    <3>1. lcdState.enableCount = 1
      BY <1>8, LitTypes DEF Count
    <3>2. lcdState'.isBusy
      BY <2>1, <3>1, LitTypes DEF lcdDisable, IsLastDisable, LcdStates
    <3>3. isSplashScheduled => ~IsTransacting
      <4>1. isSplashScheduled => IsQuiet
        BY <1>4, <1>6, <1>8 DEF TransactionInv, IsQuiet
      <4> QED BY <1>4, <4>1, LitTypes
    <3> QED BY <1>2, <1>3, <1>5, <1>6, <2>5, <2>7, <3>2, <3>3 DEF TransactionInv
  <2> QED BY <1>1, <1>2, <1>3, <1>5, <2>4, <2>8, <2>9, <2>10
          DEF LitInv, StartInv, DrawingInv
<1> QED BY <1>7, <1>8
-----------------------------------------------------------------------------
(***************************************************************************)
(* The screen going on, and the LCD being configured.                      *)
(***************************************************************************)
\* Switched on it is configured at once if the supply is there, and if it is not, then
\* when it is.
LEMMA OnLit ==
    ASSUME LitInv, IInv', NEW type \in Types, Dispatching(type), type \notin Rails,
           NEW ui \in UiStates, ~uiState.isScreenOn, uiScreenOn(ui), Publish(<<>>),
           ui.isLcdEnabled = uiState.isLcdEnabled, ui.isScreenTimeoutDisabled,
           ui.isInputIgnored = uiState.isInputIgnored,
           ~ui.isButtonPressPreventedFromTurningOnScreen,
           UNCHANGED <<waking, due, isMotorEnabled>>,
           isSplashScheduled' => uiState.isInputIgnored /\ ~IsTransacting
    PROVE  LitInv'
<1>1. /\ IInv /\ due = {} /\ due' = {} /\ ~waking /\ ~waking' /\ queue # <<>>
      /\ Head(queue) \notin Rails /\ lcdState \in LcdStates /\ lcdState.waits \in Seq(Waits)
      /\ lcdState.enableCount = 0 /\ vregEnableCount \in Nat
  BY DispatchingIsAlone, LitTypes DEF LitInv, Count
<1>2. SameRails /\ QueueInv'
  BY <1>1, NothingPublished, QueueKeptByNothing
<1>3. RailInv' /\ fullyEnabled' = fullyEnabled
  BY <1>1, RailEnabled DEF LitInv, uiScreenOn
<1>4. /\ uiState'.isScreenOn /\ uiState'.isLcdEnabled = uiState.isLcdEnabled
      /\ uiState'.isScreenTimeoutDisabled
      /\ uiState'.isInputIgnored = uiState.isInputIgnored
      /\ ~uiState'.isButtonPressPreventedFromTurningOnScreen
      /\ lasting' = TRUE
  BY DEF uiScreenOn, UiStates, nearSchedulerAddOrUpdateTimeout
<1>5. ConfigureInv /\ WakingInv /\ TransactionInv
  BY DEF LitInv
<1>6. ~IsConfiguring /\ ~LcdIsUp
  BY <1>5 DEF ConfigureInv
<1>7. /\ IsConfiguring' <=> fullyEnabled
      /\ IsTransacting' <=> IsTransacting
      /\ OneOfEach(lcdState'.waits)
      /\ ~lcdState'.isBusy => ~IsTransacting'
  <2> DEFINE on == [lcdState EXCEPT !.enableCount = 1]
             busy == [on EXCEPT !.isBusy = TRUE]
  <2>1. /\ on.waits = lcdState.waits /\ on.isBusy = lcdState.isBusy
        /\ busy \in LcdStates /\ busy.waits = lcdState.waits /\ busy.isBusy
    BY <1>1 DEF LcdStates
  <2>2. lcdState' = IF fullyEnabled THEN AddWait(busy, ConfigureWait(0)) ELSE on
    BY <1>1 DEF uiScreenOn, lcdEnable, lcdConfigure
  <2>3. OneOfEach(lcdState.waits) /\ (~lcdState.isBusy => ~IsTransacting)
    BY <1>5 DEF TransactionInv
  <2> HIDE DEF on, busy
  <2>4. CASE ~fullyEnabled
    BY <1>6, <2>1, <2>2, <2>3, <2>4 DEF IsConfiguring, IsTransacting
  <2>5. CASE fullyEnabled
    <3>1. /\ lcdState'.waits = Append(lcdState.waits, ConfigureWait(0))
          /\ lcdState'.isBusy
      BY <2>1, <2>2, <2>5 DEF AddWait, LcdStates
    <3>2. ConfigureWait(0) \in Waits /\ IsConfigure(ConfigureWait(0))
      BY WaitsAreWaits DEF IsConfigure, ConfigureWait
    <3> QED BY <1>1, <1>6, <2>3, <2>5, <3>1, <3>2, WaitIsAdded DEF IsConfiguring, IsTransacting
  <2> QED BY <2>4, <2>5
<1>8. IsStarting'
  BY <1>2, <1>4, <1>5 DEF WakingInv, SameRails, IsStarting
<1>9. ConfigureInv'
  BY <1>2, <1>3, <1>4, <1>5, <1>6, <1>7, <1>8 DEF ConfigureInv, SameRails
<1>10. WakingInv' /\ StartInv'
  BY <1>1, <1>4 DEF WakingInv, StartInv
<1>11. DrawingInv'
  BY <1>1, <1>4 DEF DrawingInv, IsQuiet
<1>12. TransactionInv'
  BY <1>1, <1>2, <1>4, <1>6, <1>7 DEF TransactionInv, SameRails
<1> QED BY <1>2, <1>3, <1>4, <1>9, <1>10, <1>11, <1>12 DEF LitInv

LEMMA SystemInitialisedLit ==
    ASSUME LitInv, uiOnSystemInitialised
    PROVE  LitInv'
<1> DEFINE ui == [uiState EXCEPT !.isScreenTimeoutDisabled = TRUE]
<1>1. /\ Dispatching("SYSTEM_INITIALISED") /\ uiScreenOn(ui) /\ isSplashScheduled' = TRUE
      /\ Publish(<<>>) /\ UNCHANGED <<waking, due, isMotorEnabled>>
  BY DEF uiOnSystemInitialised
<1>2. IInv /\ IInv'
  BY SystemInitialisedKeeps DEF LitInv
<1>3. IsPending("SYSTEM_INITIALISED")
  <2>1. queue \in Seq(Types) /\ queue # <<>> /\ queue[1] = "SYSTEM_INITIALISED"
    BY <1>1, <1>2 DEF Dispatching, IInv, TypesInv
  <2>2. 1 \in 1 .. Len(queue)
    BY <2>1
  <2> QED BY <2>1, <2>2 DEF IsPending, Has
<1>4. /\ ~uiState.isScreenOn /\ uiState.isInputIgnored /\ ~IsTransacting
      /\ ~uiState.isButtonPressPreventedFromTurningOnScreen
  BY <1>2, <1>3, LitTypes DEF IInv, FirstInv, LitInv, QueueInv
<1>5. /\ ui \in UiStates /\ ui.isLcdEnabled = uiState.isLcdEnabled
      /\ ui.isScreenTimeoutDisabled /\ ui.isInputIgnored = uiState.isInputIgnored
      /\ ~ui.isButtonPressPreventedFromTurningOnScreen
  BY <1>4, LitTypes DEF UiStates
<1>6. "SYSTEM_INITIALISED" \in Types /\ "SYSTEM_INITIALISED" \notin Rails
  BY DEF Types, Rails
<1> HIDE DEF ui
<1> QED BY <1>1, <1>2, <1>4, <1>5, <1>6, OnLit

LEMMA VregEnabledLit ==
    ASSUME LitInv, VregEnabled
    PROVE  LitInv'
<1>1. /\ IInv /\ IInv' /\ due = {} /\ due' = {} /\ ~waking /\ waking' = waking /\ queue # <<>>
      /\ Head(queue) = "VOLTAGE_REGULATOR_ENABLED" /\ Publish(<<>>)
      /\ lcdState' = lcdOnVoltageRegulatorEnabled(lcdState)
      /\ UNCHANGED <<regulatedWaits, mcuWaits, fullyEnabled, vregEnableCount, uiState,
                     screenTimeoutCount, lasting, isSplashScheduled>>
  BY DispatchingIsAlone, LcdEventsKeep
     DEF LitInv, VregEnabled, timeoutVars, supplyVars, vregVars
<1>2. lcdState \in LcdStates /\ lcdState.waits \in Seq(Waits)
      /\ (lcdState.enableCount # 0 <=> uiState.isScreenOn)
  BY LitTypes DEF Count
<1>3. QueueInv'
  BY <1>1, QueueKeptByNothing
<1>4. RailIsUp /\ (RailIsUp' => RailIsUp) /\ (LcdIsUp' <=> LcdIsUp) /\ (LcdIsDown' <=> LcdIsDown)
  <2>1. /\ \A type : IsPending(type)' => IsPending(type)
        /\ \A type : IsPending(type) /\ Head(queue) # type => IsPending(type)'
    BY <1>1, HasFew, PublishKeeps DEF IInv
  <2>2. IsPending(Head(queue))
    <3>1. 1 \in 1 .. Len(queue) /\ queue[1] = Head(queue)
      BY <1>1, LitTypes
    <3> QED BY <3>1 DEF IsPending, Has
  <2> QED BY <1>1, <2>1, <2>2 DEF RailIsUp, LcdIsUp, LcdIsDown
<1>5. RailInv'
  BY <1>1, RailStill DEF LitInv
<1>6. IsBeingConfigured(lcdState) <=> IsConfiguring
  BY DEF IsBeingConfigured, IsConfiguring, Configures, IsConfigure
<1>7. ConfigureInv /\ WakingInv /\ TransactionInv
  BY DEF LitInv
<1>8. fullyEnabled /\ ~LcdIsUp /\ (uiState.isScreenOn => IsStarting)
  BY <1>4, <1>7 DEF ConfigureInv
<1>9. /\ IsConfiguring' <=> uiState.isScreenOn
      /\ IsTransacting' <=> IsTransacting
      /\ OneOfEach(lcdState'.waits)
      /\ ~lcdState'.isBusy => ~IsTransacting'
  <2>1. OneOfEach(lcdState.waits) /\ (~lcdState.isBusy => ~IsTransacting)
        /\ (IsConfiguring => uiState.isScreenOn)
    BY <1>7 DEF TransactionInv, ConfigureInv
  <2>2. CASE lcdState.enableCount = 0 \/ IsBeingConfigured(lcdState)
    <3>1. lcdState' = lcdState
      BY <1>1, <2>2 DEF lcdOnVoltageRegulatorEnabled
    <3> QED BY <1>2, <1>6, <2>1, <2>2, <3>1 DEF IsConfiguring, IsTransacting
  <2>3. CASE ~(lcdState.enableCount = 0 \/ IsBeingConfigured(lcdState))
    <3> DEFINE busy == [lcdState EXCEPT !.isBusy = TRUE]
    <3>1. busy.waits = lcdState.waits /\ busy.isBusy /\ busy \in LcdStates
      BY <1>2 DEF LcdStates
    <3>2. lcdState' = AddWait(busy, ConfigureWait(0))
      BY <1>1, <2>3 DEF lcdOnVoltageRegulatorEnabled, lcdConfigure
    <3> HIDE DEF busy
    <3>3. /\ lcdState'.waits = Append(lcdState.waits, ConfigureWait(0))
          /\ lcdState'.isBusy
      BY <3>1, <3>2 DEF AddWait, LcdStates
    <3>4. ConfigureWait(0) \in Waits /\ IsConfigure(ConfigureWait(0))
      BY WaitsAreWaits DEF IsConfigure, ConfigureWait
    <3> QED BY <1>2, <1>6, <2>1, <2>3, <3>3, <3>4, WaitIsAdded DEF IsConfiguring, IsTransacting
  <2> QED BY <2>2, <2>3
<1>10. IsStarting' <=> IsStarting
  BY <1>1, <1>4 DEF IsStarting
<1>11. ConfigureInv' /\ WakingInv'
  <2>1. /\ fullyEnabled' /\ ~LcdIsUp' /\ ~waking'
        /\ (uiState'.isScreenOn => IsStarting') /\ (IsConfiguring' <=> uiState'.isScreenOn)
    BY <1>1, <1>4, <1>8, <1>9, <1>10
  <2>2. ConfigureInv'
    BY <2>1 DEF ConfigureInv, IsStarting
  <2>3. WakingInv'
    BY <1>1, <1>4, <1>7, <2>1 DEF WakingInv
  <2> QED BY <2>2, <2>3
<1>12. StartInv'
  BY <1>1, <1>10 DEF LitInv, StartInv
<1>13. DrawingInv'
  <2>1. IsQuiet' => IsStarting
    BY <1>1, <1>8 DEF IsQuiet
  <2>2. IsQuiet' => screenTimeoutCount = 0 /\ lasting
    BY <1>1, <2>1 DEF LitInv, StartInv, IsQuiet
  <2> QED BY <1>1, <2>2 DEF LitInv, DrawingInv
<1>14. TransactionInv'
  BY <1>1, <1>4, <1>7, <1>8, <1>9, <1>10 DEF TransactionInv
<1>15. lasting' \in BOOLEAN
  BY <1>1 DEF LitInv
<1> QED BY <1>1, <1>3, <1>5, <1>11, <1>12, <1>13, <1>14, <1>15 DEF LitInv

LEMMA LcdDisabledLit ==
    ASSUME LitInv, uiOnLcdDisabled
    PROVE  LitInv'
<1>1. /\ IInv /\ IInv' /\ due = {} /\ due' = {} /\ ~waking /\ waking' = waking /\ queue # <<>>
      /\ Head(queue) = "LCD_DISABLED" /\ Publish(<<>>)
      /\ uiState' = [uiState EXCEPT !.isLcdEnabled = FALSE]
      /\ UNCHANGED <<regulatedWaits, mcuWaits, fullyEnabled, vregEnableCount, lcdState,
                     screenTimeoutCount, lasting, isSplashScheduled>>
  BY DispatchingIsAlone, LcdEventsKeep
     DEF LitInv, uiOnLcdDisabled, timeoutVars, supplyVars, vregVars
<1>2. QueueInv'
  BY <1>1, QueueKeptByNothing
<1>3. LcdIsDown /\ (LcdIsDown' => LcdIsDown) /\ (LcdIsUp' <=> LcdIsUp) /\ (RailIsUp' <=> RailIsUp)
  <2>1. /\ \A type : IsPending(type)' => IsPending(type)
        /\ \A type : IsPending(type) /\ Head(queue) # type => IsPending(type)'
    BY <1>1, HasFew, PublishKeeps DEF IInv
  <2>2. IsPending(Head(queue))
    <3>1. 1 \in 1 .. Len(queue) /\ queue[1] = Head(queue)
      BY <1>1, LitTypes
    <3> QED BY <3>1 DEF IsPending, Has
  <2> QED BY <1>1, <2>1, <2>2 DEF RailIsUp, LcdIsUp, LcdIsDown
<1>4. RailInv'
  BY <1>1, RailStill DEF LitInv
<1>5. /\ ~uiState'.isLcdEnabled /\ uiState'.isScreenOn = uiState.isScreenOn
      /\ uiState'.isScreenTimeoutDisabled = uiState.isScreenTimeoutDisabled
      /\ uiState'.pressed = uiState.pressed
      /\ uiState'.isInputIgnored = uiState.isInputIgnored
      /\ uiState'.isScreenBlitDirty = uiState.isScreenBlitDirty
      /\ uiState'.isButtonPressPreventedFromTurningOnScreen
           = uiState.isButtonPressPreventedFromTurningOnScreen
  BY <1>1, LitTypes DEF UiStates
<1>6. (IsStarting' <=> IsStarting) /\ (IsConfiguring' <=> IsConfiguring)
      /\ (IsTransacting' <=> IsTransacting)
  BY <1>1, <1>3, <1>5 DEF IsStarting, IsConfiguring, IsTransacting
<1>7. ConfigureInv' /\ WakingInv'
  BY <1>1, <1>3, <1>5, <1>6 DEF LitInv, ConfigureInv, WakingInv
<1>8. StartInv' /\ DrawingInv'
  BY <1>1, <1>5, <1>6 DEF LitInv, StartInv, DrawingInv, IsQuiet
<1>9. TransactionInv'
  BY <1>1, <1>3, <1>5, <1>6 DEF LitInv, TransactionInv
<1>10. lasting' \in BOOLEAN
  BY <1>1 DEF LitInv
<1> QED BY <1>1, <1>2, <1>4, <1>7, <1>8, <1>9, <1>10 DEF LitInv
-----------------------------------------------------------------------------
(***************************************************************************)
(* What the transactions do.                                               *)
(***************************************************************************)
LEMMA SetCursorDoes ==
    ASSUME NEW l \in LcdStates, NEW isOn \in BOOLEAN, NEW callback \in Callbacks
    PROVE  LET m == lcdSetCursor(l, isOn, callback)
           IN /\ l.isBusy => m = l
              /\ ~l.isBusy =>
                     /\ m.isBusy /\ m.callback = callback
                     /\ m.waits = Append(l.waits, CompletedWait)
                     /\ m.isCurrent = l.isCurrent /\ m.address = l.address
                     /\ l.enableCount # 0 => m.isDisplayOn /\ (m.isCursorOn <=> isOn)
<1> DEFINE set == [l EXCEPT !.isDisplayOn = TRUE, !.isCursorOn = isOn]
           written == Written(l, set)
           busy == [written EXCEPT !.isBusy = TRUE, !.callback = callback]
<1>1. /\ set \in LcdStates /\ set.isCurrent = l.isCurrent /\ set.address = l.address
      /\ set.waits = l.waits /\ set.isDisplayOn /\ (set.isCursorOn <=> isOn)
  BY DEF LcdStates
<1> HIDE DEF set
<1>2. /\ written \in LcdStates /\ written.isCurrent = l.isCurrent /\ written.address = l.address
      /\ written.waits = l.waits
      /\ l.enableCount # 0 => written.isDisplayOn /\ (written.isCursorOn <=> isOn)
  BY <1>1 DEF Written
<1> HIDE DEF written
<1>3. /\ busy \in LcdStates /\ busy.isCurrent = l.isCurrent /\ busy.address = l.address
      /\ busy.waits = l.waits /\ busy.isBusy /\ busy.callback = callback
      /\ l.enableCount # 0 => busy.isDisplayOn /\ (busy.isCursorOn <=> isOn)
  BY <1>2 DEF LcdStates
<1>4. lcdSetCursor(l, isOn, callback) = IF l.isBusy THEN l ELSE AddWait(busy, CompletedWait)
  BY DEF lcdSetCursor, written, set
<1> HIDE DEF busy
<1> QED BY <1>3, <1>4 DEF AddWait, LcdStates

LEMMA SetDdramAddressDoes ==
    ASSUME NEW l \in LcdStates, NEW address \in Addresses, NEW callback \in Callbacks
    PROVE  LET m == lcdSetDdramAddress(l, address, callback)
           IN /\ l.isBusy => m = l
              /\ ~l.isBusy =>
                     /\ m.isBusy /\ m.callback = callback
                     /\ m.waits = Append(l.waits, CompletedWait)
                     /\ m.isCurrent = l.isCurrent
                     /\ m.isDisplayOn = l.isDisplayOn /\ m.isCursorOn = l.isCursorOn
                     /\ l.enableCount # 0 => m.address = address
<1> DEFINE set == [l EXCEPT !.address = address]
           written == Written(l, set)
           busy == [written EXCEPT !.isBusy = TRUE, !.callback = callback]
<1>1. /\ set \in LcdStates /\ set.isCurrent = l.isCurrent /\ set.address = address
      /\ set.waits = l.waits /\ set.isDisplayOn = l.isDisplayOn
      /\ set.isCursorOn = l.isCursorOn
  BY DEF LcdStates
<1> HIDE DEF set
<1>2. /\ written \in LcdStates /\ written.isCurrent = l.isCurrent
      /\ written.waits = l.waits /\ written.isDisplayOn = l.isDisplayOn
      /\ written.isCursorOn = l.isCursorOn
      /\ l.enableCount # 0 => written.address = address
  BY <1>1 DEF Written
<1> HIDE DEF written
<1>3. /\ busy \in LcdStates /\ busy.isCurrent = l.isCurrent
      /\ busy.waits = l.waits /\ busy.isDisplayOn = l.isDisplayOn
      /\ busy.isCursorOn = l.isCursorOn /\ busy.isBusy /\ busy.callback = callback
      /\ l.enableCount # 0 => busy.address = address
  BY <1>2 DEF LcdStates
<1>4. lcdSetDdramAddress(l, address, callback)
        = IF l.isBusy THEN l ELSE AddWait(busy, CompletedWait)
  BY DEF lcdSetDdramAddress, written, set
<1> HIDE DEF busy
<1> QED BY <1>3, <1>4 DEF AddWait, LcdStates

\* What is shown once a character of the buffer has been written.
WithCharacter(isCurrent, line, column) == [isCurrent EXCEPT ![line][column] = TRUE]

\* The buffer is read, and the character written, where the LCD's address is.
LEMMA WriteCharacterDoes ==
    ASSUME NEW l \in LcdStates, NEW line \in Lines, NEW column \in Nat
    PROVE  LET m == lcdWriteCharacter(l, line, column)
           IN /\ m \in LcdStates
              /\ m.isBusy = l.isBusy /\ m.callback = l.callback
              /\ m.waits = Append(l.waits, PutsWait(line, column + 1))
              /\ m.isDisplayOn = l.isDisplayOn /\ m.isCursorOn = l.isCursorOn
              /\ l.enableCount # 0 /\ l.address = <<line, column>> =>
                     /\ m.address = <<line, column + 1>>
                     /\ m.isCurrent = WithCharacter(l.isCurrent, line, column)
<1> DEFINE isRight == l.address = <<line, column>>
           buffer == [l.isCurrent EXCEPT ![l.address[1]][l.address[2]] = isRight]
           address == [l.address EXCEPT ![2] = @ + 1]
           changed == [l EXCEPT !.isCurrent = buffer, !.address = address]
           written == Written(l, changed)
<1>1. l.address \in Nat \X Nat /\ l.isCurrent \in Buffers
  BY DEF LcdStates, Addresses
<1>2. isRight => /\ address = <<line, column + 1>>
                 /\ buffer = WithCharacter(l.isCurrent, line, column)
  <2> SUFFICES ASSUME isRight PROVE /\ address = <<line, column + 1>>
                                    /\ buffer = WithCharacter(l.isCurrent, line, column)
    OBVIOUS
  <2>1. l.address[1] = line /\ l.address[2] = column /\ l.address = <<line, column>>
    OBVIOUS
  <2>2. address = <<line, column + 1>>
    BY <2>1
  <2>3. isRight = TRUE
    OBVIOUS
  <2> HIDE DEF isRight
  <2>4. buffer = WithCharacter(l.isCurrent, line, column)
    BY <2>1, <2>3 DEF WithCharacter
  <2> QED BY <2>2, <2>4
<1>3. lcdWriteCharacter(l, line, column) = AddWait(written, PutsWait(line, column + 1))
  <2>1. changed = [l EXCEPT !.isCurrent[l.address[1]][l.address[2]] = isRight,
                            !.address[2] = @ + 1]
    BY DEF LcdStates
  <2> QED BY <2>1 DEF lcdWriteCharacter
<1>4. lcdWriteCharacter(l, line, column) \in LcdStates
  BY WriteCharacterDraws DEF LcdDrawn
<1> HIDE DEF buffer, address
<1>5. /\ changed.waits = l.waits /\ changed.isDisplayOn = l.isDisplayOn
      /\ changed.isCursorOn = l.isCursorOn /\ changed.isBusy = l.isBusy
      /\ changed.callback = l.callback /\ changed.isCurrent = buffer
      /\ changed.address = address
      /\ changed = [changed EXCEPT !.waits = changed.waits]
  BY DEF LcdStates
<1> HIDE DEF changed
<1>6. /\ written.waits = l.waits /\ written.isDisplayOn = l.isDisplayOn
      /\ written.isCursorOn = l.isCursorOn /\ written.isBusy = l.isBusy
      /\ written.callback = l.callback
      /\ l.enableCount # 0 => written.isCurrent = buffer /\ written.address = address
      /\ written = [written EXCEPT !.waits = written.waits]
  BY <1>5 DEF Written, LcdStates
<1> QED BY <1>2, <1>3, <1>4, <1>6 DEF AddWait, LcdStates

\* A transaction is begun, or the LCD is left as it was.
Adds(l, m) ==
    m.isBusy /\ \E wait \in Waits : ~IsConfigure(wait) /\ m.waits = Append(l.waits, wait)

Begins(l, m) == ~l.isBusy /\ Adds(l, m)

MayBegin(l, m) == (m.waits = l.waits /\ m.isBusy = l.isBusy) \/ Begins(l, m)

LEMMA TransactionWaits ==
    /\ CompletedWait \in Waits /\ ~IsConfigure(CompletedWait)
    /\ \A line \in Lines, column \in Nat :
           PutsWait(line, column) \in Waits /\ ~IsConfigure(PutsWait(line, column))
BY WaitsAreWaits DEF IsConfigure, CompletedWait, PutsWait

LEMMA SetCursorMayBegin ==
    ASSUME NEW l \in LcdStates, NEW isOn \in BOOLEAN, NEW callback \in Callbacks
    PROVE  MayBegin(l, lcdSetCursor(l, isOn, callback))
BY SetCursorDoes, TransactionWaits DEF MayBegin, Begins, Adds

LEMMA SetDdramAddressMayBegin ==
    ASSUME NEW l \in LcdStates, NEW address \in Addresses, NEW callback \in Callbacks
    PROVE  MayBegin(l, lcdSetDdramAddress(l, address, callback))
BY SetDdramAddressDoes, TransactionWaits DEF MayBegin, Begins, Adds

LEMMA PutsDoes ==
    ASSUME NEW l \in LcdStates, NEW line \in Lines, NEW callback \in Callbacks, ~l.isBusy
    PROVE  /\ lcdPuts(l, line, callback).isBusy
           /\ lcdPuts(l, line, callback).callback = callback
           /\ lcdPuts(l, line, callback).waits = Append(l.waits, PutsWait(line, 2))
           /\ lcdPuts(l, line, callback).isDisplayOn = l.isDisplayOn
           /\ lcdPuts(l, line, callback).isCursorOn = l.isCursorOn
           /\ l.enableCount # 0 /\ l.address = <<line, 1>> =>
                  /\ lcdPuts(l, line, callback).address = <<line, 2>>
                  /\ lcdPuts(l, line, callback).isCurrent = WithCharacter(l.isCurrent, line, 1)
<1> DEFINE busy == [l EXCEPT !.isBusy = TRUE, !.callback = callback]
<1>1. /\ busy \in LcdStates /\ busy.isCurrent = l.isCurrent /\ busy.address = l.address
      /\ busy.waits = l.waits /\ busy.isDisplayOn = l.isDisplayOn
      /\ busy.isCursorOn = l.isCursorOn /\ busy.isBusy /\ busy.callback = callback
      /\ busy.enableCount = l.enableCount
  BY DEF LcdStates
<1>2. lcdPuts(l, line, callback) = lcdWriteCharacter(busy, line, 1)
  BY DEF lcdPuts
<1> HIDE DEF busy
<1>3. ASSUME NEW column \in Nat, column = 1, NEW next, next = column + 1,
             NEW m, m = lcdWriteCharacter(busy, line, column)
      PROVE  /\ m.isBusy = busy.isBusy /\ m.callback = busy.callback
             /\ m.waits = Append(busy.waits, PutsWait(line, next))
             /\ m.isDisplayOn = busy.isDisplayOn /\ m.isCursorOn = busy.isCursorOn
             /\ busy.enableCount # 0 /\ busy.address = <<line, column>> =>
                    /\ m.address = <<line, next>>
                    /\ m.isCurrent = WithCharacter(busy.isCurrent, line, column)
  BY <1>1, <1>3, WriteCharacterDoes
<1> DEFINE m == lcdWriteCharacter(busy, line, 1)
<1>4. 2 = 1 + 1 /\ 1 \in Nat
  OBVIOUS
<1>5. /\ m.isBusy = busy.isBusy /\ m.callback = busy.callback
      /\ m.waits = Append(busy.waits, PutsWait(line, 2))
      /\ m.isDisplayOn = busy.isDisplayOn /\ m.isCursorOn = busy.isCursorOn
      /\ busy.enableCount # 0 /\ busy.address = <<line, 1>> =>
             /\ m.address = <<line, 2>>
             /\ m.isCurrent = WithCharacter(busy.isCurrent, line, 1)
  BY <1>3, <1>4
<1>6. lcdPuts(l, line, callback) = m
  BY <1>2
<1> HIDE DEF m
<1> QED BY <1>1, <1>5, <1>6

LEMMA PutsIsDropped ==
    ASSUME NEW l, NEW line, NEW callback, l.isBusy
    PROVE  lcdPuts(l, line, callback) = l
BY DEF lcdPuts

LEMMA PutsMayBegin ==
    ASSUME NEW l \in LcdStates, NEW line \in Lines, NEW callback \in Callbacks
    PROVE  MayBegin(l, lcdPuts(l, line, callback))
<1>1. PutsWait(line, 2) \in Waits /\ ~IsConfigure(PutsWait(line, 2))
  BY TransactionWaits
<1>2. CASE l.isBusy
  BY <1>2, PutsIsDropped DEF MayBegin
<1>3. CASE ~l.isBusy
  BY <1>1, <1>3, PutsDoes DEF MayBegin, Begins, Adds
<1> QED BY <1>2, <1>3

\* A screen that is to be drawn again.
LEMMA ScreenBlitDoes ==
    ASSUME NEW b \in States
    PROVE  LET c == uiScreenBlit(b)
           IN /\ Drawn(b, c) /\ MayBegin(b.lcd, c.lcd)
              /\ ~b.ui.isLcdEnabled \/ b.ui.isScreenBeingBlitted =>
                     /\ c.lcd = b.lcd
                     /\ c.ui.isScreenBeingBlitted <=> b.ui.isScreenBeingBlitted
                     /\ c.ui.isScreenBlitDirty <=> b.ui.isScreenBeingBlitted
              /\ ~(~b.ui.isLcdEnabled \/ b.ui.isScreenBeingBlitted) =>
                     /\ c.lcd = lcdSetCursor(b.lcd, FALSE, "uiScreenSetAddressToHome")
                     /\ c.ui.isScreenBeingBlitted /\ ~c.ui.isScreenBlitDirty
<1> DEFINE home == lcdSetCursor(b.lcd, FALSE, "uiScreenSetAddressToHome")
<1>1. b.lcd \in LcdStates /\ b.ui \in UiStates /\ Drawn(b, uiScreenBlit(b))
  BY LcdIsState, ScreenBlitDraws
<1>2. MayBegin(b.lcd, home)
  BY <1>1, SetCursorMayBegin DEF Callbacks
<1>3. MayBegin(b.lcd, b.lcd)
  BY DEF MayBegin
<1> HIDE DEF home
<1>4. CASE ~b.ui.isLcdEnabled \/ b.ui.isScreenBeingBlitted
  <2>1. uiScreenBlit(b) = Redraws(b)
    BY <1>4 DEF uiScreenBlit
  <2>2. /\ Redraws(b).lcd = b.lcd
        /\ Redraws(b).ui.isScreenBeingBlitted <=> b.ui.isScreenBeingBlitted
        /\ Redraws(b).ui.isScreenBlitDirty <=> b.ui.isScreenBeingBlitted
    BY <1>1 DEF Redraws, States, UiStates
  <2> QED BY <1>1, <1>3, <1>4, <2>1, <2>2
<1>5. CASE ~(~b.ui.isLcdEnabled \/ b.ui.isScreenBeingBlitted)
  <2> DEFINE ui == [b.ui EXCEPT !.isScreenBlitDirty = FALSE, !.isScreenBeingBlitted = TRUE]
             c == uiScreenBlit(b)
  <2>1. ui.isScreenBeingBlitted /\ ~ui.isScreenBlitDirty
    BY <1>1 DEF UiStates
  <2>2. c = [ui |-> ui, lcd |-> home]
    BY <1>5 DEF uiScreenBlit, home
  <2> HIDE DEF ui, c
  <2>3. c.lcd = home /\ c.ui = ui
    BY <2>2
  <2>4. c.ui.isScreenBeingBlitted /\ ~c.ui.isScreenBlitDirty
    BY <2>1, <2>3
  <2> QED BY <1>1, <1>2, <1>5, <2>3, <2>4 DEF home, c
<1> QED BY <1>4, <1>5

\* The end of a drawing, after which a dirty screen is drawn again.
LEMMA BlitDoneDoes ==
    ASSUME NEW b \in States
    PROVE  LET c == uiScreenBlitDone(b)
           IN /\ Drawn(b, c) /\ MayBegin(b.lcd, c.lcd)
              /\ ~b.ui.isScreenBlitDirty \/ ~b.ui.isLcdEnabled =>
                     c.lcd = b.lcd /\ ~c.ui.isScreenBeingBlitted
              /\ ~(~b.ui.isScreenBlitDirty \/ ~b.ui.isLcdEnabled) =>
                     /\ c.lcd = lcdSetCursor(b.lcd, FALSE, "uiScreenSetAddressToHome")
                     /\ c.ui.isScreenBeingBlitted
              /\ ~c.ui.isScreenBlitDirty
<1> DEFINE done == [b EXCEPT !.ui.isScreenBeingBlitted = FALSE]
<1>1. Drawn(b, uiScreenBlitDone(b)) /\ MayBegin(b.lcd, b.lcd)
  BY BlitDoneDraws DEF MayBegin
<1>2. /\ done \in States /\ done.lcd = b.lcd /\ ~done.ui.isScreenBeingBlitted
      /\ done.ui.isLcdEnabled <=> b.ui.isLcdEnabled
      /\ done.ui.isScreenBlitDirty <=> b.ui.isScreenBlitDirty
  BY DEF States, UiStates
<1>3. uiScreenBlitDone(b) = IF b.ui.isScreenBlitDirty THEN uiScreenBlit(done) ELSE done
  BY DEF uiScreenBlitDone
<1> HIDE DEF done
<1>4. CASE ~b.ui.isScreenBlitDirty
  BY <1>1, <1>2, <1>3, <1>4
<1>5. CASE b.ui.isScreenBlitDirty
  <2>1. uiScreenBlitDone(b) = uiScreenBlit(done)
    BY <1>3, <1>5
  <2> QED BY <1>1, <1>2, <1>5, <2>1, ScreenBlitDoes
<1> QED BY <1>4, <1>5

\* Whatever is called back begins one transaction at most, and draws again what is dirty.
LEMMA CallBackDoes ==
    ASSUME NEW b \in States
    PROVE  LET c == CallBack(b)
           IN /\ Drawn(b, c) /\ MayBegin(b.lcd, c.lcd)
              /\ c.ui.isScreenBlitDirty => b.ui.isScreenBlitDirty
              /\ ~b.ui.isLcdEnabled => c.lcd = b.lcd
              /\ /\ b.lcd.callback # "uiScreenSetAddressToHome"
                 /\ c.lcd.callback = "uiScreenSetAddressToHome"
                 => b.ui.isScreenBlitDirty /\ b.ui.isLcdEnabled /\ ~c.ui.isScreenBlitDirty
<1> DEFINE Does(c) ==
               /\ MayBegin(b.lcd, c.lcd)
               /\ c.ui.isScreenBlitDirty => b.ui.isScreenBlitDirty
               /\ ~b.ui.isLcdEnabled => c.lcd = b.lcd
               /\ /\ b.lcd.callback # "uiScreenSetAddressToHome"
                  /\ c.lcd.callback = "uiScreenSetAddressToHome"
                  => b.ui.isScreenBlitDirty /\ b.ui.isLcdEnabled /\ ~c.ui.isScreenBlitDirty
<1>1. b.lcd.callback \in Callbacks /\ b.lcd \in LcdStates /\ b.ui.cursorPosition \in Addresses
      /\ b.ui \in UiStates
  BY AddressesAreAddresses
     DEF States, LcdStates, UiStates, CursorPositions, NoCursor, Addresses
<1>2. Drawn(b, CallBack(b))
  BY CallBackDraws
<1>3. Does(b)
  BY DEF MayBegin
<1>4. Does(uiScreenBlitDone(b))
  <2> DEFINE c == uiScreenBlitDone(b)
  <2>1. MayBegin(b.lcd, c.lcd) /\ ~c.ui.isScreenBlitDirty
    BY BlitDoneDoes
  <2>2. ~b.ui.isScreenBlitDirty \/ ~b.ui.isLcdEnabled => c.lcd = b.lcd
    BY BlitDoneDoes
  <2> HIDE DEF c
  <2>3. Does(c)
    BY <2>1, <2>2
  <2> QED BY <2>3 DEF c
<1>5. ASSUME NEW l, NEW callback \in Callbacks \ {"uiScreenSetAddressToHome"},
             MayBegin(b.lcd, l), l = b.lcd \/ l.callback = callback, b.ui.isLcdEnabled,
             NEW dirty \in {b.ui.isScreenBlitDirty, FALSE},
             NEW c, c = [b EXCEPT !.ui.isScreenBlitDirty = dirty, !.lcd = l]
      PROVE  Does(c)
  <2>1. c.lcd = l /\ c.ui.isScreenBlitDirty = dirty
    BY <1>1, <1>5 DEF States, UiStates
  <2> QED BY <1>5, <2>1
<1>6. ASSUME NEW callback \in Callbacks
      PROVE  /\ \A isOn \in BOOLEAN :
                    LET l == lcdSetCursor(b.lcd, isOn, callback)
                    IN MayBegin(b.lcd, l) /\ (l = b.lcd \/ l.callback = callback)
             /\ \A address \in Addresses :
                    LET l == lcdSetDdramAddress(b.lcd, address, callback)
                    IN MayBegin(b.lcd, l) /\ (l = b.lcd \/ l.callback = callback)
             /\ \A line \in Lines :
                    LET l == lcdPuts(b.lcd, line, callback)
                    IN MayBegin(b.lcd, l) /\ (l = b.lcd \/ l.callback = callback)
  <2>1. ASSUME NEW isOn \in BOOLEAN
        PROVE  LET l == lcdSetCursor(b.lcd, isOn, callback)
               IN MayBegin(b.lcd, l) /\ (l = b.lcd \/ l.callback = callback)
    BY <1>1, SetCursorMayBegin, SetCursorDoes
  <2>2. ASSUME NEW address \in Addresses
        PROVE  LET l == lcdSetDdramAddress(b.lcd, address, callback)
               IN MayBegin(b.lcd, l) /\ (l = b.lcd \/ l.callback = callback)
    BY <1>1, SetDdramAddressMayBegin, SetDdramAddressDoes
  <2>3. ASSUME NEW line \in Lines
        PROVE  LET l == lcdPuts(b.lcd, line, callback)
               IN MayBegin(b.lcd, l) /\ (l = b.lcd \/ l.callback = callback)
    <3>1. CASE b.lcd.isBusy
      BY <1>1, <3>1, PutsMayBegin, PutsIsDropped
    <3>2. CASE ~b.lcd.isBusy
      BY <1>1, <3>2, PutsMayBegin, PutsDoes
    <3> QED BY <3>1, <3>2
  <2> QED BY <2>1, <2>2, <2>3
<1>7. ASSUME b.ui.isLcdEnabled
      PROVE  /\ Does(uiScreenSetAddressToHome(b)) /\ Does(uiScreenBlitFirstLine(b))
             /\ Does(uiScreenGotoSecondLine(b)) /\ Does(uiScreenBlitSecondLine(b))
             /\ Does(uiScreenSetCursorPosition(b)) /\ Does(uiScreenTurnCursorOn(b))
  <2> HIDE DEF Does
  <2>1. \A l : [b EXCEPT !.lcd = l]
                   = [b EXCEPT !.ui.isScreenBlitDirty = b.ui.isScreenBlitDirty, !.lcd = l]
    BY <1>1 DEF States, UiStates
  <2>2. ASSUME NEW l, NEW callback \in Callbacks \ {"uiScreenSetAddressToHome"},
               MayBegin(b.lcd, l), l = b.lcd \/ l.callback = callback
        PROVE  Does([b EXCEPT !.lcd = l])
    BY <1>5, <1>7, <2>1, <2>2
  <2>3. ASSUME NEW l, NEW callback \in Callbacks \ {"uiScreenSetAddressToHome"},
               MayBegin(b.lcd, l), l = b.lcd \/ l.callback = callback,
               NEW c, c = [b EXCEPT !.lcd = l]
        PROVE  Does(c)
    BY <2>2, <2>3
  <2>4. {"uiScreenBlitFirstLine", "uiScreenGotoSecondLine", "uiScreenBlitSecondLine",
         "uiScreenSetCursorPosition", "uiScreenTurnCursorOn", "uiScreenBlitDone"}
          \subseteq Callbacks \ {"uiScreenSetAddressToHome"}
    BY DEF Callbacks
  <2>5. Does(uiScreenSetAddressToHome(b))
    <3> DEFINE l == lcdSetDdramAddress(b.lcd, <<1, 1>>, "uiScreenBlitFirstLine")
    <3>1. MayBegin(b.lcd, l) /\ (l = b.lcd \/ l.callback = "uiScreenBlitFirstLine")
      BY <1>1, <1>6, <2>4, AddressesAreAddresses DEF Lines
    <3>2. uiScreenSetAddressToHome(b) = [b EXCEPT !.lcd = l]
      BY DEF uiScreenSetAddressToHome
    <3> HIDE DEF l
    <3> QED BY <2>3, <2>4, <3>1, <3>2
  <2>6. Does(uiScreenBlitFirstLine(b))
    <3> DEFINE l == lcdPuts(b.lcd, 1, "uiScreenGotoSecondLine")
    <3>1. uiScreenBlitFirstLine(b) = [b EXCEPT !.ui.isScreenBlitDirty = FALSE, !.lcd = l]
      BY DEF uiScreenBlitFirstLine, States
    <3>2. MayBegin(b.lcd, l) /\ (l = b.lcd \/ l.callback = "uiScreenGotoSecondLine")
      BY <1>6, <2>4 DEF Lines
    <3> HIDE DEF l
    <3> QED BY <1>5, <1>7, <2>4, <3>1, <3>2
  <2>7. Does(uiScreenGotoSecondLine(b))
    <3> DEFINE l == lcdSetDdramAddress(b.lcd, <<2, 1>>, "uiScreenBlitSecondLine")
    <3>1. MayBegin(b.lcd, l) /\ (l = b.lcd \/ l.callback = "uiScreenBlitSecondLine")
      BY <1>1, <1>6, <2>4, AddressesAreAddresses DEF Lines
    <3>2. uiScreenGotoSecondLine(b) = [b EXCEPT !.lcd = l]
      BY DEF uiScreenGotoSecondLine
    <3> HIDE DEF l
    <3> QED BY <2>3, <2>4, <3>1, <3>2
  <2>8. Does(uiScreenBlitSecondLine(b))
    <3> DEFINE l == lcdPuts(b.lcd, 2, "uiScreenSetCursorPosition")
    <3>1. MayBegin(b.lcd, l) /\ (l = b.lcd \/ l.callback = "uiScreenSetCursorPosition")
      BY <1>1, <1>6, <2>4, AddressesAreAddresses DEF Lines
    <3>2. uiScreenBlitSecondLine(b) = [b EXCEPT !.lcd = l]
      BY DEF uiScreenBlitSecondLine
    <3> HIDE DEF l
    <3> QED BY <2>3, <2>4, <3>1, <3>2
  <2>9. Does(uiScreenSetCursorPosition(b))
    <3> DEFINE l == lcdSetDdramAddress(b.lcd, b.ui.cursorPosition, "uiScreenTurnCursorOn")
    <3>1. MayBegin(b.lcd, l) /\ (l = b.lcd \/ l.callback = "uiScreenTurnCursorOn")
      BY <1>1, <1>6, <2>4
    <3>2. uiScreenSetCursorPosition(b) = IF b.ui.cursorPosition = NoCursor
                                            THEN uiScreenBlitDone(b) ELSE [b EXCEPT !.lcd = l]
      BY DEF uiScreenSetCursorPosition
    <3> HIDE DEF l
    <3> QED BY <1>4, <2>3, <2>4, <3>1, <3>2
  <2>10. Does(uiScreenTurnCursorOn(b))
    <3> DEFINE l == lcdSetCursor(b.lcd, TRUE, "uiScreenBlitDone")
    <3>1. MayBegin(b.lcd, l) /\ (l = b.lcd \/ l.callback = "uiScreenBlitDone")
      BY <1>1, <1>6, <2>4, AddressesAreAddresses DEF Lines
    <3>2. uiScreenTurnCursorOn(b) = [b EXCEPT !.lcd = l]
      BY DEF uiScreenTurnCursorOn
    <3> HIDE DEF l
    <3> QED BY <2>3, <2>4, <3>1, <3>2
  <2> QED BY <2>5, <2>6, <2>7, <2>8, <2>9, <2>10
<1> HIDE DEF Does
<1>8. ASSUME b.lcd.callback = "uiScreenBlitDone"
      PROVE  Does(CallBack(b))
  <2>1. CallBack(b) = uiScreenBlitDone(b)
    BY <1>8 DEF CallBack
  <2> QED BY <1>4, <2>1
<1>9. ASSUME b.lcd.callback # "uiScreenBlitDone", b.lcd.callback = NoCallback \/ ~b.ui.isLcdEnabled
      PROVE  Does(CallBack(b))
  <2>1. CallBack(b) = b
    BY <1>9 DEF CallBack
  <2> QED BY <1>3, <2>1
<1>10. ASSUME b.lcd.callback # "uiScreenBlitDone",
              ~(b.lcd.callback = NoCallback \/ ~b.ui.isLcdEnabled)
       PROVE  Does(CallBack(b))
  <2>1. CallBack(b) \in {uiScreenSetAddressToHome(b), uiScreenBlitFirstLine(b),
                         uiScreenGotoSecondLine(b), uiScreenBlitSecondLine(b),
                         uiScreenSetCursorPosition(b), uiScreenTurnCursorOn(b)}
    BY <1>1, <1>10 DEF CallBack, Callbacks
  <2> QED BY <1>7, <1>10, <2>1
<1>11. Does(CallBack(b))
  BY <1>8, <1>9, <1>10
<1> QED BY <1>2, <1>11 DEF Does
-----------------------------------------------------------------------------
(***************************************************************************)
(* What is drawn.                                                          *)
(***************************************************************************)
\* The LCD, rid of a wait perhaps, goes on as it was or waits for a transaction.
LEMMA TransactionsLit ==
    ASSUME LitInv, SameRails,
           uiState'.isScreenOn = uiState.isScreenOn,
           uiState'.isLcdEnabled = uiState.isLcdEnabled,
           fullyEnabled' = fullyEnabled, waking' = waking,
           NEW l, l.waits \in Seq(Waits), OneOfEach(l.waits),
           Configures(l.waits) <=> IsConfiguring, Transacts(l.waits) => IsTransacting,
           ~l.isBusy => ~Transacts(l.waits),
           \/ lcdState'.waits = l.waits /\ (lcdState'.isBusy <=> l.isBusy)
           \/ /\ Adds(l, lcdState') /\ ~Transacts(l.waits) /\ ~LcdIsUp
              /\ isSplashScheduled' => uiState.isScreenOn /\ ~IsStarting,
           "splash" \in due' => isSplashScheduled',
           isSplashScheduled' =>
               /\ isSplashScheduled /\ uiState'.isInputIgnored
               /\ ~uiState'.isButtonPressPreventedFromTurningOnScreen
    PROVE  ConfigureInv' /\ WakingInv' /\ TransactionInv' /\ (IsStarting' <=> IsStarting)
<1>1. TransactionInv
  BY DEF LitInv
<1>2. /\ OneOfEach(lcdState'.waits)
      /\ IsConfiguring' <=> IsConfiguring
      /\ ~lcdState'.isBusy => ~IsTransacting'
      /\ \/ IsTransacting' => IsTransacting
         \/ ~LcdIsUp /\ (isSplashScheduled' => uiState.isScreenOn /\ ~IsStarting)
  <2>1. CASE lcdState'.waits = l.waits /\ (lcdState'.isBusy <=> l.isBusy)
    BY <2>1 DEF IsConfiguring, IsTransacting
  <2>2. CASE /\ Adds(l, lcdState') /\ ~Transacts(l.waits) /\ ~LcdIsUp
             /\ isSplashScheduled' => uiState.isScreenOn /\ ~IsStarting
    <3>1. PICK wait \in Waits : ~IsConfigure(wait) /\ lcdState'.waits = Append(l.waits, wait)
      BY <2>2 DEF Adds
    <3>2. /\ Configures(lcdState'.waits) <=> Configures(l.waits)
          /\ OneOfEach(lcdState'.waits)
      BY <2>2, <3>1, WaitIsAdded
    <3>3. lcdState'.isBusy
      BY <2>2 DEF Adds
    <3> QED BY <2>2, <3>2, <3>3 DEF IsConfiguring
  <2> QED BY <2>1, <2>2
<1>3. ConfigureInv' /\ WakingInv' /\ (IsStarting' <=> IsStarting)
  BY <1>2, ConfigureKept
<1>4. TransactionInv'
  BY <1>1, <1>2, <1>3 DEF TransactionInv, SameRails
<1> QED BY <1>3, <1>4

\* A screen whose buffer has changed, and what the user interface has been told.
SameWaits(b) ==
    b \in States /\ b.lcd.waits = lcdState.waits /\ (b.lcd.isBusy <=> lcdState.isBusy)

LEMMA BlitBegins ==
    ASSUME NEW b, SameWaits(b), Blits(b)
    PROVE  /\ Drawn(b, Both')
           /\ \/ lcdState'.waits = lcdState.waits /\ (lcdState'.isBusy <=> lcdState.isBusy)
              \/ Begins(lcdState, lcdState') /\ b.ui.isLcdEnabled
<1> DEFINE c == uiScreenBlit(b)
<1>1. /\ Drawn(b, c) /\ MayBegin(b.lcd, c.lcd)
      /\ ~b.ui.isLcdEnabled => c.lcd = b.lcd
  BY ScreenBlitDoes DEF SameWaits
<1>2. Both' = c /\ lcdState' = c.lcd
  BY <1>1 DEF Blits, Becomes, Both, Drawn, States
<1> HIDE DEF c
<1>3. CASE lcdState'.waits = b.lcd.waits /\ lcdState'.isBusy = b.lcd.isBusy
  BY <1>1, <1>2, <1>3 DEF SameWaits
<1>4. CASE Begins(b.lcd, lcdState')
  <2>1. Begins(lcdState, lcdState')
    BY <1>4 DEF SameWaits, Begins, Adds
  <2>2. CASE b.ui.isLcdEnabled
    BY <1>1, <1>2, <2>1, <2>2
  <2>3. CASE ~b.ui.isLcdEnabled
    BY <1>1, <1>2, <2>3 DEF SameWaits
  <2> QED BY <2>2, <2>3
<1> QED BY <1>1, <1>2, <1>3, <1>4 DEF MayBegin

\* Nothing is begun in place of what goes on.
LEMMA BegunLit ==
    ASSUME LitInv, SameRails,
           uiState'.isScreenOn = uiState.isScreenOn,
           uiState'.isLcdEnabled = uiState.isLcdEnabled,
           fullyEnabled' = fullyEnabled, waking' = waking,
           \/ lcdState'.waits = lcdState.waits /\ (lcdState'.isBusy <=> lcdState.isBusy)
           \/ /\ Begins(lcdState, lcdState') /\ uiState.isLcdEnabled
              /\ isSplashScheduled' => uiState.isScreenOn /\ ~IsStarting,
           "splash" \in due' => isSplashScheduled',
           isSplashScheduled' =>
               /\ isSplashScheduled /\ uiState'.isInputIgnored
               /\ ~uiState'.isButtonPressPreventedFromTurningOnScreen
    PROVE  ConfigureInv' /\ WakingInv' /\ TransactionInv' /\ (IsStarting' <=> IsStarting)
<1>1. TransactionInv /\ ConfigureInv
  BY DEF LitInv
<1>2. /\ lcdState.waits \in Seq(Waits) /\ OneOfEach(lcdState.waits)
      /\ Configures(lcdState.waits) <=> IsConfiguring
      /\ Transacts(lcdState.waits) <=> IsTransacting
      /\ ~lcdState.isBusy => ~IsTransacting
  BY <1>1, LitTypes DEF IsConfiguring, IsTransacting, TransactionInv
<1>3. uiState.isLcdEnabled => ~LcdIsUp
  BY <1>1 DEF ConfigureInv
<1>4. Begins(lcdState, lcdState') => Adds(lcdState, lcdState') /\ ~IsTransacting
  BY <1>2 DEF Begins
<1> QED BY <1>2, <1>3, <1>4, TransactionsLit

\* What the user interface has been told, whatever it shows.
SameTold(ui, b) ==
    /\ b.ui.isScreenOn = ui.isScreenOn
    /\ b.ui.isLcdEnabled = ui.isLcdEnabled
    /\ b.ui.isScreenTimeoutDisabled = ui.isScreenTimeoutDisabled
    /\ b.ui.pressed = ui.pressed
    /\ b.ui.isButtonPressPreventedFromTurningOnScreen
         = ui.isButtonPressPreventedFromTurningOnScreen
    /\ b.ui.isInputIgnored = ui.isInputIgnored

LEMMA ShowsSame ==
    ASSUME NEW ui \in UiStates, lcdState \in LcdStates, NEW b \in Shows(ui)
    PROVE  SameWaits(b) /\ SameTold(ui, b)
<1> DEFINE buffer == lcdInitialised.isCurrent
<1>1. buffer \in Buffers
  BY DEF lcdInitialised, Buffers
<1> HIDE DEF buffer
<1>2. PICK cursor \in CursorPositions :
          b = [ui |-> [ui EXCEPT !.cursorPosition = cursor],
               lcd |-> [lcdState EXCEPT !.isCurrent = buffer]]
  BY DEF Shows, buffer
<1>3. b \in States
  BY <1>1, <1>2 DEF States, UiStates, LcdStates
<1>4. b.lcd.waits = lcdState.waits /\ (b.lcd.isBusy <=> lcdState.isBusy)
  BY <1>2 DEF LcdStates
<1>5. SameTold(ui, b)
  BY <1>2 DEF UiStates, SameTold
<1> QED BY <1>3, <1>4, <1>5 DEF SameWaits

LEMMA IncrementsSame ==
    ASSUME NEW ui \in UiStates, lcdState \in LcdStates, NEW b \in Increments(ui)
    PROVE  SameWaits(b) /\ SameTold(ui, b)
<1> DEFINE buffer == [lcdState.isCurrent EXCEPT ![2][1] = FALSE]
<1>1. buffer \in Buffers
  BY DEF LcdStates, Buffers
<1>2. b = [ui |-> ui, lcd |-> [lcdState EXCEPT !.isCurrent = buffer]]
  BY DEF Increments, LcdStates
<1> HIDE DEF buffer
<1>3. b \in States
  BY <1>1, <1>2 DEF States, LcdStates
<1>4. b.lcd.waits = lcdState.waits /\ (b.lcd.isBusy <=> lcdState.isBusy)
  BY <1>2 DEF LcdStates
<1>5. SameTold(ui, b)
  BY <1>2 DEF SameTold
<1> QED BY <1>3, <1>4, <1>5 DEF SameWaits

LEMMA ToldBlits ==
    ASSUME NEW ui, NEW b, SameWaits(b), SameTold(ui, b), Blits(b)
    PROVE  /\ SameTold(ui, Both')
           /\ \/ lcdState'.waits = lcdState.waits /\ (lcdState'.isBusy <=> lcdState.isBusy)
              \/ Begins(lcdState, lcdState') /\ ui.isLcdEnabled
<1>1. Drawn(b, Both')
  BY BlitBegins
<1>2. SameTold(ui, Both')
  BY <1>1 DEF Drawn, SameButDrawing, SameTold
<1>3. b.ui.isLcdEnabled = ui.isLcdEnabled
  BY DEF SameTold
<1> QED BY <1>2, <1>3, BlitBegins

LEMMA TheseAreBoth == Both'.ui = uiState' /\ Both'.lcd = lcdState'
BY DEF Both

LEMMA SplashEndsLit ==
    ASSUME LitInv, SplashEnds
    PROVE  LitInv' /\ (uiState.isScreenOn => uiState'.isScreenOn)
<1> DEFINE shown == [uiState EXCEPT !.isScreenTimeoutDisabled = FALSE]
           heard(ui) == IF scenario.isCalibrationRequired
                          THEN [ui EXCEPT !.isButtonPressPreventedFromTurningOnScreen = TRUE]
                          ELSE [ui EXCEPT !.isInputIgnored = FALSE]
<1>1. PICK b \in Shows(shown) : Blits([b EXCEPT !.ui = heard(@)])
  BY DEF SplashEnds
<1>2. /\ waking /\ waking' = waking /\ due' = due \ {"splash", "screen"} /\ "splash" \in due
      /\ ~isSplashScheduled' /\ screenTimeoutCount' = 0 /\ lasting' = TRUE
      /\ UNCHANGED <<regulatedWaits, mcuWaits, fullyEnabled, vregEnableCount>>
      /\ Publish(<<>>)
  BY DEF SplashEnds, uiScreenStartTimeout, nearSchedulerAddOrUpdateTimeout, supplyVars, vregVars
<1>3. IInv /\ IInv'
  BY SplashEndsKeeps DEF LitInv
<1>4. SameRails /\ QueueInv' /\ RailInv'
  <2>1. due' \subseteq due
    BY <1>2
  <2> QED BY <1>2, <1>3, <2>1, NothingPublished, QueueKeptByNothing, RailStill DEF LitInv
<1>5. shown \in UiStates /\ lcdState \in LcdStates
      /\ shown.isScreenOn = uiState.isScreenOn /\ shown.isLcdEnabled = uiState.isLcdEnabled
      /\ shown.isInputIgnored = uiState.isInputIgnored
      /\ shown.isButtonPressPreventedFromTurningOnScreen
           = uiState.isButtonPressPreventedFromTurningOnScreen
  BY LitTypes DEF UiStates
<1>6. uiState.isInputIgnored /\ ~uiState.isButtonPressPreventedFromTurningOnScreen
  BY <1>2 DEF LitInv, TransactionInv
<1> DEFINE c == [b EXCEPT !.ui = heard(@)]
<1>7. /\ SameWaits(c)
      /\ c.ui.isScreenOn = uiState.isScreenOn /\ c.ui.isLcdEnabled = uiState.isLcdEnabled
      /\ c.ui.isButtonPressPreventedFromTurningOnScreen => c.ui.isInputIgnored
  <2>1. SameWaits(b) /\ SameTold(shown, b)
    BY <1>5, ShowsSame
  <2>2. b \in States /\ b.ui \in UiStates
    BY <2>1 DEF SameWaits, States
  <2>3. CASE scenario.isCalibrationRequired
    BY <1>5, <1>6, <2>1, <2>2, <2>3 DEF SameWaits, SameTold, States, UiStates
  <2>4. CASE ~scenario.isCalibrationRequired
    BY <1>5, <1>6, <2>1, <2>2, <2>4 DEF SameWaits, SameTold, States, UiStates
  <2> QED BY <2>3, <2>4
<1>8. Blits(c)
  BY <1>1
<1> HIDE DEF c, shown
<1>9. /\ uiState'.isScreenOn = uiState.isScreenOn /\ uiState'.isLcdEnabled = uiState.isLcdEnabled
      /\ uiState'.isButtonPressPreventedFromTurningOnScreen => uiState'.isInputIgnored
      /\ \/ lcdState'.waits = lcdState.waits /\ (lcdState'.isBusy <=> lcdState.isBusy)
         \/ Begins(lcdState, lcdState') /\ uiState.isLcdEnabled
  <2>1. Drawn(c, Both')
    BY <1>7, <1>8, BlitBegins
  <2>2. \/ lcdState'.waits = lcdState.waits /\ (lcdState'.isBusy <=> lcdState.isBusy)
        \/ Begins(lcdState, lcdState') /\ c.ui.isLcdEnabled
    BY <1>7, <1>8, BlitBegins
  <2> QED BY <1>7, <2>1, <2>2 DEF Drawn, SameButDrawing, Both
<1>10. "splash" \notin due' /\ "screen" \notin due'
  BY <1>2
<1>11. ConfigureInv' /\ WakingInv' /\ TransactionInv'
  BY <1>2, <1>4, <1>9, <1>10, BegunLit
<1>12. StartInv' /\ DrawingInv'
  BY <1>2, <1>9, <1>10 DEF StartInv, DrawingInv
<1> QED BY <1>2, <1>3, <1>4, <1>9, <1>11, <1>12 DEF LitInv

LEMMA DoorCalibratedLit ==
    ASSUME LitInv, uiDoorOnCalibrated
    PROVE  LitInv' /\ (uiState.isScreenOn => uiState'.isScreenOn)
<1> DEFINE ui == [uiState EXCEPT !.isScreenTimeoutDisabled = FALSE]
<1>1. /\ Dispatching("DOOR_CALIBRATED") /\ Publish(<<>>)
      /\ screenTimeoutCount' = 0 /\ lasting' = TRUE
      /\ UNCHANGED <<waking, due, regulatedWaits, mcuWaits, fullyEnabled, vregEnableCount,
                     isSplashScheduled>>
  BY DEF uiDoorOnCalibrated, uiScreenStartTimeout, nearSchedulerAddOrUpdateTimeout, supplyVars,
         vregVars
<1>2. IInv /\ IInv' /\ due = {} /\ ~waking /\ queue # <<>> /\ Head(queue) = "DOOR_CALIBRATED"
  BY <1>1, DoorCalibratedKeeps, DispatchingIsAlone DEF LitInv
<1>3. Head(queue) \notin Rails
  BY <1>2 DEF Rails
<1>4. SameRails /\ QueueInv' /\ RailInv'
  BY <1>1, <1>2, <1>3, NothingPublished, QueueKeptByNothing, RailStill DEF LitInv
<1>5. PICK b \in Shows(ui) : Blits(b)
  BY DEF uiDoorOnCalibrated
<1>6. ui \in UiStates /\ lcdState \in LcdStates
      /\ ui.isScreenOn = uiState.isScreenOn /\ ui.isLcdEnabled = uiState.isLcdEnabled
      /\ ui.isInputIgnored = uiState.isInputIgnored
      /\ ui.isButtonPressPreventedFromTurningOnScreen
           = uiState.isButtonPressPreventedFromTurningOnScreen
  BY LitTypes DEF UiStates
<1> HIDE DEF ui
<1>7. /\ SameTold(ui, Both')
      /\ \/ lcdState'.waits = lcdState.waits /\ (lcdState'.isBusy <=> lcdState.isBusy)
         \/ Begins(lcdState, lcdState') /\ ui.isLcdEnabled
  BY <1>5, <1>6, ShowsSame, ToldBlits
<1>8. /\ uiState'.isScreenOn = uiState.isScreenOn /\ uiState'.isLcdEnabled = uiState.isLcdEnabled
      /\ uiState'.isInputIgnored = uiState.isInputIgnored
      /\ uiState'.isButtonPressPreventedFromTurningOnScreen
           = uiState.isButtonPressPreventedFromTurningOnScreen
  BY <1>6, <1>7, TheseAreBoth DEF SameTold
<1>9. ~LcdIsDown
  <2>1. queue \in Seq(Types) /\ NoneAfter(queue, "DOOR_CALIBRATED", "LCD_DISABLED")
    BY LitTypes DEF LitInv, QueueInv
  <2>2. ~Has(Tail(queue), "LCD_DISABLED")
    BY <1>2, <2>1, NoneAfterTail
  <2>3. ~Has(queue, "LCD_DISABLED")
    BY <1>2, <2>1, <2>2, HasTail
  <2> QED BY <2>3 DEF LcdIsDown, IsPending
<1>10. uiState.isLcdEnabled => uiState.isScreenOn /\ ~IsStarting
  BY <1>9 DEF LitInv, WakingInv, IsStarting
<1>11. isSplashScheduled => /\ uiState.isInputIgnored
                            /\ ~uiState.isButtonPressPreventedFromTurningOnScreen
  BY DEF LitInv, TransactionInv
<1>12. "splash" \notin due' /\ "screen" \notin due'
  BY <1>1, <1>2
<1>13. ConfigureInv' /\ WakingInv' /\ TransactionInv'
  BY <1>1, <1>4, <1>6, <1>7, <1>8, <1>10, <1>11, <1>12, BegunLit
<1>14. StartInv' /\ DrawingInv'
  BY <1>1, <1>8, <1>12 DEF LitInv, StartInv, DrawingInv
<1> QED BY <1>1, <1>2, <1>4, <1>8, <1>13, <1>14 DEF LitInv

\* The user interface is told of a button.
LEMMA BehavesSame ==
    ASSUME LitInv, NEW ui \in UiStates, NEW changes,
           \A b \in changes : SameWaits(b) /\ SameTold(ui, b), Behaves(ui, changes)
    PROVE  /\ SameTold(ui, Both')
           /\ \/ lcdState'.waits = lcdState.waits /\ (lcdState'.isBusy <=> lcdState.isBusy)
              \/ Begins(lcdState, lcdState') /\ ui.isLcdEnabled /\ ~ui.isInputIgnored
<1>1. CASE uiState' = ui /\ UNCHANGED lcdState
  BY <1>1, TheseAreBoth DEF SameTold
<1>2. CASE ~ui.isInputIgnored /\ \E b \in changes : Blits(b)
  BY <1>2, ToldBlits
<1> QED BY <1>1, <1>2 DEF Behaves

LEMMA ButtonEventsAreOthers ==
    \A button \in BothButtons :
        /\ PressedEvent[button] \in Types \ Rails
        /\ ReleasedEvent[button] \in Types \ Rails
BY ButtonEventsAre DEF BothButtons, Types, OtherTypes, Rails

LEMMA ReleasedLit ==
    ASSUME LitInv, NEW button \in BothButtons, uiInputOnButtonsReleased(button)
    PROVE  LitInv' /\ (uiState.isScreenOn => uiState'.isScreenOn)
<1> DEFINE released == uiState.pressed \ {button}
           isLast == ~uiState.isButtonPressPreventedFromTurningOnScreen /\ released = {}
           ui == [uiState EXCEPT !.pressed = released,
                                 !.isScreenTimeoutDisabled = @ /\ ~isLast]
           shown == IF button = "right" /\ ~ui.isButtonPressTurningOnScreen
                      THEN Shows(ui) ELSE {}
<1>1. /\ Dispatching(ReleasedEvent[button]) /\ Publish(<<>>)
      /\ UNCHANGED <<waking, due, regulatedWaits, mcuWaits, fullyEnabled, vregEnableCount,
                     isSplashScheduled>>
      /\ Behaves(ui, shown)
      /\ IF isLast THEN screenTimeoutCount' = 0 /\ lasting' = TRUE
         ELSE UNCHANGED <<screenTimeoutCount, lasting>>
  BY DEF uiInputOnButtonsReleased, uiScreenStartTimeout, nearSchedulerAddOrUpdateTimeout,
         timeoutVars, supplyVars, vregVars
<1>2. IInv /\ IInv' /\ due = {} /\ ~waking /\ queue # <<>> /\ Head(queue) \notin Rails
  BY <1>1, ReleasedKeeps, DispatchingIsAlone, ButtonEventsAreOthers DEF LitInv
<1>3. SameRails /\ QueueInv' /\ RailInv'
  BY <1>1, <1>2, NothingPublished, QueueKeptByNothing, RailStill DEF LitInv
<1>4. lcdState \in LcdStates /\ uiState \in UiStates
  BY LitTypes
<1>5. /\ ui \in UiStates /\ ui.pressed = released
      /\ ui.isScreenOn = uiState.isScreenOn /\ ui.isLcdEnabled = uiState.isLcdEnabled
      /\ ui.isInputIgnored = uiState.isInputIgnored
      /\ ui.isScreenTimeoutDisabled <=> uiState.isScreenTimeoutDisabled /\ ~isLast
      /\ ui.isButtonPressPreventedFromTurningOnScreen
           = uiState.isButtonPressPreventedFromTurningOnScreen
  <2>1. released \in Buttons
    BY <1>4 DEF UiStates, Buttons
  <2>2. isLast \in BOOLEAN
    OBVIOUS
  <2> HIDE DEF isLast, released
  <2> QED BY <1>4, <2>1, <2>2 DEF UiStates
<1>6. \A b \in shown : SameWaits(b) /\ SameTold(ui, b)
  BY <1>4, <1>5, ShowsSame
<1> HIDE DEF ui, shown
<1>7. /\ SameTold(ui, Both')
      /\ \/ lcdState'.waits = lcdState.waits /\ (lcdState'.isBusy <=> lcdState.isBusy)
         \/ Begins(lcdState, lcdState') /\ ui.isLcdEnabled /\ ~ui.isInputIgnored
  BY <1>1, <1>5, <1>6, BehavesSame
<1>8. /\ uiState'.isScreenOn = uiState.isScreenOn /\ uiState'.isLcdEnabled = uiState.isLcdEnabled
      /\ uiState'.isInputIgnored = uiState.isInputIgnored
      /\ uiState'.isScreenTimeoutDisabled <=> uiState.isScreenTimeoutDisabled /\ ~isLast
      /\ uiState'.isButtonPressPreventedFromTurningOnScreen
           = uiState.isButtonPressPreventedFromTurningOnScreen
      /\ uiState'.pressed = released
  BY <1>5, <1>7, TheseAreBoth DEF SameTold
<1>9. TransactionInv /\ ConfigureInv /\ StartInv /\ DrawingInv
  BY DEF LitInv
<1>10. isSplashScheduled => /\ uiState.isInputIgnored
                            /\ ~uiState.isButtonPressPreventedFromTurningOnScreen
  BY <1>9 DEF TransactionInv
<1>11. "splash" \notin due' /\ "screen" \notin due'
  BY <1>1, <1>2
<1>12. ConfigureInv' /\ WakingInv' /\ TransactionInv' /\ (IsStarting' <=> IsStarting)
  BY <1>1, <1>3, <1>5, <1>7, <1>8, <1>10, <1>11, BegunLit
<1>13. StartInv'
  BY <1>1, <1>8, <1>9, <1>11, <1>12 DEF StartInv
<1>14. DrawingInv'
  <2>1. CASE isLast
    BY <1>1, <1>8, <1>9, <1>11, <2>1 DEF DrawingInv
  <2>2. CASE ~isLast
    <3>1. IsQuiet' => uiState.isInputIgnored
      BY <1>8, <1>9, <2>2 DEF IsQuiet, DrawingInv
    <3>2. uiState.isInputIgnored => /\ lcdState'.waits = lcdState.waits
                                    /\ IsQuiet' => IsQuiet
      BY <1>5, <1>7, <1>8, <2>2 DEF IsQuiet
    <3>3. uiState.isInputIgnored => uiState'.isScreenBlitDirty = uiState.isScreenBlitDirty
      <4>1. uiState.isInputIgnored => uiState' = ui
        BY <1>1, <1>5 DEF Behaves
      <4>2. ui.isScreenBlitDirty = uiState.isScreenBlitDirty
        BY <1>4 DEF ui, UiStates
      <4> QED BY <4>1, <4>2
    <3> QED BY <1>1, <1>8, <1>9, <1>11, <2>2, <3>1, <3>2, <3>3 DEF DrawingInv
  <2> QED BY <2>1, <2>2
<1>15. lasting' \in BOOLEAN
  BY <1>1 DEF LitInv
<1> QED BY <1>2, <1>3, <1>8, <1>12, <1>13, <1>14, <1>15 DEF LitInv

LEMMA PressedLit ==
    ASSUME LitInv, NEW button \in BothButtons, uiInputOnButtonsPressed(button)
    PROVE  LitInv' /\ (uiState.isScreenOn => uiState'.isScreenOn)
<1> DEFINE ui == [uiState EXCEPT !.pressed = @ \cup {button}]
           awake == [ui EXCEPT !.isButtonPressTurningOnScreen = ~ScreenStaysOff(ui),
                               !.isScreenTimeoutDisabled = TRUE]
           increments == IF button = "left" THEN Increments(awake) ELSE {}
<1>1. /\ Dispatching(PressedEvent[button]) /\ Publish(<<>>)
      /\ UNCHANGED <<waking, due, isSplashScheduled, isMotorEnabled>>
      /\ \/ ~ScreenStaysOff(ui) /\ uiScreenOn(awake)
         \/ /\ Behaves(awake, increments)
            /\ UNCHANGED <<regulatedWaits, mcuWaits, fullyEnabled, vregEnableCount,
                           screenTimeoutCount, lasting>>
         \/ /\ ui.isButtonPressPreventedFromTurningOnScreen /\ uiState' = ui
            /\ UNCHANGED <<regulatedWaits, mcuWaits, fullyEnabled, vregEnableCount,
                           screenTimeoutCount, lasting, lcdState>>
  BY DEF uiInputOnButtonsPressed, supplyVars, vregVars, timeoutVars, Behaves
<1>2. IInv /\ IInv' /\ due = {} /\ ~waking /\ queue # <<>> /\ Head(queue) \notin Rails
  BY <1>1, PressedKeeps, DispatchingIsAlone, ButtonEventsAreOthers DEF LitInv
<1>3. lcdState \in LcdStates /\ uiState \in UiStates
  BY LitTypes
<1>4. /\ ui \in UiStates
      /\ ui.isScreenOn = uiState.isScreenOn /\ ui.isLcdEnabled = uiState.isLcdEnabled
      /\ ui.isInputIgnored = uiState.isInputIgnored
      /\ ui.isScreenTimeoutDisabled = uiState.isScreenTimeoutDisabled
      /\ ui.isScreenBlitDirty = uiState.isScreenBlitDirty
      /\ ui.isButtonPressPreventedFromTurningOnScreen
           = uiState.isButtonPressPreventedFromTurningOnScreen
  BY <1>3 DEF UiStates, Buttons
<1>5. /\ awake \in UiStates /\ awake.isScreenTimeoutDisabled
      /\ awake.isScreenOn = uiState.isScreenOn /\ awake.isLcdEnabled = uiState.isLcdEnabled
      /\ awake.isInputIgnored = uiState.isInputIgnored
      /\ awake.isButtonPressPreventedFromTurningOnScreen
           = uiState.isButtonPressPreventedFromTurningOnScreen
  <2>1. ScreenStaysOff(ui) \in BOOLEAN
    BY DEF ScreenStaysOff
  <2> HIDE DEF ui
  <2> QED BY <1>4, <2>1 DEF UiStates
<1>6. ScreenStaysOff(ui) <=> ui.isButtonPressPreventedFromTurningOnScreen \/ ui.isScreenOn
  BY DEF ScreenStaysOff
<1>7. \A b \in increments : SameWaits(b) /\ SameTold(awake, b)
  BY <1>3, <1>5, IncrementsSame
<1> HIDE DEF awake, ui, increments
<1>8. TransactionInv /\ ConfigureInv /\ StartInv /\ DrawingInv
  BY DEF LitInv
<1>9. isSplashScheduled => /\ uiState.isInputIgnored
                           /\ ~uiState.isButtonPressPreventedFromTurningOnScreen
  BY <1>8 DEF TransactionInv
<1>10. "splash" \notin due' /\ "screen" \notin due'
  BY <1>1, <1>2
<1>11. CASE ~ScreenStaysOff(ui) /\ uiScreenOn(awake)
  <2>1. ~uiState.isScreenOn /\ ~awake.isButtonPressPreventedFromTurningOnScreen
    BY <1>4, <1>5, <1>6, <1>11
  <2>2. isSplashScheduled' => uiState.isInputIgnored /\ ~IsTransacting
    BY <1>1, <1>8, <2>1 DEF TransactionInv
  <2>3. PressedEvent[button] \in Types /\ PressedEvent[button] \notin Rails
    BY ButtonEventsAreOthers
  <2>4. LitInv'
    BY <1>1, <1>2, <1>5, <1>11, <2>1, <2>2, <2>3, OnLit
  <2> QED BY <2>1, <2>4
<1>12. CASE /\ Behaves(awake, increments)
            /\ UNCHANGED <<regulatedWaits, mcuWaits, fullyEnabled, vregEnableCount,
                           screenTimeoutCount, lasting>>
  <2>1. SameRails /\ QueueInv' /\ RailInv'
    BY <1>1, <1>2, <1>12, NothingPublished, QueueKeptByNothing, RailStill DEF LitInv
  <2>2. /\ SameTold(awake, Both')
        /\ \/ lcdState'.waits = lcdState.waits /\ (lcdState'.isBusy <=> lcdState.isBusy)
           \/ Begins(lcdState, lcdState') /\ awake.isLcdEnabled /\ ~awake.isInputIgnored
    BY <1>5, <1>7, <1>12, BehavesSame
  <2>3. /\ uiState'.isScreenOn = uiState.isScreenOn
        /\ uiState'.isLcdEnabled = uiState.isLcdEnabled
        /\ uiState'.isInputIgnored = uiState.isInputIgnored
        /\ uiState'.isScreenTimeoutDisabled
        /\ uiState'.isButtonPressPreventedFromTurningOnScreen
             = uiState.isButtonPressPreventedFromTurningOnScreen
    BY <1>5, <2>2, TheseAreBoth DEF SameTold
  <2>4. ConfigureInv' /\ WakingInv' /\ TransactionInv' /\ (IsStarting' <=> IsStarting)
    BY <1>1, <1>5, <1>9, <1>10, <1>12, <2>1, <2>2, <2>3, BegunLit
  <2>5. StartInv'
    BY <1>8, <1>10, <1>12, <2>3, <2>4 DEF StartInv
  <2>6. DrawingInv'
    BY <1>8, <1>10, <2>3 DEF DrawingInv, IsQuiet
  <2>7. lasting' \in BOOLEAN
    BY <1>12 DEF LitInv
  <2> QED BY <1>2, <2>1, <2>3, <2>4, <2>5, <2>6, <2>7 DEF LitInv
<1>13. CASE /\ ui.isButtonPressPreventedFromTurningOnScreen /\ uiState' = ui
            /\ UNCHANGED <<regulatedWaits, mcuWaits, fullyEnabled, vregEnableCount,
                           screenTimeoutCount, lasting, lcdState>>
  <2>1. SameRails /\ QueueInv' /\ RailInv'
    BY <1>1, <1>2, <1>13, NothingPublished, QueueKeptByNothing, RailStill DEF LitInv
  <2>2. ConfigureInv' /\ WakingInv' /\ TransactionInv' /\ (IsStarting' <=> IsStarting)
    BY <1>1, <1>4, <1>9, <1>10, <1>13, <2>1, BegunLit
  <2>3. StartInv'
    BY <1>4, <1>8, <1>10, <1>13, <2>2 DEF StartInv
  <2>4. uiState.isInputIgnored /\ (IsQuiet' => IsQuiet)
    BY <1>4, <1>8, <1>13 DEF IsQuiet, DrawingInv
  <2>5. DrawingInv'
    BY <1>4, <1>8, <1>10, <1>13, <2>4 DEF DrawingInv
  <2>6. lasting' \in BOOLEAN
    BY <1>13 DEF LitInv
  <2> QED BY <1>2, <1>4, <1>13, <2>1, <2>2, <2>3, <2>5, <2>6 DEF LitInv
<1> QED BY <1>1, <1>11, <1>12, <1>13

\* The LCD has been configured, and what the screen has to show is drawn.
LEMMA LcdEnabledLit ==
    ASSUME LitInv, uiOnLcdEnabled
    PROVE  LitInv' /\ (uiState.isScreenOn => uiState'.isScreenOn)
<1> DEFINE b == [Both EXCEPT !.ui.isLcdEnabled = TRUE]
<1>1. /\ Dispatching("LCD_ENABLED") /\ Publish(<<>>) /\ Blits(b)
      /\ UNCHANGED <<waking, due, regulatedWaits, mcuWaits, fullyEnabled, vregEnableCount,
                     screenTimeoutCount, lasting, isSplashScheduled>>
  BY DEF uiOnLcdEnabled, supplyVars, vregVars, timeoutVars
<1>2. IInv /\ IInv' /\ due = {} /\ ~waking /\ queue # <<>> /\ Head(queue) = "LCD_ENABLED"
  BY <1>1, LcdEventsKeep, DispatchingIsAlone DEF LitInv
<1>3. QueueInv' /\ RailInv'
  BY <1>1, <1>2, QueueKeptByNothing, RailStill DEF LitInv
<1>4. lcdState \in LcdStates /\ uiState \in UiStates /\ queue \in Seq(Types)
      /\ lcdState.waits \in Seq(Waits)
  BY LitTypes
<1>5. LcdIsUp /\ ~LcdIsUp' /\ (RailIsUp' <=> RailIsUp) /\ (LcdIsDown' <=> LcdIsDown)
  <2>1. queue' = Tail(queue)
    <3>1. Tail(queue) \in Seq(Types)
      BY <1>2, <1>4
    <3>2. queue' = Tail(queue) \o <<>>
      BY <1>1, <1>2 DEF Publish, Rest
    <3> QED BY <3>1, <3>2
  <2>2. NoneAfter(queue, "LCD_ENABLED", "LCD_ENABLED")
    BY DEF LitInv, QueueInv
  <2>3. ~Has(Tail(queue), "LCD_ENABLED")
    BY <1>2, <1>4, <2>2, NoneAfterTail
  <2>4. Has(queue, "LCD_ENABLED")
    <3>1. 1 \in 1 .. Len(queue) /\ queue[1] = Head(queue)
      BY <1>2, <1>4
    <3> QED BY <1>2, <3>1 DEF Has
  <2>5. ASSUME NEW type, type # "LCD_ENABLED"
        PROVE  Has(Tail(queue), type) <=> Has(queue, type)
    BY <1>2, <1>4, <2>5, HasTail
  <2> QED BY <2>1, <2>3, <2>4, <2>5 DEF LcdIsUp, RailIsUp, LcdIsDown, IsPending
<1>6. /\ uiState.isScreenOn /\ fullyEnabled /\ ~IsConfiguring /\ ~RailIsUp /\ ~LcdIsDown
      /\ ~uiState.isLcdEnabled /\ IsStarting /\ ~IsTransacting
  BY <1>5 DEF LitInv, ConfigureInv, TransactionInv, IsStarting
<1>7. SameWaits(b) /\ b.ui.isLcdEnabled /\ b.ui.isScreenOn = uiState.isScreenOn
      /\ b.ui.isScreenTimeoutDisabled = uiState.isScreenTimeoutDisabled
      /\ b.ui.pressed = uiState.pressed
      /\ b.ui.isInputIgnored = uiState.isInputIgnored
      /\ b.ui.isButtonPressPreventedFromTurningOnScreen
           = uiState.isButtonPressPreventedFromTurningOnScreen
  <2>1. b \in States
    BY <1>4 DEF Both, States, UiStates
  <2>2. b.lcd = lcdState /\ b.ui = [uiState EXCEPT !.isLcdEnabled = TRUE]
    BY DEF Both
  <2>3. SameWaits(b)
    BY <2>1, <2>2 DEF SameWaits
  <2> HIDE DEF b
  <2> QED BY <1>4, <2>2, <2>3 DEF UiStates
<1> HIDE DEF b
<1>8. Drawn(b, Both')
      /\ \/ lcdState'.waits = lcdState.waits /\ (lcdState'.isBusy <=> lcdState.isBusy)
         \/ Begins(lcdState, lcdState')
  BY <1>1, <1>7, BlitBegins
<1>9. /\ uiState'.isLcdEnabled /\ uiState'.isScreenOn
      /\ uiState'.isScreenTimeoutDisabled = uiState.isScreenTimeoutDisabled
      /\ uiState'.pressed = uiState.pressed
      /\ uiState'.isInputIgnored = uiState.isInputIgnored
      /\ uiState'.isButtonPressPreventedFromTurningOnScreen
           = uiState.isButtonPressPreventedFromTurningOnScreen
  BY <1>6, <1>7, <1>8, TheseAreBoth DEF Drawn, SameButDrawing
<1>10. ~IsStarting' /\ ~waking'
  BY <1>1, <1>2, <1>5, <1>6, <1>9 DEF IsStarting
<1>11. ~IsConfiguring' /\ OneOfEach(lcdState'.waits) /\ (~lcdState'.isBusy => ~IsTransacting')
  <2>1. OneOfEach(lcdState.waits) /\ (~lcdState.isBusy => ~IsTransacting)
    BY DEF LitInv, TransactionInv
  <2>2. CASE lcdState'.waits = lcdState.waits /\ (lcdState'.isBusy <=> lcdState.isBusy)
    BY <1>6, <2>1, <2>2 DEF IsConfiguring, IsTransacting
  <2>3. CASE Begins(lcdState, lcdState')
    <3>1. PICK wait \in Waits : /\ ~IsConfigure(wait)
                                /\ lcdState'.waits = Append(lcdState.waits, wait)
      BY <2>3 DEF Begins, Adds
    <3>2. lcdState'.isBusy
      BY <2>3 DEF Begins, Adds
    <3> QED BY <1>4, <1>6, <2>1, <3>1, <3>2, WaitIsAdded DEF IsConfiguring, IsTransacting
  <2> QED BY <1>8, <2>2, <2>3
<1>12. ConfigureInv'
  BY <1>1, <1>5, <1>6, <1>9, <1>10, <1>11 DEF ConfigureInv
<1>13. WakingInv' /\ StartInv'
  BY <1>9, <1>10 DEF WakingInv, StartInv
<1>14. TransactionInv'
  BY <1>1, <1>2, <1>5, <1>9, <1>10, <1>11 DEF LitInv, TransactionInv
<1>15. DrawingInv'
  <2>1. IsQuiet' => screenTimeoutCount = 0 /\ lasting
    BY <1>6, <1>9 DEF LitInv, StartInv, IsQuiet
  <2>2. uiState'.isButtonPressPreventedFromTurningOnScreen => uiState'.isInputIgnored
    BY <1>9 DEF LitInv, DrawingInv
  <2> QED BY <1>1, <1>2, <2>1, <2>2 DEF DrawingInv
<1>16. lasting' \in BOOLEAN
  BY <1>1 DEF LitInv
<1> QED BY <1>2, <1>3, <1>9, <1>12, <1>13, <1>14, <1>15, <1>16 DEF LitInv
-----------------------------------------------------------------------------
(***************************************************************************)
(* One of the LCD's waits ends.                                            *)
(***************************************************************************)
\* The user interface and the LCD with a wait of the LCD's gone.
Freed(i) == [Both EXCEPT !.lcd.waits = RemoveAt(@, i)]

LEMMA FreedIs ==
    ASSUME LitInv, NEW i \in 1 .. Len(lcdState.waits)
    PROVE  /\ Freed(i) \in States /\ Freed(i).ui = uiState
           /\ Freed(i).lcd.waits = RemoveAt(lcdState.waits, i)
           /\ (Freed(i).lcd.isBusy <=> lcdState.isBusy)
           /\ Freed(i).lcd.callback = lcdState.callback
           /\ lcdState.waits[i] \in Waits /\ lcdState.waits # <<>>
<1>1. lcdState.waits \in Seq(Waits) /\ uiState \in UiStates /\ lcdState \in LcdStates
  BY LitTypes
<1>2. RemoveAt(lcdState.waits, i) \in Seq(Waits)
  BY <1>1, RemoveAtRemoves
<1> DEFINE left == RemoveAt(lcdState.waits, i)
<1>3. Freed(i) = [ui |-> uiState, lcd |-> [lcdState EXCEPT !.waits = left]]
  BY DEF Freed, Both
<1>4. lcdState.waits[i] \in Waits /\ lcdState.waits # <<>>
  BY <1>1
<1> HIDE DEF left
<1>5. left \in Seq(Waits)
  BY <1>2 DEF left
<1>6. Freed(i) \in States /\ Freed(i).ui = uiState
  BY <1>1, <1>3, <1>5 DEF States, LcdStates
<1>7. Freed(i).lcd.waits = left /\ (Freed(i).lcd.isBusy <=> lcdState.isBusy)
      /\ Freed(i).lcd.callback = lcdState.callback
  BY <1>1, <1>3 DEF LcdStates
<1> QED BY <1>4, <1>6, <1>7 DEF left

\* A step of the configuration: the LCD is configured on, or that is told of.
LEMMA ConfigureEndsLit ==
    ASSUME LitInv, LcdWaitEnds, NEW i \in 1 .. Len(lcdState.waits), Outlasts(i),
           IsConfigure(lcdState.waits[i]),
           Becomes([Freed(i) EXCEPT
                        !.lcd = lcdConfigureStateMachine(@, lcdState.waits[i].at)]),
           Publish(lcdConfigureStateMachineEvents(lcdState.waits[i].at))
    PROVE  LitInv'
<1> DEFINE wait == lcdState.waits[i]
           left == RemoveAt(lcdState.waits, i)
           l == Freed(i).lcd
<1>1. IInv /\ IInv' /\ waking /\ waking' = waking /\ due' = due \ {"lcd"}
      /\ lasting' = (lasting /\ ~IsRedrawing)
      /\ UNCHANGED <<regulatedWaits, mcuWaits, fullyEnabled, vregEnableCount,
                     screenTimeoutCount, isSplashScheduled>>
  BY LcdWaitEndsKeeps DEF LitInv, LcdWaitEnds, Calling, supplyVars, vregVars
<1>2. /\ Freed(i) \in States /\ l \in LcdStates /\ Freed(i).ui = uiState
      /\ l.waits = left /\ (l.isBusy <=> lcdState.isBusy) /\ l.callback = lcdState.callback
      /\ wait \in Waits /\ lcdState.waits # <<>> /\ lcdState.waits \in Seq(Waits)
  BY FreedIs, LcdIsState, LitTypes
<1>3. /\ left \in Seq(Waits) /\ OneOfEach(left) /\ ~Configures(left)
      /\ Transacts(left) <=> IsTransacting
      /\ IsConfiguring
  <2>1. OneOfEach(lcdState.waits)
    BY DEF LitInv, TransactionInv
  <2>2. IsConfiguring
    BY DEF IsConfiguring, Configures
  <2> QED BY <1>2, <2>1, <2>2, WaitIsRemoved DEF IsTransacting
<1>4. /\ uiState' = uiState /\ lcdState' = lcdConfigureStateMachine(l, wait.at)
  BY <1>2 DEF Becomes, States
<1>5. /\ uiState.isScreenOn /\ fullyEnabled /\ ~LcdIsUp /\ ~RailIsUp /\ ~LcdIsDown
      /\ ~uiState.isLcdEnabled /\ IsStarting
  BY <1>1, <1>3 DEF LitInv, ConfigureInv, WakingInv, IsStarting
<1>6. RailInv'
  <2>1. due' \subseteq due
    BY <1>1
  <2> QED BY <1>1, <2>1, RailStill DEF LitInv
<1>7. IsStarting => lasting /\ "screen" \notin due
                    /\ (uiState.isScreenTimeoutDisabled \/ screenTimeoutCount = 0)
  BY DEF LitInv, StartInv
<1>8. DrawingInv /\ TransactionInv
  BY DEF LitInv
<1> HIDE DEF l, wait, left
<1>9. CASE wait.at # LastStep
  <2>1. Publish(<<>>)
    BY <1>9 DEF lcdConfigureStateMachineEvents, wait
  <2>2. SameRails /\ QueueInv'
    BY <1>1, <2>1, NothingPublished, QueueKeptByNothing
  <2> DEFINE configured ==
          CASE wait.at = 0 -> [l EXCEPT !.isDisplayOn = FALSE]
            [] wait.at = 1 -> [l EXCEPT !.isCurrent = lcdInitialised.isCurrent,
                                        !.address = <<1, 1>>]
            [] wait.at = 2 -> [l EXCEPT !.isDisplayOn = TRUE, !.isCursorOn = FALSE]
            [] OTHER -> l
             written == Written(l, configured)
  <2>3. lcdState' = AddWait(written, ConfigureWait(wait.at + 1))
    BY <1>4, <1>9 DEF lcdConfigureStateMachine
  <2>4. /\ configured.waits = left /\ (configured.isBusy <=> lcdState.isBusy)
        /\ configured.callback = lcdState.callback
        /\ configured = [configured EXCEPT !.waits = configured.waits]
    <3> DEFINE Same(m) == /\ m.waits = left /\ (m.isBusy <=> lcdState.isBusy)
                          /\ m.callback = lcdState.callback
                          /\ m = [m EXCEPT !.waits = m.waits]
    <3>1. Same(l)
      BY <1>2 DEF LcdStates
    <3>2. Same([l EXCEPT !.isDisplayOn = FALSE])
      BY <1>2 DEF LcdStates
    <3>3. Same([l EXCEPT !.isCurrent = lcdInitialised.isCurrent, !.address = <<1, 1>>])
      BY <1>2 DEF LcdStates
    <3>4. Same([l EXCEPT !.isDisplayOn = TRUE, !.isCursorOn = FALSE])
      BY <1>2 DEF LcdStates
    <3> HIDE DEF Same
    <3>5. Same(configured)
      BY <3>1, <3>2, <3>3, <3>4
    <3> QED BY <3>5 DEF Same
  <2> HIDE DEF configured
  <2>5. /\ written.waits = left /\ (written.isBusy <=> lcdState.isBusy)
        /\ written.callback = lcdState.callback
        /\ written = [written EXCEPT !.waits = written.waits]
    BY <1>2, <2>4 DEF Written, LcdStates
  <2> HIDE DEF written
  <2>6. /\ lcdState'.waits = Append(left, ConfigureWait(wait.at + 1))
        /\ (lcdState'.isBusy <=> lcdState.isBusy)
        /\ lcdState'.callback = lcdState.callback
    BY <2>3, <2>5 DEF AddWait
  <2>7. ConfigureWait(wait.at + 1) \in Waits /\ IsConfigure(ConfigureWait(wait.at + 1))
    BY <1>2, WaitsAreWaits DEF Waits, ConfigureWait, IsConfigure
  <2>8. /\ IsConfiguring' /\ (IsTransacting' <=> IsTransacting) /\ OneOfEach(lcdState'.waits)
    BY <1>3, <2>6, <2>7, WaitIsAdded DEF IsConfiguring, IsTransacting
  <2>9. ConfigureInv' /\ WakingInv' /\ (IsStarting' <=> IsStarting)
    BY <1>1, <1>3, <1>4, <2>2, <2>8, ConfigureKept
  <2>10. lasting' = lasting
    <3>1. ~IsRedrawing
      BY <2>6 DEF IsRedrawing
    <3>2. lasting \in BOOLEAN
      BY DEF LitInv
    <3> QED BY <1>1, <3>1, <3>2
  <2>11. StartInv'
    <3>1. "screen" \notin due' \/ "screen" \in due
      BY <1>1
    <3>2. /\ lasting' <=> lasting
          /\ screenTimeoutCount' = screenTimeoutCount
      BY <1>1, <2>10
    <3> QED BY <1>4, <1>7, <2>9, <3>1, <3>2 DEF StartInv
  <2>12. DrawingInv'
    BY <1>1, <1>2, <1>4, <1>8, <2>10 DEF DrawingInv, IsQuiet
  <2>13. TransactionInv'
    BY <1>1, <1>4, <1>8, <2>2, <2>6, <2>8, <2>9 DEF TransactionInv, SameRails
  <2>14. lasting' \in BOOLEAN
    BY <2>10 DEF LitInv
  <2> QED BY <1>1, <1>6, <2>2, <2>9, <2>11, <2>12, <2>13, <2>14 DEF LitInv
<1>10. CASE wait.at = LastStep
  <2>1. Publish(<<"LCD_ENABLED">>)
    BY <1>10 DEF lcdConfigureStateMachineEvents, wait
  <2>2. "LCD_ENABLED" \in Types
    BY DEF Types, OtherTypes
  <2>3. QueueInv'
    BY <1>1, <1>5, <2>1, <2>2, QueueKeptByOne
  <2>4. LcdIsUp' /\ ~RailIsUp' /\ ~LcdIsDown'
    <3>1. \A type : IsPending(type)' <=> IsPending(type) \/ type = "LCD_ENABLED"
      <4>1. /\ <<"LCD_ENABLED">> \in Seq(Types)
            /\ \A type : Has(<<"LCD_ENABLED">>, type) <=> type = "LCD_ENABLED"
        BY <2>2, HasFew
      <4> QED BY <1>1, <2>1, <4>1, PublishKeeps DEF IInv
    <3> QED BY <1>5, <3>1 DEF RailIsUp, LcdIsUp, LcdIsDown
  <2>5. lcdState' = [l EXCEPT !.isBusy = FALSE]
    BY <1>4, <1>10 DEF lcdConfigureStateMachine
  <2>6. lcdState'.waits = left /\ lcdState'.callback = lcdState.callback
    BY <1>2, <2>5 DEF LcdStates
  <2>7. ~IsTransacting
    <3>1. \A j \in 1 .. Len(lcdState.waits) : IsConfigure(lcdState.waits[j])
      BY <1>10 DEF Outlasts, IsConfigure, wait
    <3> QED BY <3>1 DEF IsTransacting, Transacts
  <2>8. lcdState'.waits = <<>> /\ ~IsConfiguring' /\ ~IsTransacting'
    BY <1>3, <2>6, <2>7, NoWaits DEF IsConfiguring, IsTransacting
  <2>9. IsStarting'
    BY <1>4, <1>5 DEF IsStarting
  <2>10. ConfigureInv'
    BY <1>1, <1>4, <1>5, <2>4, <2>8, <2>9 DEF ConfigureInv
  <2>11. WakingInv'
    BY <1>4, <1>5, <2>4 DEF WakingInv
  <2>12. lasting' = lasting
    <3>1. ~IsRedrawing
      BY <2>6 DEF IsRedrawing
    <3>2. lasting \in BOOLEAN
      BY DEF LitInv
    <3> QED BY <1>1, <3>1, <3>2
  <2>13. StartInv'
    <3>1. "screen" \notin due' \/ "screen" \in due
      BY <1>1
    <3>2. /\ lasting' <=> lasting
          /\ screenTimeoutCount' = screenTimeoutCount
      BY <1>1, <2>12
    <3> QED BY <1>4, <1>5, <1>7, <3>1, <3>2 DEF StartInv
  <2>14. DrawingInv'
    BY <1>1, <1>4, <1>8, <2>8, <2>12 DEF DrawingInv
  <2>15. TransactionInv'
    <3>1. OneOfEach(lcdState'.waits)
      BY <1>3, <2>6
    <3> QED BY <1>1, <1>4, <1>8, <2>8, <3>1 DEF TransactionInv
  <2>16. lasting' \in BOOLEAN
    BY <2>12 DEF LitInv
  <2> QED BY <1>1, <1>6, <2>3, <2>10, <2>11, <2>13, <2>14, <2>15, <2>16 DEF LitInv
<1> QED BY <1>9, <1>10

\* What is called back, or written, is a transaction that the LCD is rid of.
LEMMA TransactionEndsLit ==
    ASSUME LitInv, LcdWaitEnds, NEW i \in 1 .. Len(lcdState.waits),
           ~IsConfigure(lcdState.waits[i]), Publish(<<>>),
           Drawn(Freed(i), Both'),
           \/ MayBegin([Freed(i) EXCEPT !.lcd.isBusy = FALSE].lcd, lcdState')
           \/ Adds(Freed(i).lcd, lcdState'),
           uiState'.isScreenBlitDirty => uiState.isScreenBlitDirty,
           IsRedrawing => /\ uiState.isScreenBlitDirty /\ uiState.isLcdEnabled
                          /\ ~uiState'.isScreenBlitDirty
    PROVE  LitInv'
<1> DEFINE wait == lcdState.waits[i]
           left == RemoveAt(lcdState.waits, i)
           b == Freed(i)
           l == b.lcd
           idle == [b EXCEPT !.lcd.isBusy = FALSE]
<1>1. IInv /\ IInv' /\ waking /\ waking' = waking /\ due' = due \ {"lcd"}
      /\ lasting' = (lasting /\ ~IsRedrawing)
      /\ UNCHANGED <<regulatedWaits, mcuWaits, fullyEnabled, vregEnableCount,
                     screenTimeoutCount, isSplashScheduled>>
  BY LcdWaitEndsKeeps DEF LitInv, LcdWaitEnds, Calling, supplyVars, vregVars
<1>2. /\ b \in States /\ l \in LcdStates /\ b.ui = uiState
      /\ l.waits = left /\ (l.isBusy <=> lcdState.isBusy)
      /\ wait \in Waits /\ lcdState.waits # <<>> /\ lcdState.waits \in Seq(Waits)
      /\ uiState \in UiStates /\ lasting \in BOOLEAN
  BY FreedIs, LcdIsState, LitTypes DEF LitInv
<1>3. /\ left \in Seq(Waits) /\ OneOfEach(left)
      /\ Configures(left) <=> IsConfiguring
      /\ ~Transacts(left) /\ IsTransacting /\ lcdState.isBusy
  <2>1. OneOfEach(lcdState.waits) /\ (~lcdState.isBusy => ~IsTransacting)
    BY DEF LitInv, TransactionInv
  <2>2. IsTransacting
    BY DEF IsTransacting, Transacts
  <2> QED BY <1>2, <2>1, <2>2, WaitIsRemoved DEF IsConfiguring
<1>4. /\ uiState'.isScreenOn = uiState.isScreenOn /\ uiState'.isLcdEnabled = uiState.isLcdEnabled
      /\ uiState'.isScreenTimeoutDisabled = uiState.isScreenTimeoutDisabled
      /\ uiState'.pressed = uiState.pressed
      /\ uiState'.isInputIgnored = uiState.isInputIgnored
      /\ uiState'.isButtonPressPreventedFromTurningOnScreen
           = uiState.isButtonPressPreventedFromTurningOnScreen
  BY <1>2, TheseAreBoth DEF Drawn, SameButDrawing
<1>5. SameRails /\ QueueInv' /\ RailInv'
  <2>1. due' \subseteq due
    BY <1>1
  <2> QED BY <1>1, <2>1, NothingPublished, QueueKeptByNothing, RailStill DEF LitInv
<1>6. ~LcdIsUp /\ (isSplashScheduled => uiState.isScreenOn /\ ~IsStarting)
  BY <1>3 DEF LitInv, TransactionInv
<1>7. /\ idle.lcd.waits = left /\ ~idle.lcd.isBusy
  BY <1>2 DEF States, LcdStates
<1> HIDE DEF wait, left, b, idle
<1>8. ConfigureInv' /\ WakingInv' /\ TransactionInv' /\ (IsStarting' <=> IsStarting)
  <2>1. "splash" \in due' => isSplashScheduled'
    BY <1>1 DEF LitInv, TransactionInv
  <2>2. isSplashScheduled' =>
            /\ isSplashScheduled /\ uiState'.isInputIgnored
            /\ ~uiState'.isButtonPressPreventedFromTurningOnScreen
    BY <1>1, <1>4 DEF LitInv, TransactionInv
  <2>3. CASE MayBegin(idle.lcd, lcdState')
    <3> DEFINE m == idle.lcd
    <3>1. /\ m.waits \in Seq(Waits) /\ OneOfEach(m.waits)
          /\ Configures(m.waits) <=> IsConfiguring
          /\ ~Transacts(m.waits) /\ ~m.isBusy
      BY <1>3, <1>7
    <3> HIDE DEF m
    <3>2. \/ lcdState'.waits = m.waits /\ (lcdState'.isBusy <=> m.isBusy)
          \/ Adds(m, lcdState')
      BY <2>3 DEF MayBegin, Begins, m
    <3> QED BY <1>1, <1>3, <1>4, <1>5, <1>6, <2>1, <2>2, <3>1, <3>2, TransactionsLit
  <2>4. CASE Adds(l, lcdState')
    BY <1>1, <1>2, <1>3, <1>4, <1>5, <1>6, <2>1, <2>2, <2>4, TransactionsLit
  <2> QED BY <2>3, <2>4 DEF idle, b
<1>9. IsStarting => ~uiState.isLcdEnabled
  BY <1>1 DEF LitInv, WakingInv, IsStarting
<1>10. ~IsRedrawing => lasting' = lasting
  BY <1>1, <1>2
<1>11. StartInv'
  BY <1>1, <1>4, <1>8, <1>9, <1>10 DEF LitInv, StartInv
<1>12. DrawingInv'
  <2>1. (IsQuiet' <=> IsQuiet) /\ DrawingInv
    BY <1>4 DEF IsQuiet, LitInv
  <2>2. CASE IsRedrawing
    BY <1>1, <1>2, <1>4, <2>1, <2>2 DEF DrawingInv
  <2>3. CASE ~IsRedrawing
    BY <1>1, <1>2, <1>4, <1>10, <2>1, <2>3 DEF DrawingInv
  <2> QED BY <2>2, <2>3
<1>13. lasting' \in BOOLEAN
  BY <1>1
<1> QED BY <1>1, <1>5, <1>8, <1>11, <1>12, <1>13 DEF LitInv

LEMMA CalledBackLit ==
    ASSUME LitInv, LcdWaitEnds, NEW i \in 1 .. Len(lcdState.waits),
           ~IsConfigure(lcdState.waits[i]), Publish(<<>>),
           Becomes(lcdTransactionCompleted(Freed(i)))
    PROVE  LitInv'
<1> DEFINE b == Freed(i)
           idle == [b EXCEPT !.lcd.isBusy = FALSE]
           c == CallBack(idle)
<1>1. /\ b \in States /\ b.ui = uiState /\ b.lcd.callback = lcdState.callback
  BY FreedIs
<1>2. Drawn(b, c)
  BY <1>1, TransactionCompletedDraws DEF lcdTransactionCompleted
<1>3. Both' = c /\ lcdState' = c.lcd /\ uiState' = c.ui
  BY <1>2 DEF lcdTransactionCompleted, Becomes, Both, Drawn, States
<1>4. /\ idle \in States /\ idle.ui = uiState /\ idle.lcd.callback = lcdState.callback
  BY <1>1 DEF States, LcdStates
<1> HIDE DEF idle, c
<1>5. /\ MayBegin(idle.lcd, c.lcd)
      /\ c.ui.isScreenBlitDirty => uiState.isScreenBlitDirty
      /\ /\ lcdState.callback # "uiScreenSetAddressToHome"
         /\ c.lcd.callback = "uiScreenSetAddressToHome"
         => uiState.isScreenBlitDirty /\ uiState.isLcdEnabled /\ ~c.ui.isScreenBlitDirty
  BY <1>4, CallBackDoes DEF c
<1>6. IsRedrawing => /\ uiState.isScreenBlitDirty /\ uiState.isLcdEnabled
                     /\ ~uiState'.isScreenBlitDirty
  BY <1>3, <1>5 DEF IsRedrawing
<1>7. MayBegin(idle.lcd, lcdState') /\ (uiState'.isScreenBlitDirty => uiState.isScreenBlitDirty)
      /\ Drawn(b, Both')
  BY <1>2, <1>3, <1>5
<1> QED BY <1>6, <1>7, TransactionEndsLit DEF idle

LEMMA WrittenLit ==
    ASSUME LitInv, LcdWaitEnds, NEW i \in 1 .. Len(lcdState.waits),
           ~IsConfigure(lcdState.waits[i]), Publish(<<>>),
           Becomes([Freed(i) EXCEPT !.lcd = lcdWriteCharacter(@, lcdState.waits[i].line,
                                                                 lcdState.waits[i].at)])
    PROVE  LitInv'
<1> DEFINE b == Freed(i)
           line == lcdState.waits[i].line
           column == lcdState.waits[i].at
           m == lcdWriteCharacter(b.lcd, line, column)
<1>1. /\ b \in States /\ b.lcd \in LcdStates /\ b.ui = uiState
      /\ b.lcd.callback = lcdState.callback /\ (b.lcd.isBusy <=> lcdState.isBusy)
      /\ line \in Lines /\ column \in Nat
  BY FreedIs, LcdIsState DEF Waits
<1>2. Drawn(b, [b EXCEPT !.lcd = m])
  BY <1>1, WriteCharacterDraws, LcdDrawnIsDrawn
<1>3. m.isBusy = b.lcd.isBusy /\ m.callback = b.lcd.callback
      /\ m.waits = Append(b.lcd.waits, PutsWait(line, column + 1))
  <2> HIDE DEF line, column, b
  <2> QED BY <1>1, WriteCharacterDoes
<1>4. lcdState.isBusy
  <2>1. IsTransacting
    BY DEF IsTransacting, Transacts
  <2> QED BY <2>1 DEF LitInv, TransactionInv
<1>5. PutsWait(line, column + 1) \in Waits /\ ~IsConfigure(PutsWait(line, column + 1))
  BY <1>1, TransactionWaits
<1>6. Both' = [b EXCEPT !.lcd = m] /\ lcdState' = m /\ uiState' = uiState
  <2>1. Becomes([b EXCEPT !.lcd = m])
    OBVIOUS
  <2> HIDE DEF b, m
  <2> QED BY <1>1, <2>1 DEF Becomes, Both, States
<1> HIDE DEF m, b, line, column
<1>7. Adds(b.lcd, lcdState')
  BY <1>1, <1>3, <1>4, <1>5, <1>6 DEF Adds
<1>8. ~IsRedrawing
  BY <1>1, <1>3, <1>6 DEF IsRedrawing
<1>9. Drawn(b, Both') /\ (uiState'.isScreenBlitDirty => uiState.isScreenBlitDirty)
  BY <1>2, <1>6
<1> QED BY <1>7, <1>8, <1>9, TransactionEndsLit DEF b

LEMMA LcdWaitEndsLit ==
    ASSUME LitInv, LcdWaitEnds
    PROVE  LitInv'
<1> PICK i \in 1 .. Len(lcdState.waits) :
        LET wait == lcdState.waits[i]
            b == Freed(i)
        IN /\ Outlasts(i)
           /\ \/ /\ wait.handler = "lcdConfigureStateMachine"
                 /\ Becomes([b EXCEPT !.lcd = lcdConfigureStateMachine(@, wait.at)])
                 /\ Publish(lcdConfigureStateMachineEvents(wait.at))
              \/ /\ wait.handler = "lcdPutsStateMachine"
                 /\ Becomes(lcdPutsStateMachine(b, wait.line, wait.at))
                 /\ Publish(<<>>)
              \/ /\ wait.handler = "lcdTransactionCompleted"
                 /\ Becomes(lcdTransactionCompleted(b))
                 /\ Publish(<<>>)
  BY DEF LcdWaitEnds, Freed
<1> DEFINE wait == lcdState.waits[i]
           b == Freed(i)
<1>1. CASE /\ wait.handler = "lcdConfigureStateMachine"
           /\ Becomes([b EXCEPT !.lcd = lcdConfigureStateMachine(@, wait.at)])
           /\ Publish(lcdConfigureStateMachineEvents(wait.at))
  BY <1>1, ConfigureEndsLit DEF IsConfigure
<1>2. CASE /\ wait.handler = "lcdPutsStateMachine"
           /\ Becomes(lcdPutsStateMachine(b, wait.line, wait.at))
           /\ Publish(<<>>)
  <2>1. ~IsConfigure(wait)
    BY <1>2 DEF IsConfigure
  <2>2. CASE wait.at <= Width
    <3>1. lcdPutsStateMachine(b, wait.line, wait.at)
            = [b EXCEPT !.lcd = lcdWriteCharacter(@, wait.line, wait.at)]
      BY <2>2 DEF lcdPutsStateMachine
    <3> QED BY <1>2, <2>1, <3>1, WrittenLit
  <2>3. CASE ~(wait.at <= Width)
    <3>1. lcdPutsStateMachine(b, wait.line, wait.at) = lcdTransactionCompleted(b)
      BY <2>3 DEF lcdPutsStateMachine
    <3> QED BY <1>2, <2>1, <3>1, CalledBackLit
  <2> QED BY <2>2, <2>3
<1>3. CASE /\ wait.handler = "lcdTransactionCompleted"
           /\ Becomes(lcdTransactionCompleted(b))
           /\ Publish(<<>>)
  BY <1>3, CalledBackLit DEF IsConfigure
<1> QED BY <1>1, <1>2, <1>3
-----------------------------------------------------------------------------
(***************************************************************************)
(* The invariant, and what it says.                                        *)
(***************************************************************************)
LEMMA NothingIsLit ==
    ASSUME LitInv, UNCHANGED vars
    PROVE  LitInv'
<1>1. IInv'
  BY StepPreserves DEF LitInv
<1>2. UNCHANGED <<queue, supplyVars, screenVars>> /\ due' = due /\ waking' = waking
  BY DEF vars, loopVars
<1> QED BY <1>1, <1>2, UnchangedLit

LEMMA StepIsLit ==
    ASSUME LitInv, [Next]_vars
    PROVE  LitInv'
<1>1. CASE WakeUp
  BY <1>1, WakeUpLit
<1>2. CASE WokenEnds
  BY <1>2, WokenEndsLit
<1>3. CASE Callback
  <2>1. CASE uiOnScreenTimeout
    BY <2>1, CountingLit, OffLit
  <2>2. CASE ~uiOnScreenTimeout
    BY <1>3, <2>2, RegulatedLit, McuLit, ButtonsStopBouncingLit, LcdWaitEndsLit, SplashEndsLit
       DEF Callback
  <2> QED BY <2>1, <2>2
<1>4. CASE Dispatch
  BY <1>4, SystemInitialisedLit, VregEnabledLit, LcdEnabledLit, LcdDisabledLit, MotorIsEnabledLit,
     MotorIsDisabledLit, UnheardLit, PressedLit, ReleasedLit, DoorCalibratedLit DEF Dispatch
<1>5. CASE Fingers
  BY <1>5, FingersLit
<1>6. CASE UNCHANGED vars
  BY <1>6, NothingIsLit
<1> QED BY <1>1, <1>2, <1>3, <1>4, <1>5, <1>6 DEF Next

LEMMA LitHolds == Spec => []LitInv
<1>1. Init => LitInv
  BY InitIsLit
<1>2. LitInv /\ [Next]_vars => LitInv'
  BY StepIsLit
<1> QED BY <1>1, <1>2, PTL DEF Spec

\* Nothing but the seconds that are over switches the screen off.
LEMMA OnlySecondsSwitchOff ==
    ASSUME LitInv, [Next]_vars, uiState.isScreenOn, ~uiState'.isScreenOn
    PROVE  uiOnScreenTimeout /\ SecondsCounted = ScreenTimeoutSeconds
<1>1. uiState' # uiState
  OBVIOUS
<1>2. CASE WakeUp \/ WokenEnds \/ Fingers \/ UNCHANGED vars
  BY <1>1, <1>2 DEF WakeUp, WokenEnds, Fingers, vars, screenVars
<1>3. CASE Callback
  <2>1. ~RegulatedStabilises /\ ~McuStabilises /\ ~ButtonsStopBouncing
    BY <1>1 DEF RegulatedStabilises, McuStabilises, ButtonsStopBouncing, screenVars
  <2>2. ~SplashEnds
    BY SplashEndsLit
  <2>3. ~LcdWaitEnds
    BY LcdWaitIsDrawn, TheseAreBoth DEF LitInv, SameScreen, Both
  <2>4. uiOnScreenTimeout
    BY <1>3, <2>1, <2>2, <2>3 DEF Callback
  <2>5. SecondsCounted = ScreenTimeoutSeconds
    BY <1>1, <2>4 DEF uiOnScreenTimeout
  <2> QED BY <2>4, <2>5
<1>4. CASE Dispatch
  <2>1. /\ ~VregEnabled /\ ~MotorIsEnabled /\ ~MotorIsDisabled /\ ~Unheard
    BY <1>1 DEF VregEnabled, MotorIsEnabled, MotorIsDisabled, Unheard, screenVars
  <2>2. ~uiOnSystemInitialised
    BY LitTypes DEF uiOnSystemInitialised, uiScreenOn, UiStates
  <2>3. ~uiOnLcdDisabled
    BY LitTypes DEF uiOnLcdDisabled, UiStates
  <2>4. ~uiOnLcdEnabled /\ ~uiDoorOnCalibrated
    BY LcdEnabledLit, DoorCalibratedLit
  <2>5. \A button \in BothButtons :
            ~uiInputOnButtonsPressed(button) /\ ~uiInputOnButtonsReleased(button)
    BY PressedLit, ReleasedLit
  <2> QED BY <1>4, <2>1, <2>2, <2>3, <2>4, <2>5 DEF Dispatch
<1> QED BY <1>2, <1>3, <1>4 DEF Next

LEMMA OffIsLate ==
    ASSUME LitInv, [Next]_vars, uiState.isScreenOn, ~uiState'.isScreenOn, uiState.pressed = {}
    PROVE  lcdState'.waits = <<>>
<1>1. uiOnScreenTimeout /\ SecondsCounted = ScreenTimeoutSeconds
  BY OnlySecondsSwitchOff
<1>2. ~uiState.isScreenTimeoutDisabled /\ (IsQuiet => lcdState.waits = <<>>)
  BY <1>1, SecondsAreOver
<1>3. lcdState.waits = <<>>
  BY <1>2 DEF IsQuiet
<1>4. lcdState' = lcdDisable(lcdState)
  BY <1>1 DEF uiOnScreenTimeout, uiScreenOff
<1>5. lcdState.enableCount = 1 /\ lcdState \in LcdStates
  BY LitTypes DEF Count
<1>6. lcdState'.waits = lcdState.waits
  BY <1>4, <1>5 DEF lcdDisable, IsLastDisable, LcdStates
<1> QED BY <1>3, <1>6

\* Whatever is pressed, however long the timeout (of two seconds and more) and a line of
\* the LCD, and whenever the motor runs: the LCD is switched off in no transaction of
\* its own unless a button is held (UiScreen.c:185, LcdTransaction.c:7).
THEOREM TheLcdIsNeverCutShort == Spec => NeverCutShort
<1>1. LitInv /\ [Next]_vars
        => [uiState.isScreenOn /\ ~uiState'.isScreenOn /\ uiState.pressed = {}
              => lcdState'.waits = <<>>]_vars
  BY OffIsLate
<1> QED BY <1>1, LitHolds, PTL DEF Spec, NeverCutShort

LEMMA LitSuffices == LitInv => NoScheduleIsDropped
<1> SUFFICES ASSUME LitInv PROVE NoScheduleIsDropped
  OBVIOUS
<1> DEFINE supplying == regulatedWaits + mcuWaits
           waiting == Len(lcdState.waits)
<1>1. \A condition : Count(condition) \in {0, 1}
  BY DEF Count
<1>2. /\ waiting <= Count(IsConfiguring) + Count(IsTransacting)
      /\ supplying = Count(vregEnableCount # 0 /\ ~fullyEnabled)
      /\ waiting \in Nat /\ supplying \in Nat
  <2>1. lcdState.waits \in Seq(Waits) /\ OneOfEach(lcdState.waits)
    BY LitTypes DEF LitInv, TransactionInv
  <2> QED BY <2>1, FewWaits DEF LitInv, RailInv, IsConfiguring, IsTransacting
<1>3. /\ IsConfiguring => fullyEnabled
      /\ uiState.isScreenOn /\ ~IsStarting => fullyEnabled /\ ~IsConfiguring
      /\ isSplashScheduled /\ (IsStarting \/ ~uiState.isScreenOn) => ~IsTransacting
  BY DEF LitInv, ConfigureInv, TransactionInv
<1> HIDE DEF supplying, waiting
<1>4. /\ fullyEnabled => supplying = 0
      /\ ~fullyEnabled => supplying <= 1
      /\ ~IsConfiguring /\ ~IsTransacting => waiting <= 0
      /\ ~IsConfiguring \/ ~IsTransacting => waiting <= 1
      /\ waiting <= 2
  BY <1>1, <1>2 DEF Count
<1>5. supplying + waiting <= 2
  BY <1>2, <1>3, <1>4
<1>6. isSplashScheduled => supplying + waiting <= 1
  BY <1>2, <1>3, <1>4
<1>7. supplying + waiting + Count(isSplashScheduled) <= 2
  BY <1>2, <1>5, <1>6 DEF Count
<1>8. supplying + waiting + Count(disturbed) + Count(isBouncing) + Count(isTimeoutScheduled)
        + Count(isSplashScheduled) + 2 < 8
  BY <1>1, <1>2, <1>7
<1> QED BY <1>8 DEF NoScheduleIsDropped, NearScheduleSlots, supplying, waiting

\* With any buttons, any timeout and any motor there is a slot to spare in the table of
\* near schedules, so that none of those that the screen, its supply and the buttons
\* rest on is ever dropped (NearScheduler.c:68).
THEOREM TheTableNeverFillsUp == Spec => []NoScheduleIsDropped
BY LitHolds, LitSuffices, PTL
-----------------------------------------------------------------------------
(***************************************************************************)
(* What is to be seen.                                                     *)
(***************************************************************************)
IsWritten(l, line, column) == \A k \in 1 .. Width : k < column => l.isCurrent[line][k]

AfterPuts == <<"uiScreenGotoSecondLine", "uiScreenSetCursorPosition">>
AfterSecond == {"uiScreenSetCursorPosition", "uiScreenTurnCursorOn", "uiScreenBlitDone"}
AfterFirst == AfterSecond \cup {"uiScreenGotoSecondLine", "uiScreenBlitSecondLine"}
AfterAddress == {"uiScreenTurnCursorOn", "uiScreenBlitDone"}

\* What each callback finds when it is called, unless something has changed since.
IsReached(ui, l) ==
    /\ l.callback # NoCallback
    /\ l.callback = "uiScreenBlitFirstLine" => l.address = <<1, 1>>
    /\ l.callback = "uiScreenBlitSecondLine" => l.address = <<2, 1>>
    /\ ~ui.isScreenBlitDirty =>
           /\ l.callback \in AfterFirst => IsWritten(l, 1, Width + 1)
           /\ l.callback \in AfterSecond => IsWritten(l, 2, Width + 1)
           /\ l.callback \in AfterAddress =>
                  ui.cursorPosition # NoCursor /\ l.address = ui.cursorPosition

\* A line is being written, as far as the column.
IsPutting(ui, l, line, column) ==
    /\ l.waits = <<PutsWait(line, column)>>
    /\ l.callback = AfterPuts[line]
    /\ l.address = <<line, column>>
    /\ ~ui.isScreenBlitDirty =>
           IsWritten(l, line, column) /\ (line = 2 => IsWritten(l, 1, Width + 1))

\* The cursor is put out first and lit last.
HasCursor(l) == l.isDisplayOn /\ (l.isCursorOn <=> l.callback = "uiScreenBlitDone")

\* The drawing is at one of its seven transactions...
IsGoingOn(ui, l) ==
    /\ l.isBusy /\ HasCursor(l)
    /\ \/ l.waits = <<CompletedWait>> /\ IsReached(ui, l)
       \/ \E line \in Lines, column \in 2 .. Width + 1 : IsPutting(ui, l, line, column)

\* ...or over.
IsRight(ui, l) ==
    /\ ~l.isBusy /\ l.waits = <<>> /\ l.isDisplayOn
    /\ \A line \in Lines : IsWritten(l, line, Width + 1)
    /\ l.isCursorOn <=> ui.cursorPosition # NoCursor
    /\ l.isCursorOn => l.address = ui.cursorPosition

IsDrawnBy(ui, l) == IF ui.isScreenBeingBlitted THEN IsGoingOn(ui, l) ELSE IsRight(ui, l)

IsLost == disturbed /\ uiState.isScreenBeingBlitted /\ lcdState.waits = <<>>

LookInv ==
    /\ uiState.isScreenOn /\ ~IsStarting => IsDrawnBy(uiState, lcdState) \/ IsLost
    /\ IsStarting /\ ~disturbed => ~uiState.isScreenBeingBlitted
    /\ LcdIsUp => ~lcdState.isBusy

\* A character that is written adds to what is.
LEMMA OneMoreIsWritten ==
    ASSUME NEW l \in LcdStates, NEW m, NEW line \in Lines, NEW column \in Nat,
           m.isCurrent = WithCharacter(l.isCurrent, line, column)
    PROVE  /\ \A other \in Lines, k \in 1 .. Width :
                  l.isCurrent[other][k] => m.isCurrent[other][k]
           /\ column \in 1 .. Width => m.isCurrent[line][column]
<1>1. l.isCurrent \in [Lines -> [1 .. Width -> BOOLEAN]]
  BY DEF LcdStates, Buffers
<1> DEFINE old == l.isCurrent
<1>2. old \in [Lines -> [1 .. Width -> BOOLEAN]] /\ m.isCurrent = WithCharacter(old, line, column)
  BY <1>1
<1> HIDE DEF old
<1>3. m.isCurrent = [old EXCEPT ![line] = [old[line] EXCEPT ![column] = TRUE]]
  BY <1>2 DEF WithCharacter
<1>4. \A other \in Lines, k \in 1 .. Width : old[other][k] => m.isCurrent[other][k]
  BY <1>2, <1>3
<1>5. column \in 1 .. Width => m.isCurrent[line][column]
  BY <1>2, <1>3
<1> QED BY <1>4, <1>5 DEF old

LEMMA WrittenFurther ==
    ASSUME NEW l \in LcdStates, NEW m, NEW line \in Lines, NEW column \in 1 .. Width,
           m.isCurrent = WithCharacter(l.isCurrent, line, column)
    PROVE  /\ IsWritten(l, line, column) => IsWritten(m, line, column + 1)
           /\ \A other \in Lines : IsWritten(l, other, Width + 1) => IsWritten(m, other, Width + 1)
<1>1. Width \in Nat /\ column \in Nat
  BY LcdAssumption
<1>2. \A k \in 1 .. Width : k < column + 1 => k < column \/ k = column
  BY <1>1
<1> QED BY <1>1, <1>2, OneMoreIsWritten DEF IsWritten

LEMMA SameIsWritten ==
    ASSUME NEW l, NEW m, m.isCurrent = l.isCurrent
    PROVE  \A line, column : IsWritten(m, line, column) <=> IsWritten(l, line, column)
BY DEF IsWritten

\* On an LCD that is on and has nothing to do.
LEMMA CursorIsSet ==
    ASSUME NEW l \in LcdStates, l.enableCount # 0, l.waits = <<>>, ~l.isBusy
    PROVE  \A isOn \in BOOLEAN, callback \in Callbacks :
               LET m == lcdSetCursor(l, isOn, callback)
               IN /\ m.isBusy /\ m.callback = callback /\ m.waits = <<CompletedWait>>
                  /\ m.isDisplayOn /\ (m.isCursorOn <=> isOn)
                  /\ m.isCurrent = l.isCurrent /\ m.address = l.address
<1> SUFFICES ASSUME NEW isOn \in BOOLEAN, NEW callback \in Callbacks,
                    NEW m, m = lcdSetCursor(l, isOn, callback)
             PROVE  /\ m.isBusy /\ m.callback = callback /\ m.waits = <<CompletedWait>>
                    /\ m.isDisplayOn /\ (m.isCursorOn <=> isOn)
                    /\ m.isCurrent = l.isCurrent /\ m.address = l.address
  OBVIOUS
<1> QED BY SetCursorDoes

\* A drawing is begun, on an LCD that is on and has nothing to do.
LEMMA HomeGoesOn ==
    ASSUME NEW l \in LcdStates, l.enableCount # 0, l.waits = <<>>, ~l.isBusy, NEW ui
    PROVE  IsGoingOn(ui, lcdSetCursor(l, FALSE, "uiScreenSetAddressToHome"))
<1> DEFINE m == lcdSetCursor(l, FALSE, "uiScreenSetAddressToHome")
<1>1. FALSE \in BOOLEAN /\ "uiScreenSetAddressToHome" \in Callbacks
  BY DEF Callbacks
<1>2. /\ m.isBusy /\ m.callback = "uiScreenSetAddressToHome" /\ m.waits = <<CompletedWait>>
      /\ m.isDisplayOn /\ ~m.isCursorOn
  BY <1>1, CursorIsSet, Zenon
<1> HIDE DEF m
<1>3. IsReached(ui, m) /\ HasCursor(m)
  BY <1>2 DEF IsReached, HasCursor, AfterFirst, AfterSecond, AfterAddress, NoCallback
<1>4. IsGoingOn(ui, m)
  BY <1>2, <1>3 DEF IsGoingOn
<1> QED BY <1>4 DEF m

\* The cursor is lit, which is the last of it.
LEMMA CursorGoesOn ==
    ASSUME NEW l \in LcdStates, l.enableCount # 0, l.waits = <<>>, ~l.isBusy, NEW ui,
           ~ui.isScreenBlitDirty =>
               /\ IsWritten(l, 1, Width + 1) /\ IsWritten(l, 2, Width + 1)
               /\ ui.cursorPosition # NoCursor /\ l.address = ui.cursorPosition
    PROVE  IsGoingOn(ui, lcdSetCursor(l, TRUE, "uiScreenBlitDone"))
<1> DEFINE m == lcdSetCursor(l, TRUE, "uiScreenBlitDone")
<1>1. TRUE \in BOOLEAN /\ "uiScreenBlitDone" \in Callbacks
  BY DEF Callbacks
<1>2. /\ m.isBusy /\ m.callback = "uiScreenBlitDone" /\ m.waits = <<CompletedWait>>
      /\ m.isDisplayOn /\ m.isCursorOn /\ m.isCurrent = l.isCurrent /\ m.address = l.address
  BY <1>1, CursorIsSet, Zenon
<1> HIDE DEF m
<1>3. \A line, column : IsWritten(m, line, column) <=> IsWritten(l, line, column)
  BY <1>2, SameIsWritten
<1>4. IsReached(ui, m)
  BY <1>2, <1>3 DEF IsReached, NoCallback, AfterFirst, AfterSecond, AfterAddress
<1>5. IsGoingOn(ui, m)
  BY <1>2, <1>4 DEF IsGoingOn, HasCursor
<1> QED BY <1>5 DEF m

\* The LCD is told where to write.
LEMMA AddressGoesOn ==
    ASSUME NEW l \in LcdStates, l.enableCount # 0, l.waits = <<>>, ~l.isBusy,
           l.isDisplayOn, ~l.isCursorOn,
           NEW address \in Addresses,
           NEW callback \in Callbacks \ {NoCallback, "uiScreenBlitDone"}, NEW ui,
           callback = "uiScreenBlitFirstLine" => address = <<1, 1>>,
           callback = "uiScreenBlitSecondLine" => address = <<2, 1>>,
           ~ui.isScreenBlitDirty =>
               /\ callback \in AfterFirst => IsWritten(l, 1, Width + 1)
               /\ callback \in AfterSecond => IsWritten(l, 2, Width + 1)
               /\ callback \in AfterAddress =>
                      ui.cursorPosition # NoCursor /\ address = ui.cursorPosition
    PROVE  IsGoingOn(ui, lcdSetDdramAddress(l, address, callback))
<1> DEFINE m == lcdSetDdramAddress(l, address, callback)
<1>1. /\ m.isBusy /\ m.callback = callback /\ m.waits = <<CompletedWait>>
      /\ m.isCurrent = l.isCurrent /\ m.isDisplayOn /\ ~m.isCursorOn /\ m.address = address
  BY SetDdramAddressDoes
<1> HIDE DEF m
<1>2. \A line, column : IsWritten(m, line, column) <=> IsWritten(l, line, column)
  BY <1>1, SameIsWritten
<1>3. IsReached(ui, m)
  BY <1>1, <1>2 DEF IsReached
<1>4. IsGoingOn(ui, m)
  BY <1>1, <1>3 DEF IsGoingOn, HasCursor
<1> QED BY <1>4 DEF m

\* A line is begun.
LEMMA PutsGoesOn ==
    ASSUME NEW l \in LcdStates, l.enableCount # 0, l.waits = <<>>, ~l.isBusy,
           l.isDisplayOn, ~l.isCursorOn, NEW line \in Lines, l.address = <<line, 1>>, NEW ui,
           ~ui.isScreenBlitDirty /\ line = 2 => IsWritten(l, 1, Width + 1)
    PROVE  IsGoingOn(ui, lcdPuts(l, line, AfterPuts[line]))
<1> DEFINE m == lcdPuts(l, line, AfterPuts[line])
<1>1. AfterPuts[line] \in Callbacks \ {"uiScreenBlitDone"} /\ Width \in Nat \ {0}
  BY LcdAssumption DEF AfterPuts, Callbacks, Lines
<1>2. /\ m.isBusy /\ m.callback = AfterPuts[line] /\ m.waits = <<PutsWait(line, 2)>>
      /\ m.isDisplayOn /\ ~m.isCursorOn /\ m.address = <<line, 2>>
      /\ m.isCurrent = WithCharacter(l.isCurrent, line, 1)
  BY <1>1, PutsDoes
<1> HIDE DEF m
<1>3. 1 \in 1 .. Width /\ 2 \in 2 .. Width + 1 /\ 1 + 1 = 2
  BY <1>1
<1>4. IsWritten(l, line, 1)
  BY <1>1 DEF IsWritten
<1>5. IsWritten(m, line, 2)
  BY <1>2, <1>3, <1>4, WrittenFurther
<1>6. \A other \in Lines : IsWritten(l, other, Width + 1) => IsWritten(m, other, Width + 1)
  BY <1>2, <1>3, WrittenFurther
<1>7. IsPutting(ui, m, line, 2)
  BY <1>2, <1>5, <1>6 DEF IsPutting, Lines
<1>8. IsGoingOn(ui, m)
  BY <1>1, <1>2, <1>3, <1>7 DEF IsGoingOn, HasCursor
<1> QED BY <1>8 DEF m

\* The drawing is over, or begun again.
LEMMA BlitDoneGoesOn ==
    ASSUME NEW b \in States, b.ui.isLcdEnabled, b.lcd.enableCount # 0, b.lcd.waits = <<>>,
           ~b.lcd.isBusy, ~b.ui.isScreenBlitDirty => IsRight(b.ui, b.lcd)
    PROVE  IsDrawnBy(uiScreenBlitDone(b).ui, uiScreenBlitDone(b).lcd)
<1> DEFINE c == uiScreenBlitDone(b)
<1>1. b.lcd \in LcdStates /\ b.ui \in UiStates
  BY LcdIsState
<1>2. /\ c.ui.cursorPosition = b.ui.cursorPosition
      /\ ~b.ui.isScreenBlitDirty => c.lcd = b.lcd /\ ~c.ui.isScreenBeingBlitted
      /\ b.ui.isScreenBlitDirty =>
             /\ c.lcd = lcdSetCursor(b.lcd, FALSE, "uiScreenSetAddressToHome")
             /\ c.ui.isScreenBeingBlitted
  BY BlitDoneDoes DEF Drawn, SameButDrawing
<1> HIDE DEF c
<1>3. ASSUME ~b.ui.isScreenBlitDirty PROVE IsDrawnBy(c.ui, c.lcd)
  <2>1. IsRight(b.ui, b.lcd) /\ c.lcd = b.lcd /\ ~c.ui.isScreenBeingBlitted
    BY <1>2, <1>3
  <2>2. IsRight(c.ui, c.lcd)
    BY <1>2, <2>1 DEF IsRight
  <2> QED BY <2>1, <2>2 DEF IsDrawnBy
<1>4. ASSUME b.ui.isScreenBlitDirty PROVE IsDrawnBy(c.ui, c.lcd)
  <2>1. IsGoingOn(c.ui, lcdSetCursor(b.lcd, FALSE, "uiScreenSetAddressToHome"))
    BY <1>1, HomeGoesOn
  <2> QED BY <1>2, <1>4, <2>1 DEF IsDrawnBy
<1> QED BY <1>3, <1>4 DEF c

\* From each transaction of the drawing to the next.
LEMMA CallBackGoesOn ==
    ASSUME NEW b \in States, b.ui.isLcdEnabled, b.ui.isScreenBeingBlitted,
           b.lcd.enableCount # 0, b.lcd.waits = <<>>, ~b.lcd.isBusy,
           HasCursor(b.lcd), IsReached(b.ui, b.lcd)
    PROVE  IsDrawnBy(CallBack(b).ui, CallBack(b).lcd)
<1> DEFINE GoesOn(c) == IsDrawnBy(c.ui, c.lcd)
           ui == b.ui
           l == b.lcd
           callback == l.callback
<1>1. l \in LcdStates /\ ui \in UiStates /\ callback \in Callbacks /\ callback # NoCallback
  BY LcdIsState DEF LcdStates, IsReached
<1>2. /\ ui.cursorPosition \in Addresses
      /\ l.isDisplayOn /\ (l.isCursorOn <=> callback = "uiScreenBlitDone")
  BY <1>1 DEF UiStates, CursorPositions, NoCursor, Addresses, HasCursor
<1>3. \A line \in Lines : line = 1 \/ line = 2
  BY DEF Lines
<1>4. ASSUME NEW m, IsGoingOn(ui, m)
      PROVE  GoesOn([b EXCEPT !.lcd = m])
  <2>1. [b EXCEPT !.lcd = m].ui = ui /\ [b EXCEPT !.lcd = m].lcd = m
    BY DEF States
  <2> QED BY <1>4, <2>1 DEF IsDrawnBy
<1>5. CASE callback = "uiScreenBlitDone"
  <2>1. ~ui.isScreenBlitDirty => IsRight(ui, l)
    BY <1>2, <1>3, <1>5 DEF IsReached, IsRight, AfterFirst, AfterSecond, AfterAddress
  <2>2. GoesOn(uiScreenBlitDone(b))
    BY <2>1, BlitDoneGoesOn
  <2> QED BY <1>5, <2>2 DEF CallBack
<1>6. CASE callback = "uiScreenSetAddressToHome"
  <2>1. IsGoingOn(ui, lcdSetDdramAddress(l, <<1, 1>>, "uiScreenBlitFirstLine"))
    BY <1>1, <1>2, <1>6, AddressGoesOn, AddressesAreAddresses
       DEF Callbacks, NoCallback, AfterFirst, AfterSecond, AfterAddress
  <2> QED BY <1>1, <1>4, <1>6, <2>1 DEF CallBack, uiScreenSetAddressToHome
<1>7. CASE callback = "uiScreenGotoSecondLine"
  <2>1. ~ui.isScreenBlitDirty => IsWritten(l, 1, Width + 1)
    BY <1>7 DEF IsReached, AfterFirst
  <2>2. IsGoingOn(ui, lcdSetDdramAddress(l, <<2, 1>>, "uiScreenBlitSecondLine"))
    BY <1>1, <1>2, <1>7, <2>1, AddressGoesOn, AddressesAreAddresses
       DEF Callbacks, NoCallback, AfterFirst, AfterSecond, AfterAddress
  <2> QED BY <1>1, <1>4, <1>7, <2>2 DEF CallBack, uiScreenGotoSecondLine
<1>8. CASE callback = "uiScreenBlitFirstLine"
  <2> DEFINE clean == [ui EXCEPT !.isScreenBlitDirty = FALSE]
             m == lcdPuts(l, 1, "uiScreenGotoSecondLine")
  <2>1. clean.isScreenBeingBlitted /\ 1 \in Lines /\ l.address = <<1, 1>>
    BY <1>1, <1>8 DEF UiStates, Lines, IsReached
  <2>2. IsGoingOn(clean, m)
    BY <1>1, <1>2, <1>8, <2>1, PutsGoesOn DEF AfterPuts
  <2> HIDE DEF m, clean
  <2>3. /\ uiScreenBlitFirstLine(b).ui = clean
        /\ uiScreenBlitFirstLine(b).lcd = m
    <3>1. ASSUME NEW n
          PROVE  LET c == [b EXCEPT !.ui.isScreenBlitDirty = FALSE, !.lcd = n]
                 IN c.ui = [b.ui EXCEPT !.isScreenBlitDirty = FALSE] /\ c.lcd = n
      BY DEF States
    <3> QED BY <3>1 DEF uiScreenBlitFirstLine, clean, m
  <2>4. GoesOn(uiScreenBlitFirstLine(b))
    BY <2>1, <2>2, <2>3 DEF IsDrawnBy
  <2> QED BY <1>1, <1>8, <2>4 DEF CallBack
<1>9. CASE callback = "uiScreenBlitSecondLine"
  <2>1. /\ 2 \in Lines /\ l.address = <<2, 1>>
        /\ ~ui.isScreenBlitDirty => IsWritten(l, 1, Width + 1)
    BY <1>9 DEF Lines, IsReached, AfterFirst
  <2>2. IsGoingOn(ui, lcdPuts(l, 2, "uiScreenSetCursorPosition"))
    BY <1>1, <1>2, <1>9, <2>1, PutsGoesOn DEF AfterPuts
  <2> QED BY <1>1, <1>4, <1>9, <2>2 DEF CallBack, uiScreenBlitSecondLine
<1>10. CASE callback = "uiScreenSetCursorPosition"
  <2>1. ~ui.isScreenBlitDirty =>
            IsWritten(l, 1, Width + 1) /\ IsWritten(l, 2, Width + 1)
    BY <1>10 DEF IsReached, AfterFirst, AfterSecond
  <2>2. ASSUME ui.cursorPosition = NoCursor PROVE GoesOn(uiScreenSetCursorPosition(b))
    <3>1. ~ui.isScreenBlitDirty => IsRight(ui, l)
      BY <1>2, <1>3, <1>10, <2>1, <2>2 DEF IsRight
    <3>2. GoesOn(uiScreenBlitDone(b))
      BY <3>1, BlitDoneGoesOn
    <3> QED BY <2>2, <3>2 DEF uiScreenSetCursorPosition
  <2>3. ASSUME ui.cursorPosition # NoCursor PROVE GoesOn(uiScreenSetCursorPosition(b))
    <3>1. IsGoingOn(ui, lcdSetDdramAddress(l, ui.cursorPosition, "uiScreenTurnCursorOn"))
      BY <1>1, <1>2, <1>10, <2>1, <2>3, AddressGoesOn DEF Callbacks, NoCallback
    <3> QED BY <1>4, <2>3, <3>1 DEF uiScreenSetCursorPosition
  <2> QED BY <1>1, <1>10, <2>2, <2>3 DEF CallBack
<1>11. CASE callback = "uiScreenTurnCursorOn"
  <2>1. ~ui.isScreenBlitDirty =>
            /\ IsWritten(l, 1, Width + 1) /\ IsWritten(l, 2, Width + 1)
            /\ ui.cursorPosition # NoCursor /\ l.address = ui.cursorPosition
    BY <1>11 DEF IsReached, AfterFirst, AfterSecond, AfterAddress
  <2>2. IsGoingOn(ui, lcdSetCursor(l, TRUE, "uiScreenBlitDone"))
    BY <1>1, <2>1, CursorGoesOn
  <2> QED BY <1>1, <1>4, <1>11, <2>2 DEF CallBack, uiScreenTurnCursorOn
<1> QED BY <1>1, <1>5, <1>6, <1>7, <1>8, <1>9, <1>10, <1>11 DEF Callbacks

\* A character is written, and the next is waited for.
LEMMA WriteGoesOn ==
    ASSUME NEW l \in LcdStates, l.enableCount # 0, l.waits = <<>>, l.isBusy, HasCursor(l),
           NEW ui, NEW line \in Lines, NEW column \in 1 .. Width,
           l.callback = AfterPuts[line], l.address = <<line, column>>,
           ~ui.isScreenBlitDirty =>
               IsWritten(l, line, column) /\ (line = 2 => IsWritten(l, 1, Width + 1))
    PROVE  IsGoingOn(ui, lcdWriteCharacter(l, line, column))
<1> DEFINE m == lcdWriteCharacter(l, line, column)
<1>1. Width \in Nat /\ column \in Nat /\ column + 1 \in 2 .. Width + 1
  BY LcdAssumption
<1>2. /\ m.isBusy /\ m.callback = l.callback /\ m.waits = <<PutsWait(line, column + 1)>>
      /\ m.isDisplayOn = l.isDisplayOn /\ m.isCursorOn = l.isCursorOn
      /\ m.address = <<line, column + 1>>
      /\ m.isCurrent = WithCharacter(l.isCurrent, line, column)
  <2>1. ASSUME NEW n, n = m
        PROVE  /\ n.isBusy = l.isBusy /\ n.callback = l.callback
               /\ n.waits = Append(l.waits, PutsWait(line, column + 1))
               /\ n.isDisplayOn = l.isDisplayOn /\ n.isCursorOn = l.isCursorOn
               /\ n.address = <<line, column + 1>>
               /\ n.isCurrent = WithCharacter(l.isCurrent, line, column)
    BY <1>1, <2>1, WriteCharacterDoes, Zenon
  <2> HIDE DEF m
  <2>2. m.waits = Append(l.waits, PutsWait(line, column + 1))
    BY <2>1
  <2>3. m.waits = <<PutsWait(line, column + 1)>>
    BY <2>2
  <2> QED BY <2>1, <2>3, Zenon
<1> HIDE DEF m
<1>3. /\ IsWritten(l, line, column) => IsWritten(m, line, column + 1)
      /\ \A other \in Lines : IsWritten(l, other, Width + 1) => IsWritten(m, other, Width + 1)
  BY <1>2, WrittenFurther
<1>4. IsPutting(ui, m, line, column + 1)
  BY <1>2, <1>3 DEF IsPutting, Lines
<1>5. HasCursor(m)
  BY <1>2 DEF HasCursor
<1>6. IsGoingOn(ui, m)
  BY <1>1, <1>2, <1>4, <1>5 DEF IsGoingOn
<1> QED BY <1>6 DEF m

\* The drawing is told of a transaction that was begun before the screen was switched off.
LEMMA CallBackIsIdle ==
    ASSUME NEW b \in States, ~b.ui.isLcdEnabled, ~b.ui.isScreenBeingBlitted
    PROVE  ~CallBack(b).ui.isScreenBeingBlitted
<1>1. CASE b.lcd.callback = "uiScreenBlitDone"
  <2>1. CallBack(b) = uiScreenBlitDone(b)
    BY <1>1 DEF CallBack
  <2> QED BY <2>1, BlitDoneDoes
<1>2. CASE b.lcd.callback # "uiScreenBlitDone"
  BY <1>2 DEF CallBack
<1> QED BY <1>1, <1>2

\* A line that has been written is reached by its callback.
LEMMA PuttingEnds ==
    ASSUME NEW ui, NEW l, NEW line \in Lines, NEW column \in 2 .. Width + 1,
           IsPutting(ui, l, line, column), ~(column <= Width)
    PROVE  IsReached(ui, l)
<1>1. column = Width + 1
  BY LcdAssumption
<1>2. l.callback = IF line = 1 THEN "uiScreenGotoSecondLine" ELSE "uiScreenSetCursorPosition"
  BY DEF IsPutting, AfterPuts, Lines
<1>3. ~ui.isScreenBlitDirty =>
          IsWritten(l, line, Width + 1) /\ (line = 2 => IsWritten(l, 1, Width + 1))
  BY <1>1 DEF IsPutting
<1>4. line = 1 \/ line = 2
  BY DEF Lines
<1> QED BY <1>2, <1>3, <1>4
       DEF IsReached, NoCallback, AfterFirst, AfterSecond, AfterAddress

LEMMA FreedIsToo ==
    ASSUME LitInv, NEW i \in 1 .. Len(lcdState.waits)
    PROVE  /\ Freed(i).lcd.enableCount = lcdState.enableCount
           /\ Freed(i).lcd.isDisplayOn = lcdState.isDisplayOn
           /\ Freed(i).lcd.isCursorOn = lcdState.isCursorOn
           /\ Freed(i).lcd.isCurrent = lcdState.isCurrent
           /\ Freed(i).lcd.address = lcdState.address
<1>1. lcdState \in LcdStates
  BY LitTypes
<1> DEFINE left == RemoveAt(lcdState.waits, i)
<1>2. Freed(i).lcd = [lcdState EXCEPT !.waits = left]
  BY DEF Freed, Both
<1> HIDE DEF left
<1> QED BY <1>1, <1>2 DEF LcdStates

\* Two LCDs that show the same.
SameSight(l, m) ==
    /\ m.callback = l.callback /\ m.isCurrent = l.isCurrent /\ m.address = l.address
    /\ m.isDisplayOn = l.isDisplayOn /\ m.isCursorOn = l.isCursorOn

LEMMA SameSightIs ==
    ASSUME NEW l, NEW m, SameSight(l, m), NEW ui
    PROVE  /\ HasCursor(l) => HasCursor(m)
           /\ IsReached(ui, l) => IsReached(ui, m)
           /\ \A line, column : IsWritten(l, line, column) <=> IsWritten(m, line, column)
<1>1. \A line, column : IsWritten(l, line, column) <=> IsWritten(m, line, column)
  BY SameIsWritten DEF SameSight
<1>2. HasCursor(l) => HasCursor(m)
  BY DEF HasCursor, SameSight
<1>3. IsReached(ui, l) => IsReached(ui, m)
  BY <1>1 DEF IsReached, SameSight
<1> QED BY <1>1, <1>2, <1>3

\* The only wait there is ends in the middle of a drawing.
LEMMA DrawingGoesOn ==
    ASSUME LitInv, NEW i \in 1 .. Len(lcdState.waits),
           uiState.isScreenOn, uiState.isLcdEnabled, uiState.isScreenBeingBlitted,
           IsGoingOn(uiState, lcdState)
    PROVE  /\ lcdState.waits[i] = CompletedWait =>
                  IsDrawnBy(lcdTransactionCompleted(Freed(i)).ui,
                            lcdTransactionCompleted(Freed(i)).lcd)
           /\ \A line \in Lines, column \in 2 .. Width + 1 :
                  /\ IsPutting(uiState, lcdState, line, column)
                  /\ ~(column <= Width)
                  => IsDrawnBy(lcdTransactionCompleted(Freed(i)).ui,
                               lcdTransactionCompleted(Freed(i)).lcd)
           /\ \A line \in Lines, column \in 2 .. Width + 1 :
                  /\ IsPutting(uiState, lcdState, line, column)
                  /\ column <= Width
                  => IsGoingOn(uiState, lcdWriteCharacter(Freed(i).lcd, line, column))
<1> DEFINE b == Freed(i)
           idle == [b EXCEPT !.lcd.isBusy = FALSE]
<1>1. /\ b \in States /\ b.ui = uiState /\ b.lcd \in LcdStates
      /\ b.lcd.isBusy /\ SameSight(lcdState, b.lcd) /\ b.lcd.enableCount # 0
  BY FreedIs, FreedIsToo, LcdIsState, LitTypes DEF SameSight, IsGoingOn, Count
<1>2. b.lcd.waits = <<>>
  <2>1. \E wait : lcdState.waits = <<wait>>
    BY DEF IsGoingOn, IsPutting
  <2>2. Len(lcdState.waits) = 1 /\ lcdState.waits \in Seq(Waits)
    BY <2>1, LitTypes
  <2>3. /\ RemoveAt(lcdState.waits, i) \in Seq(Waits)
        /\ Len(RemoveAt(lcdState.waits, i)) = Len(lcdState.waits) - 1
    BY <2>2, RemoveAtRemoves
  <2>4. b.lcd.waits = RemoveAt(lcdState.waits, i)
    BY FreedIs
  <2> HIDE DEF b
  <2>5. b.lcd.waits \in Seq(Waits) /\ Len(b.lcd.waits) = 0
    BY <2>2, <2>3, <2>4
  <2> QED BY <2>5
<1>3. /\ idle \in States /\ idle.ui = uiState /\ ~idle.lcd.isBusy /\ idle.lcd.waits = <<>>
      /\ SameSight(b.lcd, idle.lcd) /\ idle.lcd.enableCount # 0
  <2> HIDE DEF b
  <2> QED BY <1>1, <1>2 DEF States, LcdStates, SameSight
<1>4. SameSight(lcdState, idle.lcd)
  BY <1>1, <1>3 DEF SameSight
<1>5. HasCursor(lcdState)
  BY DEF IsGoingOn
<1>6. lcdTransactionCompleted(b) = CallBack(idle)
  BY DEF lcdTransactionCompleted
<1> HIDE DEF b, idle
<1>7. IsReached(uiState, lcdState) => IsDrawnBy(CallBack(idle).ui, CallBack(idle).lcd)
  BY <1>3, <1>4, <1>5, SameSightIs, CallBackGoesOn
<1>8. ASSUME lcdState.waits[i] = CompletedWait
      PROVE  IsReached(uiState, lcdState)
  <2>1. ASSUME NEW line \in Lines, NEW column \in 2 .. Width + 1,
               IsPutting(uiState, lcdState, line, column)
        PROVE  FALSE
    <3>1. lcdState.waits = <<PutsWait(line, column)>>
      BY <2>1 DEF IsPutting
    <3>2. lcdState.waits[i] = PutsWait(line, column)
      BY <3>1
    <3> QED BY <1>8, <3>2 DEF PutsWait, CompletedWait
  <2> QED BY <2>1 DEF IsGoingOn
<1>9. ASSUME NEW line \in Lines, NEW column \in 2 .. Width + 1,
             IsPutting(uiState, lcdState, line, column), column <= Width
      PROVE  IsGoingOn(uiState, lcdWriteCharacter(b.lcd, line, column))
  <2>1. column \in 1 .. Width
    BY <1>9, LcdAssumption
  <2>2. /\ b.lcd.callback = AfterPuts[line] /\ b.lcd.address = <<line, column>>
        /\ ~uiState.isScreenBlitDirty =>
               IsWritten(b.lcd, line, column) /\ (line = 2 => IsWritten(b.lcd, 1, Width + 1))
    BY <1>1, <1>9, SameSightIs DEF IsPutting, SameSight
  <2> QED BY <1>1, <1>2, <1>5, <2>1, <2>2, SameSightIs, WriteGoesOn
<1> QED BY <1>6, <1>7, <1>8, <1>9, PuttingEnds DEF b
-----------------------------------------------------------------------------
(***************************************************************************)
(* Steps that draw nothing.                                                *)
(***************************************************************************)
LEMMA OffLook ==
    ASSUME LitInv', ~uiState'.isScreenOn
    PROVE  LookInv'
<1>1. ~IsStarting' /\ ~LcdIsUp'
  BY DEF IsStarting, LitInv, ConfigureInv
<1> QED BY <1>1 DEF LookInv

\* Nothing is published of the LCD.
LEMMA LcdIsKept ==
    ASSUME IInv, waking \/ (queue # <<>> /\ Head(queue) \notin {"LCD_ENABLED", "LCD_DISABLED"}),
           NEW events \in Seq(Types), Publish(events),
           ~Has(events, "LCD_ENABLED"), ~Has(events, "LCD_DISABLED")
    PROVE  (LcdIsUp' <=> LcdIsUp) /\ (LcdIsDown' <=> LcdIsDown)
<1>1. \A type \in {"LCD_ENABLED", "LCD_DISABLED"} : IsPending(type)' <=> IsPending(type)
  BY PublishKeeps DEF IInv
<1> QED BY <1>1 DEF LcdIsUp, LcdIsDown

\* What of the user interface it takes to say how far the drawing is.
SameDrawing(ui, after) ==
    /\ after.isScreenOn = ui.isScreenOn
    /\ after.isScreenBeingBlitted = ui.isScreenBeingBlitted
    /\ after.isScreenBlitDirty = ui.isScreenBlitDirty
    /\ after.cursorPosition = ui.cursorPosition

LEMMA SameDrawingIs ==
    ASSUME NEW ui, NEW after, SameDrawing(ui, after), NEW l
    PROVE  IsDrawnBy(ui, l) => IsDrawnBy(after, l)
<1>1. IsReached(ui, l) => IsReached(after, l)
  BY DEF IsReached, SameDrawing
<1>2. \A line, column : IsPutting(ui, l, line, column) => IsPutting(after, l, line, column)
  BY DEF IsPutting, SameDrawing
<1>3. IsGoingOn(ui, l) => IsGoingOn(after, l)
  BY <1>1, <1>2 DEF IsGoingOn
<1>4. IsRight(ui, l) => IsRight(after, l)
  BY DEF IsRight, SameDrawing
<1> QED BY <1>3, <1>4 DEF IsDrawnBy, SameDrawing

LEMMA SameLook ==
    ASSUME LookInv, SameDrawing(uiState, uiState'), UNCHANGED <<lcdState, disturbed>>,
           IsStarting' <=> IsStarting, LcdIsUp' => LcdIsUp
    PROVE  LookInv'
<1>1. IsDrawnBy(uiState, lcdState) => IsDrawnBy(uiState', lcdState')
  BY SameDrawingIs
<1>2. IsLost => IsLost'
  BY DEF IsLost, SameDrawing
<1>3. uiState'.isScreenOn = uiState.isScreenOn
      /\ uiState'.isScreenBeingBlitted = uiState.isScreenBeingBlitted
  BY DEF SameDrawing
<1>4. (IsDrawnBy(uiState, lcdState) \/ IsLost)'
        <=> IsDrawnBy(uiState', lcdState') \/ IsLost'
  BY DEF IsLost
<1> QED BY <1>1, <1>2, <1>3, <1>4 DEF LookInv

\* In particular when nothing of the screen changes.
LEMMA StillLook ==
    ASSUME LookInv, UNCHANGED <<uiState, lcdState, disturbed>>,
           LcdIsUp' <=> LcdIsUp, LcdIsDown' <=> LcdIsDown
    PROVE  LookInv'
<1>1. SameDrawing(uiState, uiState') /\ (IsStarting' <=> IsStarting)
  BY DEF SameDrawing, IsStarting
<1> QED BY <1>1, SameLook

LEMMA UnpublishedLook ==
    ASSUME LookInv, UNCHANGED <<queue, screenVars>>
    PROVE  LookInv'
<1>1. UNCHANGED <<uiState, lcdState, disturbed>>
  BY DEF screenVars
<1>2. (LcdIsUp' <=> LcdIsUp) /\ (LcdIsDown' <=> LcdIsDown)
  BY DEF LcdIsUp, LcdIsDown, IsPending, Has
<1> QED BY <1>1, <1>2, StillLook

LEMMA WakeUpLook ==
    ASSUME LitInv, LookInv, WakeUp
    PROVE  LookInv'
<1>1. queue = <<>> /\ queue' \in {<<>>, <<"TIME_CHANGED">>}
      /\ UNCHANGED <<uiState, lcdState, disturbed>>
  BY DEF WakeUp, Wake
<1>2. "TIME_CHANGED" \in Types
  BY DEF Types, OtherTypes
<1>3. \A type : ~Has(queue, type) /\ (Has(queue', type) => type = "TIME_CHANGED")
  BY <1>1, <1>2, HasFew
<1>4. ~LcdIsUp /\ ~LcdIsDown /\ ~LcdIsUp' /\ ~LcdIsDown'
  BY <1>3 DEF LcdIsUp, LcdIsDown, IsPending
<1> QED BY <1>1, <1>4, StillLook

LEMMA RegulatedLook ==
    ASSUME LitInv, LookInv, RegulatedStabilises
    PROVE  LookInv'
<1>1. IInv /\ waking /\ Publish(<<>>) /\ UNCHANGED <<uiState, lcdState, disturbed>>
  BY DEF LitInv, RegulatedStabilises, Calling, screenVars
<1>2. (LcdIsUp' <=> LcdIsUp) /\ (LcdIsDown' <=> LcdIsDown)
  BY <1>1, LcdIsKept, HasFew
<1> QED BY <1>1, <1>2, StillLook

LEMMA McuLook ==
    ASSUME LitInv, LookInv, McuStabilises
    PROVE  LookInv'
<1> DEFINE events == onMcuVoltageRailStabilisedEvents
<1>1. IInv /\ waking /\ Publish(events) /\ UNCHANGED <<uiState, lcdState, disturbed>>
  BY DEF LitInv, McuStabilises, Calling, screenVars
<1>2. "VOLTAGE_REGULATOR_ENABLED" \in Types
  BY DEF Types, OtherTypes
<1> DEFINE Neither(s) ==
               s \in Seq(Types) /\ ~Has(s, "LCD_ENABLED") /\ ~Has(s, "LCD_DISABLED")
<1>3. Neither(<<>>) /\ Neither(<<"VOLTAGE_REGULATOR_ENABLED">>)
  BY <1>2, HasFew
<1> HIDE DEF Neither
<1>4. Neither(events)
  BY <1>3 DEF onMcuVoltageRailStabilisedEvents
<1> HIDE DEF events
<1> USE DEF Neither
<1>5. (LcdIsUp' <=> LcdIsUp) /\ (LcdIsDown' <=> LcdIsDown)
  BY <1>1, <1>4, LcdIsKept
<1> QED BY <1>1, <1>5, StillLook

LEMMA ButtonsStopBouncingLook ==
    ASSUME LitInv, LookInv, ButtonsStopBouncing
    PROVE  LookInv'
<1> DEFINE events == onButtonsStoppedBouncingEvents
<1>1. IInv /\ waking /\ Publish(events) /\ UNCHANGED <<uiState, lcdState, disturbed>>
      /\ PORTA \in Buttons /\ buttonStateSampled \in Buttons
  BY DEF LitInv, IInv, TypesInv, ButtonsStopBouncing, Calling, screenVars
<1>2. events \in Seq(Types) /\ \A type \in Types \ ButtonTypes : ~Has(events, type)
  BY <1>1, ButtonsAreFound
<1> HIDE DEF events
<1>3. {"LCD_ENABLED", "LCD_DISABLED"} \subseteq Types \ ButtonTypes
  BY DEF Types, OtherTypes, ButtonTypes
<1>4. (LcdIsUp' <=> LcdIsUp) /\ (LcdIsDown' <=> LcdIsDown)
  BY <1>1, <1>2, <1>3, LcdIsKept
<1> QED BY <1>1, <1>4, StillLook

LEMMA UnheardLook ==
    ASSUME LitInv, LookInv, Unheard
    PROVE  LookInv'
<1>1. IInv /\ Publish(<<>>) /\ UNCHANGED <<uiState, lcdState, disturbed>>
      /\ queue # <<>> /\ Head(queue) \notin {"LCD_ENABLED", "LCD_DISABLED"}
  BY DEF LitInv, Unheard, Dispatching, screenVars
<1>2. (LcdIsUp' <=> LcdIsUp) /\ (LcdIsDown' <=> LcdIsDown)
  BY <1>1, LcdIsKept, HasFew
<1> QED BY <1>1, <1>2, StillLook

LEMMA MotorIsEnabledLook ==
    ASSUME LitInv, LookInv, MotorIsEnabled
    PROVE  LookInv'
<1>1. IInv /\ Publish(<<>>) /\ UNCHANGED <<uiState, lcdState, disturbed>>
      /\ queue # <<>> /\ Head(queue) \notin {"LCD_ENABLED", "LCD_DISABLED"}
  BY DEF LitInv, MotorIsEnabled, Dispatching, screenVars
<1>2. (LcdIsUp' <=> LcdIsUp) /\ (LcdIsDown' <=> LcdIsDown)
  BY <1>1, LcdIsKept, HasFew
<1> QED BY <1>1, <1>2, StillLook

LEMMA MotorIsDisabledLook ==
    ASSUME LitInv, LookInv, MotorIsDisabled
    PROVE  LookInv'
<1>1. IInv /\ UNCHANGED <<uiState, lcdState, disturbed>>
      /\ queue # <<>> /\ Head(queue) \notin {"LCD_ENABLED", "LCD_DISABLED"}
  BY DEF LitInv, MotorIsDisabled, Dispatching, screenVars
<1>2. PICK calibrated \in {<<>>, <<"DOOR_CALIBRATED">>} :
          Publish(calibrated \o voltageRegulatorDisableEvents)
  BY DEF MotorIsDisabled
<1> DEFINE after == voltageRegulatorDisableEvents
           events == calibrated \o after
           Only(s) == s \in Seq(Types) /\ \A type : Has(s, type) => type = "DOOR_CALIBRATED"
<1>3. "DOOR_CALIBRATED" \in Types
  BY DEF Types, OtherTypes
<1>4. after \in Seq(Types) /\ \A type : Has(after, type) => type = "VOLTAGE_REGULATOR_DISABLED"
  BY DisableEventsAre
<1> HIDE DEF after
<1>5. Only(calibrated)
  <2>1. Only(<<>>) /\ Only(<<"DOOR_CALIBRATED">>)
    BY <1>3, HasFew
  <2> HIDE DEF Only
  <2> QED BY <2>1
<1>6. events \in Seq(Types)
      /\ \A type : Has(events, type) => Has(calibrated, type) \/ Has(after, type)
  BY <1>4, <1>5, HasConcatenation
<1>7. Publish(events)
  BY <1>2 DEF after
<1> HIDE DEF events
<1>8. (LcdIsUp' <=> LcdIsUp) /\ (LcdIsDown' <=> LcdIsDown)
  BY <1>1, <1>4, <1>5, <1>6, <1>7, LcdIsKept
<1> QED BY <1>1, <1>8, StillLook

LEMMA ScreenTimeoutLook ==
    ASSUME LitInv, LitInv', LookInv, uiOnScreenTimeout
    PROVE  LookInv'
<1>1. CASE SecondsCounted = ScreenTimeoutSeconds
  <2>1. ~uiState'.isScreenOn
    BY <1>1, LitTypes DEF uiOnScreenTimeout, uiScreenOff, UiStates
  <2> QED BY <2>1, OffLook
<1>2. CASE SecondsCounted # ScreenTimeoutSeconds
  <2>1. IInv /\ waking /\ Publish(<<>>) /\ UNCHANGED <<uiState, lcdState, disturbed>>
    BY <1>2 DEF LitInv, uiOnScreenTimeout, Calling
  <2>2. (LcdIsUp' <=> LcdIsUp) /\ (LcdIsDown' <=> LcdIsDown)
    BY <2>1, LcdIsKept, HasFew
  <2> QED BY <2>1, <2>2, StillLook
<1> QED BY <1>1, <1>2

LEMMA LcdDisabledLook ==
    ASSUME LitInv, LitInv', LookInv, uiOnLcdDisabled
    PROVE  LookInv'
<1>1. /\ IInv /\ queue # <<>> /\ Head(queue) = "LCD_DISABLED" /\ Publish(<<>>)
      /\ uiState' = [uiState EXCEPT !.isLcdEnabled = FALSE]
      /\ UNCHANGED <<lcdState, disturbed>>
  BY DEF LitInv, uiOnLcdDisabled, Dispatching
<1>2. uiState \in UiStates /\ queue \in Seq(Types)
  BY LitTypes
<1>3. SameDrawing(uiState, uiState') /\ ~uiState'.isLcdEnabled
  BY <1>1, <1>2 DEF SameDrawing, UiStates
<1>4. LcdIsDown
  <2>1. 1 \in 1 .. Len(queue) /\ queue[1] = Head(queue)
    BY <1>1, <1>2
  <2> QED BY <1>1, <2>1 DEF LcdIsDown, IsPending, Has
<1>5. LcdIsUp' => LcdIsUp
  <2>1. IsPending("LCD_ENABLED")' => IsPending("LCD_ENABLED")
    BY <1>1, HasFew, PublishKeeps DEF IInv
  <2> QED BY <2>1 DEF LcdIsUp
<1>6. IsStarting' <=> IsStarting
  BY <1>3, <1>4 DEF IsStarting, SameDrawing
<1> QED BY <1>1, <1>3, <1>5, <1>6, SameLook

\* The supply is up: the LCD has yet to be configured, once or, for the motor, twice.
LEMMA VregEnabledLook ==
    ASSUME LitInv, LitInv', LookInv, VregEnabled
    PROVE  LookInv'
<1>1. /\ IInv /\ queue # <<>> /\ Head(queue) = "VOLTAGE_REGULATOR_ENABLED" /\ Publish(<<>>)
      /\ UNCHANGED uiState /\ (disturbed => disturbed')
  BY DEF LitInv, VregEnabled, Dispatching
<1>2. queue \in Seq(Types)
  BY LitTypes
<1>3. RailIsUp
  <2>1. 1 \in 1 .. Len(queue) /\ queue[1] = Head(queue)
    BY <1>1, <1>2
  <2> QED BY <1>1, <2>1 DEF RailIsUp, IsPending, Has
<1>4. (LcdIsUp' <=> LcdIsUp) /\ (LcdIsDown' <=> LcdIsDown)
  BY <1>1, LcdIsKept, HasFew
<1>5. ~LcdIsUp /\ (uiState.isScreenOn => IsStarting)
  BY <1>3 DEF LitInv, ConfigureInv
<1>6. uiState.isScreenOn => IsStarting'
  BY <1>1, <1>4, <1>5 DEF IsStarting
<1>7. IsStarting' => IsStarting
  BY <1>1, <1>5, <1>6 DEF IsStarting
<1> QED BY <1>1, <1>4, <1>5, <1>6, <1>7 DEF LookInv

\* The screen is switched on: nothing is drawn yet, or a drawing is still marked as
\* going on.
LEMMA OnLook ==
    ASSUME LitInv, LitInv', NEW type, Dispatching(type), type \notin Rails, Publish(<<>>),
           NEW ui \in UiStates, ~uiState.isScreenOn, uiScreenOn(ui),
           ui.isLcdEnabled = uiState.isLcdEnabled
    PROVE  LookInv'
<1>1. IInv /\ queue # <<>> /\ Head(queue) \notin Rails
  BY DispatchingIsAlone DEF LitInv
<1>2. SameRails
  BY <1>1, NothingPublished
<1>3. /\ uiState'.isScreenOn /\ uiState'.isLcdEnabled = uiState.isLcdEnabled
      /\ uiState'.isScreenBeingBlitted = ui.isScreenBeingBlitted
      /\ disturbed' = ui.isScreenBeingBlitted
  BY DEF uiScreenOn, UiStates
<1>4. ~LcdIsUp /\ (uiState.isLcdEnabled => LcdIsDown)
  BY DEF LitInv, ConfigureInv, WakingInv
<1>5. IsStarting' /\ ~LcdIsUp'
  BY <1>2, <1>3, <1>4 DEF IsStarting, SameRails
<1> QED BY <1>3, <1>5 DEF LookInv

LEMMA SystemInitialisedLook ==
    ASSUME LitInv, LitInv', uiOnSystemInitialised
    PROVE  LookInv'
<1> DEFINE ui == [uiState EXCEPT !.isScreenTimeoutDisabled = TRUE]
<1>1. Dispatching("SYSTEM_INITIALISED") /\ uiScreenOn(ui) /\ Publish(<<>>)
  BY DEF uiOnSystemInitialised
<1>2. ~uiState.isScreenOn /\ uiState \in UiStates
  <2>1. queue \in Seq(Types) /\ queue # <<>> /\ queue[1] = "SYSTEM_INITIALISED"
    BY <1>1, LitTypes DEF Dispatching
  <2>2. 1 \in 1 .. Len(queue)
    BY <2>1
  <2>3. IsPending("SYSTEM_INITIALISED")
    BY <2>1, <2>2 DEF IsPending, Has
  <2> QED BY <2>3, LitTypes DEF IInv, FirstInv
<1>3. ui \in UiStates /\ ui.isLcdEnabled = uiState.isLcdEnabled
  BY <1>2 DEF UiStates
<1>4. "SYSTEM_INITIALISED" \notin Rails
  BY DEF Rails
<1> HIDE DEF ui
<1> QED BY <1>1, <1>2, <1>3, <1>4, OnLook
-----------------------------------------------------------------------------
(***************************************************************************)
(* What is to be seen changes.                                             *)
(***************************************************************************)
\* Only the buffer has changed, and perhaps where the cursor is to be.
SameButBuffer(l) ==
    /\ l \in LcdStates
    /\ l.enableCount = lcdState.enableCount
    /\ (l.isBusy <=> lcdState.isBusy)
    /\ l.callback = lcdState.callback /\ l.waits = lcdState.waits
    /\ (l.isDisplayOn <=> lcdState.isDisplayOn)
    /\ (l.isCursorOn <=> lcdState.isCursorOn)
    /\ l.address = lcdState.address

SameButSeen(ui) ==
    /\ ui \in UiStates
    /\ (ui.isScreenOn <=> uiState.isScreenOn)
    /\ (ui.isLcdEnabled <=> uiState.isLcdEnabled)
    /\ (ui.isScreenBeingBlitted <=> uiState.isScreenBeingBlitted)

LEMMA BufferIsAnother ==
    ASSUME lcdState \in LcdStates, NEW buffer \in Buffers
    PROVE  SameButBuffer([lcdState EXCEPT !.isCurrent = buffer])
BY DEF SameButBuffer, LcdStates

LEMMA ShowsAnother ==
    ASSUME NEW ui, SameButSeen(ui), lcdState \in LcdStates, NEW b \in Shows(ui)
    PROVE  b \in States /\ SameButSeen(b.ui) /\ SameButBuffer(b.lcd)
<1> DEFINE buffer == lcdInitialised.isCurrent
<1>1. buffer \in Buffers
  BY DEF lcdInitialised, Buffers
<1> HIDE DEF buffer
<1>2. PICK cursor \in CursorPositions :
          b = [ui |-> [ui EXCEPT !.cursorPosition = cursor],
               lcd |-> [lcdState EXCEPT !.isCurrent = buffer]]
  BY DEF Shows, buffer
<1>3. SameButBuffer(b.lcd)
  BY <1>1, <1>2, BufferIsAnother
<1>4. SameButSeen(b.ui)
  BY <1>2 DEF UiStates, SameButSeen
<1>5. b \in States
  BY <1>2, <1>3, <1>4 DEF States, SameButSeen, SameButBuffer
<1> QED BY <1>3, <1>4, <1>5

LEMMA IncrementsOne ==
    ASSUME NEW ui, SameButSeen(ui), lcdState \in LcdStates, NEW b \in Increments(ui)
    PROVE  b \in States /\ SameButSeen(b.ui) /\ SameButBuffer(b.lcd)
<1> DEFINE buffer == [lcdState.isCurrent EXCEPT ![2][1] = FALSE]
<1>1. buffer \in Buffers
  BY DEF LcdStates, Buffers
<1>2. b = [ui |-> ui, lcd |-> [lcdState EXCEPT !.isCurrent = buffer]]
  BY DEF Increments, LcdStates
<1> HIDE DEF buffer
<1>3. SameButBuffer(b.lcd) /\ SameButSeen(b.ui)
  BY <1>1, <1>2, BufferIsAnother
<1>4. b \in States
  BY <1>2, <1>3 DEF States, SameButSeen, SameButBuffer
<1> QED BY <1>3, <1>4

\* A drawing that has been overtaken goes on, dirty.
LEMMA DirtyGoesOn ==
    ASSUME NEW l, SameButBuffer(l), NEW ui, ui.isScreenBlitDirty, IsGoingOn(uiState, lcdState)
    PROVE  IsGoingOn(ui, l)
<1>1. l.isBusy /\ HasCursor(l)
  BY DEF IsGoingOn, HasCursor, SameButBuffer
<1>2. IsReached(uiState, lcdState) => IsReached(ui, l)
  BY DEF IsReached, SameButBuffer
<1>3. \A line, column : IsPutting(uiState, lcdState, line, column) => IsPutting(ui, l, line, column)
  BY DEF IsPutting, SameButBuffer
<1>4. l.waits = lcdState.waits
  BY DEF SameButBuffer
<1> QED BY <1>1, <1>2, <1>3, <1>4 DEF IsGoingOn

LEMMA BlitLook ==
    ASSUME LitInv, LitInv', LookInv, NEW b \in States, SameButSeen(b.ui), SameButBuffer(b.lcd),
           Blits(b), LcdIsUp' => LcdIsUp, LcdIsDown' <=> LcdIsDown
    PROVE  LookInv'
<1> DEFINE c == uiScreenBlit(b)
<1>1. /\ Drawn(b, c)
      /\ ~b.ui.isLcdEnabled \/ b.ui.isScreenBeingBlitted =>
             /\ c.lcd = b.lcd
             /\ c.ui.isScreenBeingBlitted <=> b.ui.isScreenBeingBlitted
             /\ c.ui.isScreenBlitDirty <=> b.ui.isScreenBeingBlitted
      /\ ~(~b.ui.isLcdEnabled \/ b.ui.isScreenBeingBlitted) =>
             /\ c.lcd = lcdSetCursor(b.lcd, FALSE, "uiScreenSetAddressToHome")
             /\ c.ui.isScreenBeingBlitted /\ ~c.ui.isScreenBlitDirty
  BY ScreenBlitDoes
<1>2. uiState' = c.ui /\ lcdState' = c.lcd /\ disturbed' = (disturbed \/ IsDropped(b))
  BY DEF Blits, Becomes
<1> HIDE DEF c
<1>3. /\ uiState'.isScreenOn <=> uiState.isScreenOn
      /\ uiState'.isLcdEnabled <=> uiState.isLcdEnabled
      /\ IsStarting' <=> IsStarting
  <2>1. /\ uiState'.isScreenOn <=> uiState.isScreenOn
        /\ uiState'.isLcdEnabled <=> uiState.isLcdEnabled
    BY <1>1, <1>2 DEF Drawn, SameButDrawing, SameButSeen
  <2> QED BY <2>1 DEF IsStarting
<1>4. /\ b.ui.isLcdEnabled <=> uiState.isLcdEnabled
      /\ b.ui.isScreenBeingBlitted <=> uiState.isScreenBeingBlitted
      /\ b.lcd \in LcdStates /\ b.lcd.waits = lcdState.waits
      /\ b.lcd.isBusy <=> lcdState.isBusy
      /\ b.lcd.enableCount = lcdState.enableCount
  BY DEF SameButSeen, SameButBuffer
<1>5. ASSUME uiState.isScreenOn, ~IsStarting
      PROVE  IsDrawnBy(uiState', lcdState') \/ IsLost'
  <2>1. b.ui.isLcdEnabled /\ b.lcd.enableCount # 0
    BY <1>4, <1>5, LitTypes DEF IsStarting, Count
  <2>2. IsDrawnBy(uiState, lcdState) \/ IsLost
    BY <1>5 DEF LookInv
  <2>3. ASSUME uiState.isScreenBeingBlitted
        PROVE  IsDrawnBy(uiState', lcdState') \/ IsLost'
    <3>1. lcdState' = b.lcd /\ uiState'.isScreenBeingBlitted /\ uiState'.isScreenBlitDirty
      BY <1>1, <1>2, <1>4, <2>3
    <3>2. IsLost => IsLost'
      BY <1>2, <1>4, <3>1 DEF IsLost
    <3>3. IsDrawnBy(uiState, lcdState) => IsGoingOn(uiState, lcdState)
      BY <2>3 DEF IsDrawnBy
    <3>4. IsGoingOn(uiState, lcdState) => IsGoingOn(uiState', lcdState')
      BY <3>1, DirtyGoesOn
    <3> QED BY <2>2, <3>1, <3>2, <3>3, <3>4 DEF IsDrawnBy
  <2>4. ASSUME ~uiState.isScreenBeingBlitted
        PROVE  IsDrawnBy(uiState', lcdState')
    <3>1. lcdState.waits = <<>> /\ ~lcdState.isBusy
      BY <2>2, <2>4 DEF IsDrawnBy, IsLost, IsRight
    <3>2. lcdState' = lcdSetCursor(b.lcd, FALSE, "uiScreenSetAddressToHome")
          /\ uiState'.isScreenBeingBlitted
      BY <1>1, <1>2, <1>4, <2>1, <2>4
    <3>3. IsGoingOn(uiState', lcdState')
      BY <1>4, <2>1, <3>1, <3>2, HomeGoesOn
    <3> QED BY <3>2, <3>3 DEF IsDrawnBy
  <2> QED BY <2>3, <2>4
<1>6. ASSUME IsStarting, ~disturbed'
      PROVE  ~uiState'.isScreenBeingBlitted
  <2>1. ~disturbed /\ ~IsDropped(b)
    BY <1>2, <1>6
  <2>2. ~uiState.isScreenBeingBlitted
    BY <1>6, <2>1 DEF LookInv
  <2>3. ~b.ui.isLcdEnabled
    <3>1. LcdIsDown => \E i \in 1 .. Len(queue) : queue[i] = "LCD_DISABLED"
      BY DEF LcdIsDown, IsPending, Has
    <3>2. b.ui.isLcdEnabled => LcdIsDown
      BY <1>4, <1>6 DEF IsStarting
    <3> QED BY <1>4, <2>1, <2>2, <3>1, <3>2 DEF IsDropped
  <2> QED BY <1>1, <1>2, <1>4, <2>2, <2>3
<1>7. ASSUME LcdIsUp
      PROVE  ~lcdState'.isBusy
  <2>1. ~uiState.isLcdEnabled /\ ~lcdState.isBusy
    BY <1>7 DEF LitInv, ConfigureInv, LookInv
  <2> QED BY <1>1, <1>2, <1>4, <2>1
<1>8. (IsDrawnBy(uiState, lcdState) \/ IsLost)' <=> IsDrawnBy(uiState', lcdState') \/ IsLost'
  BY DEF IsLost
<1> QED BY <1>3, <1>5, <1>6, <1>7, <1>8 DEF LookInv

LEMMA NothingPublishedOfLcd ==
    ASSUME LitInv, Publish(<<>>), waking \/ (queue # <<>> /\ Head(queue) \notin Rails)
    PROVE  (LcdIsUp' <=> LcdIsUp) /\ (LcdIsDown' <=> LcdIsDown)
BY NothingPublished DEF LitInv, SameRails

LEMMA SplashEndsLook ==
    ASSUME LitInv, LitInv', LookInv, SplashEnds
    PROVE  LookInv'
<1> DEFINE shown == [uiState EXCEPT !.isScreenTimeoutDisabled = FALSE]
           heard(ui) == IF scenario.isCalibrationRequired
                          THEN [ui EXCEPT !.isButtonPressPreventedFromTurningOnScreen = TRUE]
                          ELSE [ui EXCEPT !.isInputIgnored = FALSE]
<1>1. PICK b \in Shows(shown) : Blits([b EXCEPT !.ui = heard(@)])
  BY DEF SplashEnds
<1>2. (LcdIsUp' <=> LcdIsUp) /\ (LcdIsDown' <=> LcdIsDown)
  BY NothingPublishedOfLcd DEF SplashEnds
<1>3. lcdState \in LcdStates /\ SameButSeen(shown)
  BY LitTypes DEF UiStates, SameButSeen
<1>4. b \in States /\ SameButSeen(b.ui) /\ SameButBuffer(b.lcd)
  BY <1>3, ShowsAnother
<1> DEFINE c == [b EXCEPT !.ui = heard(@)]
<1>5. c \in States /\ SameButSeen(c.ui) /\ SameButBuffer(c.lcd)
  <2>1. b.ui \in UiStates
    BY <1>4 DEF SameButSeen
  <2>2. SameButSeen(heard(b.ui))
    <3>1. CASE scenario.isCalibrationRequired
      BY <1>4, <2>1, <3>1 DEF SameButSeen, UiStates
    <3>2. CASE ~scenario.isCalibrationRequired
      BY <1>4, <2>1, <3>2 DEF SameButSeen, UiStates
    <3> QED BY <3>1, <3>2
  <2> HIDE DEF heard
  <2>3. c.ui = heard(b.ui) /\ c.lcd = b.lcd
    BY <1>4 DEF States
  <2>4. c \in States
    BY <1>4, <2>2 DEF States, SameButSeen
  <2> QED BY <1>4, <2>2, <2>3, <2>4
<1>6. Blits(c)
  BY <1>1
<1> HIDE DEF c
<1> QED BY <1>2, <1>5, <1>6, BlitLook

LEMMA DoorCalibratedLook ==
    ASSUME LitInv, LitInv', LookInv, uiDoorOnCalibrated
    PROVE  LookInv'
<1> DEFINE ui == [uiState EXCEPT !.isScreenTimeoutDisabled = FALSE]
<1>1. PICK b \in Shows(ui) : Blits(b)
  BY DEF uiDoorOnCalibrated
<1>2. (LcdIsUp' <=> LcdIsUp) /\ (LcdIsDown' <=> LcdIsDown)
  BY NothingPublishedOfLcd DEF uiDoorOnCalibrated, Dispatching, Rails
<1>3. lcdState \in LcdStates /\ SameButSeen(ui)
  BY LitTypes DEF UiStates, SameButSeen
<1> HIDE DEF ui
<1> QED BY <1>1, <1>2, <1>3, ShowsAnother, BlitLook

\* What a button does to the user interface, with nothing to be seen of it or something.
LEMMA BehavesLook ==
    ASSUME LitInv, LitInv', LookInv, NEW ui \in UiStates, SameButSeen(ui),
           ui.isScreenBlitDirty = uiState.isScreenBlitDirty,
           ui.cursorPosition = uiState.cursorPosition,
           NEW changes,
           \A b \in changes : b \in States /\ SameButSeen(b.ui) /\ SameButBuffer(b.lcd),
           Behaves(ui, changes), LcdIsUp' => LcdIsUp, LcdIsDown' <=> LcdIsDown
    PROVE  LookInv'
<1>1. CASE uiState' = ui /\ UNCHANGED <<lcdState, disturbed>>
  <2>1. uiState \in UiStates
    BY LitTypes
  <2>2. /\ uiState'.isScreenOn = uiState.isScreenOn
        /\ uiState'.isScreenBeingBlitted = uiState.isScreenBeingBlitted
    BY <1>1, <2>1 DEF SameButSeen, UiStates
  <2>3. SameDrawing(uiState, uiState')
    BY <1>1, <2>2 DEF SameDrawing
  <2>4. IsStarting' <=> IsStarting
    BY <1>1 DEF IsStarting, SameButSeen
  <2> QED BY <1>1, <2>3, <2>4, SameLook
<1>2. CASE \E b \in changes : Blits(b)
  BY <1>2, BlitLook
<1> QED BY <1>1, <1>2 DEF Behaves

LEMMA ReleasedLook ==
    ASSUME LitInv, LitInv', LookInv, NEW button \in BothButtons,
           uiInputOnButtonsReleased(button)
    PROVE  LookInv'
<1> DEFINE released == uiState.pressed \ {button}
           isLast == ~uiState.isButtonPressPreventedFromTurningOnScreen /\ released = {}
           ui == [uiState EXCEPT !.pressed = released,
                                 !.isScreenTimeoutDisabled = @ /\ ~isLast]
           shown == IF button = "right" /\ ~ui.isButtonPressTurningOnScreen
                      THEN Shows(ui) ELSE {}
<1>1. /\ Dispatching(ReleasedEvent[button]) /\ Publish(<<>>) /\ Behaves(ui, shown)
  BY DEF uiInputOnButtonsReleased
<1>2. (LcdIsUp' <=> LcdIsUp) /\ (LcdIsDown' <=> LcdIsDown)
  <2>1. queue # <<>> /\ Head(queue) \notin Rails
    BY <1>1, DispatchingIsAlone, ButtonEventsAreOthers DEF LitInv
  <2> QED BY <1>1, <2>1, NothingPublishedOfLcd
<1>3. lcdState \in LcdStates /\ uiState \in UiStates
  BY LitTypes
<1>4. /\ ui \in UiStates /\ SameButSeen(ui)
      /\ ui.isScreenBlitDirty = uiState.isScreenBlitDirty
      /\ ui.cursorPosition = uiState.cursorPosition
  <2>1. released \in Buttons
    BY <1>3 DEF UiStates, Buttons
  <2>2. isLast \in BOOLEAN
    OBVIOUS
  <2> HIDE DEF isLast, released
  <2> QED BY <1>3, <2>1, <2>2 DEF UiStates, SameButSeen
<1>5. \A b \in shown : b \in States /\ SameButSeen(b.ui) /\ SameButBuffer(b.lcd)
  BY <1>3, <1>4, ShowsAnother
<1> HIDE DEF ui, shown
<1> QED BY <1>1, <1>2, <1>4, <1>5, BehavesLook

LEMMA PressedLook ==
    ASSUME LitInv, LitInv', LookInv, NEW button \in BothButtons,
           uiInputOnButtonsPressed(button)
    PROVE  LookInv'
<1> DEFINE ui == [uiState EXCEPT !.pressed = @ \cup {button}]
           awake == [ui EXCEPT !.isButtonPressTurningOnScreen = ~ScreenStaysOff(ui),
                               !.isScreenTimeoutDisabled = TRUE]
           increments == IF button = "left" THEN Increments(awake) ELSE {}
<1>1. /\ Dispatching(PressedEvent[button]) /\ Publish(<<>>)
      /\ \/ ~ScreenStaysOff(ui) /\ uiScreenOn(awake)
         \/ Behaves(awake, increments)
         \/ Behaves(ui, {})
  BY DEF uiInputOnButtonsPressed
<1>2. queue # <<>> /\ Head(queue) \notin Rails /\ PressedEvent[button] \notin Rails
  BY <1>1, DispatchingIsAlone, ButtonEventsAreOthers DEF LitInv
<1>3. (LcdIsUp' <=> LcdIsUp) /\ (LcdIsDown' <=> LcdIsDown)
  BY <1>1, <1>2, NothingPublishedOfLcd
<1>4. lcdState \in LcdStates /\ uiState \in UiStates
  BY LitTypes
<1>5. /\ ui \in UiStates /\ SameButSeen(ui)
      /\ ui.isScreenBlitDirty = uiState.isScreenBlitDirty
      /\ ui.cursorPosition = uiState.cursorPosition
  BY <1>4 DEF UiStates, Buttons, SameButSeen
<1>6. /\ awake \in UiStates /\ SameButSeen(awake)
      /\ awake.isLcdEnabled = uiState.isLcdEnabled
      /\ awake.isScreenBlitDirty = uiState.isScreenBlitDirty
      /\ awake.cursorPosition = uiState.cursorPosition
  <2>1. ScreenStaysOff(ui) \in BOOLEAN
    BY DEF ScreenStaysOff
  <2>2. ui.isLcdEnabled = uiState.isLcdEnabled
    BY <1>4 DEF UiStates
  <2> HIDE DEF ui
  <2> QED BY <1>5, <2>1, <2>2 DEF UiStates, SameButSeen
<1>7. ScreenStaysOff(ui) <=> ui.isButtonPressPreventedFromTurningOnScreen \/ ui.isScreenOn
  BY DEF ScreenStaysOff
<1>8. \A b \in increments : b \in States /\ SameButSeen(b.ui) /\ SameButBuffer(b.lcd)
  BY <1>4, <1>6, IncrementsOne
<1> HIDE DEF awake, ui, increments
<1>9. CASE ~ScreenStaysOff(ui) /\ uiScreenOn(awake)
  <2>1. ~uiState.isScreenOn
    BY <1>5, <1>7, <1>9 DEF SameButSeen
  <2> QED BY <1>1, <1>2, <1>6, <1>9, <2>1, OnLook
<1>10. CASE Behaves(awake, increments)
  BY <1>3, <1>6, <1>8, <1>10, BehavesLook
<1>11. CASE Behaves(ui, {})
  BY <1>3, <1>5, <1>11, BehavesLook
<1> QED BY <1>1, <1>9, <1>10, <1>11

\* The LCD is up, and the first drawing is begun.
LEMMA LcdEnabledLook ==
    ASSUME LitInv, LitInv', LookInv, uiOnLcdEnabled
    PROVE  LookInv'
<1> DEFINE b == [Both EXCEPT !.ui.isLcdEnabled = TRUE]
           c == uiScreenBlit(b)
<1>1. /\ Dispatching("LCD_ENABLED") /\ Publish(<<>>) /\ Blits(b)
  BY DEF uiOnLcdEnabled
<1>2. IInv /\ queue # <<>> /\ Head(queue) = "LCD_ENABLED"
  BY <1>1, DispatchingIsAlone DEF LitInv
<1>3. lcdState \in LcdStates /\ uiState \in UiStates /\ queue \in Seq(Types)
      /\ Both \in States /\ lcdState.waits \in Seq(Waits)
  BY LitTypes
<1>4. LcdIsUp
  <2>1. 1 \in 1 .. Len(queue) /\ queue[1] = Head(queue)
    BY <1>2, <1>3
  <2> QED BY <1>2, <2>1 DEF LcdIsUp, IsPending, Has
<1>5. /\ uiState.isScreenOn /\ ~uiState.isLcdEnabled /\ ~LcdIsDown
      /\ ~lcdState.isBusy /\ lcdState.waits = <<>> /\ lcdState.enableCount # 0
  <2>1. ~IsConfiguring /\ ~IsTransacting /\ uiState.isScreenOn
    BY <1>4 DEF LitInv, ConfigureInv, TransactionInv
  <2> QED BY <1>4, <2>1, LitTypes DEF LitInv, ConfigureInv, LookInv, Count
<1>6. b \in States /\ b.lcd = lcdState /\ b.ui.isLcdEnabled /\ b.ui.isScreenOn
      /\ b.ui.isScreenBeingBlitted = uiState.isScreenBeingBlitted
  <2>1. b.lcd = lcdState /\ b.ui = [uiState EXCEPT !.isLcdEnabled = TRUE]
    BY DEF Both
  <2>2. b \in States
    BY <1>3 DEF Both, States, UiStates
  <2> HIDE DEF b
  <2> QED BY <1>3, <1>5, <2>1, <2>2 DEF UiStates
<1>7. uiState' = c.ui /\ lcdState' = c.lcd /\ (disturbed => disturbed')
  BY <1>1 DEF Blits, Becomes
<1> HIDE DEF b
<1>8. /\ Drawn(b, c)
      /\ b.ui.isScreenBeingBlitted => c.lcd = b.lcd /\ c.ui.isScreenBeingBlitted
      /\ ~b.ui.isScreenBeingBlitted =>
             /\ c.lcd = lcdSetCursor(b.lcd, FALSE, "uiScreenSetAddressToHome")
             /\ c.ui.isScreenBeingBlitted
  BY <1>6, ScreenBlitDoes
<1> HIDE DEF c
<1>9. ~IsStarting' /\ ~LcdIsUp'
  <2>1. uiState'.isLcdEnabled
    BY <1>6, <1>7, <1>8 DEF Drawn, SameButDrawing
  <2>2. LcdIsDown' => LcdIsDown
    <3>1. IsPending("LCD_DISABLED")' => IsPending("LCD_DISABLED")
      BY <1>1, <1>2, HasFew, PublishKeeps DEF IInv
    <3> QED BY <3>1 DEF LcdIsDown
  <2> QED BY <1>5, <2>1, <2>2 DEF IsStarting, LitInv, ConfigureInv
<1>10. CASE uiState.isScreenBeingBlitted
  <2>1. disturbed
    <3>1. IsStarting
      BY <1>5 DEF IsStarting
    <3> QED BY <1>10, <3>1 DEF LookInv
  <2>2. IsLost'
    BY <1>5, <1>6, <1>7, <1>8, <1>10, <2>1 DEF IsLost
  <2> QED BY <1>9, <2>2 DEF LookInv
<1>11. CASE ~uiState.isScreenBeingBlitted
  <2>1. lcdState' = lcdSetCursor(lcdState, FALSE, "uiScreenSetAddressToHome")
        /\ uiState'.isScreenBeingBlitted
    BY <1>6, <1>7, <1>8, <1>11
  <2>2. IsGoingOn(uiState', lcdState')
    BY <1>3, <1>5, <2>1, HomeGoesOn
  <2>3. IsDrawnBy(uiState, lcdState)'
    BY <2>1, <2>2 DEF IsDrawnBy
  <2> QED BY <1>9, <2>3 DEF LookInv
<1> QED BY <1>10, <1>11
-----------------------------------------------------------------------------
(***************************************************************************)
(* One of the LCD's waits ends.                                            *)
(***************************************************************************)
LEMMA ConfigureEndsLook ==
    ASSUME LitInv, LookInv, LcdWaitEnds, NEW i \in 1 .. Len(lcdState.waits),
           IsConfigure(lcdState.waits[i]),
           Becomes([Freed(i) EXCEPT
                        !.lcd = lcdConfigureStateMachine(@, lcdState.waits[i].at)]),
           Publish(lcdConfigureStateMachineEvents(lcdState.waits[i].at))
    PROVE  LookInv'
<1> DEFINE step == lcdState.waits[i].at
           l == Freed(i).lcd
           events == lcdConfigureStateMachineEvents(step)
<1>1. IInv /\ waking /\ disturbed' = disturbed
  BY DEF LitInv, LcdWaitEnds, Calling
<1>2. /\ Freed(i) \in States /\ l \in LcdStates /\ Freed(i).ui = uiState
  BY FreedIs, LcdIsState
<1>3. uiState' = uiState /\ lcdState' = lcdConfigureStateMachine(l, step)
  BY <1>2 DEF Becomes, States
<1>4. IsConfiguring
  BY DEF IsConfiguring, Configures
<1>5. uiState.isScreenOn /\ IsStarting /\ ~LcdIsUp /\ ~LcdIsDown
  BY <1>1, <1>4 DEF LitInv, ConfigureInv, WakingInv
<1>6. IsStarting' /\ (LcdIsUp' => step = LastStep)
  <2>1. "LCD_ENABLED" \in Types
    BY DEF Types, OtherTypes
  <2>2. events \in Seq(Types) /\ (Has(events, "LCD_ENABLED") => step = LastStep)
    <3> DEFINE May(s) == s \in Seq(Types) /\ (Has(s, "LCD_ENABLED") => step = LastStep)
    <3>1. May(<<>>) /\ (step = LastStep => May(<<"LCD_ENABLED">>))
      BY <2>1, HasFew
    <3> HIDE DEF May
    <3>2. May(events)
      BY <3>1 DEF lcdConfigureStateMachineEvents
    <3> QED BY <3>2 DEF May
  <2>3. Publish(events)
    OBVIOUS
  <2> HIDE DEF events
  <2>4. IsPending("LCD_ENABLED")' => step = LastStep
    BY <1>1, <1>5, <2>2, <2>3, PublishKeeps DEF IInv, LcdIsUp
  <2>5. ~uiState'.isLcdEnabled
    BY <1>3, <1>5 DEF IsStarting
  <2> QED BY <1>3, <1>5, <2>4, <2>5 DEF IsStarting, LcdIsUp
<1>7. step = LastStep => ~lcdState'.isBusy
  <2> HIDE DEF l, step
  <2> QED BY <1>2, <1>3 DEF lcdConfigureStateMachine, LcdStates
<1> QED BY <1>1, <1>3, <1>5, <1>6, <1>7 DEF LookInv

\* What a wait that is not of a configuration does.
Goes(i, b) ==
    \/ b = lcdTransactionCompleted(Freed(i))
    \/ b = [Freed(i) EXCEPT !.lcd = lcdWriteCharacter(@, lcdState.waits[i].line,
                                                          lcdState.waits[i].at)]

LEMMA GoesIsDrawn ==
    ASSUME LitInv, NEW i \in 1 .. Len(lcdState.waits), NEW b, Goes(i, b)
    PROVE  Drawn(Freed(i), b)
<1> DEFINE a == Freed(i)
           line == lcdState.waits[i].line
           column == lcdState.waits[i].at
<1>1. a \in States /\ a.lcd \in LcdStates /\ line \in Lines /\ column \in Nat
  BY FreedIs, LcdIsState DEF Waits
<1>2. b = lcdTransactionCompleted(a) \/ b = [a EXCEPT !.lcd = lcdWriteCharacter(a.lcd, line, column)]
  BY DEF Goes
<1> HIDE DEF a, line, column
<1>3. Drawn(a, lcdTransactionCompleted(a))
  BY <1>1, TransactionCompletedDraws
<1>4. Drawn(a, [a EXCEPT !.lcd = lcdWriteCharacter(a.lcd, line, column)])
  BY <1>1, WriteCharacterDraws, LcdDrawnIsDrawn
<1>5. Drawn(a, b)
  BY <1>2, <1>3, <1>4
<1> QED BY <1>5 DEF a

\* On an LCD that is being started nothing that was drawn before goes on.
LEMMA GoesIdly ==
    ASSUME LitInv, NEW i \in 1 .. Len(lcdState.waits), NEW b, Goes(i, b),
           ~uiState.isLcdEnabled, ~uiState.isScreenBeingBlitted
    PROVE  ~b.ui.isScreenBeingBlitted
<1> DEFINE a == Freed(i)
           idle == [a EXCEPT !.lcd.isBusy = FALSE]
<1>1. a \in States /\ a.ui = uiState
  BY FreedIs
<1>2. idle \in States /\ idle.ui = uiState
  BY <1>1 DEF States, LcdStates
<1>3. CASE b = lcdTransactionCompleted(Freed(i))
  <2>1. b = CallBack(idle)
    BY <1>3 DEF lcdTransactionCompleted
  <2> HIDE DEF idle
  <2> QED BY <1>2, <2>1, CallBackIsIdle
<1>4. CASE b = [a EXCEPT !.lcd = lcdWriteCharacter(@, lcdState.waits[i].line,
                                                      lcdState.waits[i].at)]
  BY <1>1, <1>4 DEF States
<1> QED BY <1>3, <1>4 DEF Goes

LEMMA TransactionEndsLook ==
    ASSUME LitInv, LitInv', LookInv, LcdWaitEnds, NEW i \in 1 .. Len(lcdState.waits),
           ~IsConfigure(lcdState.waits[i]), Publish(<<>>),
           NEW b, Goes(i, b), Becomes(b),
           uiState.isScreenOn /\ uiState.isLcdEnabled /\ uiState.isScreenBeingBlitted
             /\ IsGoingOn(uiState, lcdState) => IsDrawnBy(b.ui, b.lcd)
    PROVE  LookInv'
<1>1. waking /\ disturbed' = disturbed
  BY DEF LcdWaitEnds, Calling
<1>2. (LcdIsUp' <=> LcdIsUp) /\ (LcdIsDown' <=> LcdIsDown)
  BY <1>1, NothingPublishedOfLcd
<1>3. uiState' = b.ui /\ lcdState' = b.lcd
  BY DEF Becomes
<1>4. Freed(i).ui = uiState /\ lcdState.waits # <<>>
  BY FreedIs
<1>5. /\ uiState'.isScreenOn = uiState.isScreenOn /\ uiState'.isLcdEnabled = uiState.isLcdEnabled
  BY <1>3, <1>4, GoesIsDrawn DEF Drawn, SameButDrawing
<1>6. IsStarting' <=> IsStarting
  BY <1>2, <1>5 DEF IsStarting
<1>7. ~LcdIsUp'
  <2>1. IsTransacting
    BY DEF IsTransacting, Transacts
  <2> QED BY <1>2, <2>1 DEF LitInv, TransactionInv
<1>8. ASSUME IsStarting, ~disturbed
      PROVE  ~uiState'.isScreenBeingBlitted
  <2>1. ~uiState.isLcdEnabled
    BY <1>1, <1>8 DEF LitInv, WakingInv, IsStarting
  <2>2. ~uiState.isScreenBeingBlitted
    BY <1>8 DEF LookInv
  <2> QED BY <1>3, <2>1, <2>2, GoesIdly
<1>9. ASSUME uiState.isScreenOn, ~IsStarting
      PROVE  IsDrawnBy(b.ui, b.lcd)
  <2>1. uiState.isLcdEnabled
    BY <1>9 DEF IsStarting
  <2>2. IsDrawnBy(uiState, lcdState)
    BY <1>4, <1>9 DEF LookInv, IsLost
  <2>3. uiState.isScreenBeingBlitted /\ IsGoingOn(uiState, lcdState)
    BY <1>4, <2>2 DEF IsDrawnBy, IsRight
  <2> QED BY <1>9, <2>1, <2>3
<1>10. IsDrawnBy(uiState, lcdState)' <=> IsDrawnBy(b.ui, b.lcd)
  BY <1>3
<1> QED BY <1>1, <1>5, <1>6, <1>7, <1>8, <1>9, <1>10 DEF LookInv

LEMMA LcdWaitEndsLook ==
    ASSUME LitInv, LitInv', LookInv, LcdWaitEnds
    PROVE  LookInv'
<1> PICK i \in 1 .. Len(lcdState.waits) :
        LET wait == lcdState.waits[i]
            b == Freed(i)
        IN \/ /\ wait.handler = "lcdConfigureStateMachine"
              /\ Becomes([b EXCEPT !.lcd = lcdConfigureStateMachine(@, wait.at)])
              /\ Publish(lcdConfigureStateMachineEvents(wait.at))
           \/ /\ wait.handler = "lcdPutsStateMachine"
              /\ Becomes(lcdPutsStateMachine(b, wait.line, wait.at))
              /\ Publish(<<>>)
           \/ /\ wait.handler = "lcdTransactionCompleted"
              /\ Becomes(lcdTransactionCompleted(b))
              /\ Publish(<<>>)
  BY DEF LcdWaitEnds, Freed
<1> DEFINE wait == lcdState.waits[i]
           b == Freed(i)
           CanGoOn == /\ uiState.isScreenOn /\ uiState.isLcdEnabled
                      /\ uiState.isScreenBeingBlitted /\ IsGoingOn(uiState, lcdState)
<1>1. CASE /\ wait.handler = "lcdConfigureStateMachine"
           /\ Becomes([b EXCEPT !.lcd = lcdConfigureStateMachine(@, wait.at)])
           /\ Publish(lcdConfigureStateMachineEvents(wait.at))
  BY <1>1, ConfigureEndsLook DEF IsConfigure
<1>2. CASE /\ wait.handler = "lcdPutsStateMachine"
           /\ Becomes(lcdPutsStateMachine(b, wait.line, wait.at))
           /\ Publish(<<>>)
  <2>1. ~IsConfigure(wait)
    BY <1>2 DEF IsConfigure
  <2>2. CanGoOn => \E line \in Lines, column \in 2 .. Width + 1 :
                       /\ IsPutting(uiState, lcdState, line, column)
                       /\ wait.line = line /\ wait.at = column
    <3>1. lcdState.waits = <<CompletedWait>> => wait = CompletedWait
      OBVIOUS
    <3>2. wait # CompletedWait
      BY <1>2 DEF CompletedWait
    <3>3. \A line, column : IsPutting(uiState, lcdState, line, column) =>
              wait.line = line /\ wait.at = column
      <4>1. \A only : lcdState.waits = <<only>> => wait = only
        OBVIOUS
      <4> HIDE DEF wait
      <4>2. ASSUME NEW line, NEW column, IsPutting(uiState, lcdState, line, column)
            PROVE  wait.line = line /\ wait.at = column
        <5>1. wait = PutsWait(line, column)
          BY <4>1, <4>2 DEF IsPutting
        <5> QED BY <5>1 DEF PutsWait
      <4> QED BY <4>2
    <3> QED BY <3>1, <3>2, <3>3 DEF IsGoingOn
  <2>3. CASE wait.at <= Width
    <3> DEFINE c == [b EXCEPT !.lcd = lcdWriteCharacter(@, wait.line, wait.at)]
    <3>1. Becomes(c) /\ Goes(i, c)
      BY <1>2, <2>3 DEF lcdPutsStateMachine, Goes
    <3>2. c.ui = uiState /\ c.lcd = lcdWriteCharacter(b.lcd, wait.line, wait.at)
      BY FreedIs DEF States
    <3>3. CanGoOn => IsGoingOn(uiState, lcdWriteCharacter(b.lcd, wait.line, wait.at))
      BY <2>2, <2>3, DrawingGoesOn
    <3>4. CanGoOn => IsDrawnBy(c.ui, c.lcd)
      BY <3>2, <3>3 DEF IsDrawnBy
    <3> HIDE DEF c
    <3> QED BY <1>2, <2>1, <3>1, <3>4, TransactionEndsLook
  <2>4. CASE ~(wait.at <= Width)
    <3> DEFINE c == lcdTransactionCompleted(b)
    <3>1. Becomes(c) /\ Goes(i, c)
      BY <1>2, <2>4 DEF lcdPutsStateMachine, Goes
    <3>2. CanGoOn => IsDrawnBy(c.ui, c.lcd)
      BY <2>2, <2>4, DrawingGoesOn
    <3> HIDE DEF c
    <3> QED BY <1>2, <2>1, <3>1, <3>2, TransactionEndsLook
  <2> QED BY <2>3, <2>4
<1>3. CASE /\ wait.handler = "lcdTransactionCompleted"
           /\ Becomes(lcdTransactionCompleted(b))
           /\ Publish(<<>>)
  <2> DEFINE c == lcdTransactionCompleted(b)
  <2>1. Becomes(c) /\ Goes(i, c) /\ ~IsConfigure(wait)
    BY <1>3 DEF Goes, IsConfigure
  <2>2. CanGoOn => wait = CompletedWait
    <3>1. \A line, column : IsPutting(uiState, lcdState, line, column) =>
              wait = PutsWait(line, column)
      BY DEF IsPutting
    <3>2. \A line, column : wait # PutsWait(line, column)
      BY <1>3 DEF PutsWait
    <3>3. lcdState.waits = <<CompletedWait>> => wait = CompletedWait
      OBVIOUS
    <3> QED BY <3>1, <3>2, <3>3 DEF IsGoingOn
  <2>3. CanGoOn => IsDrawnBy(c.ui, c.lcd)
    BY <2>2, DrawingGoesOn
  <2> HIDE DEF c
  <2> QED BY <1>3, <2>1, <2>3, TransactionEndsLook
<1> QED BY <1>1, <1>2, <1>3
-----------------------------------------------------------------------------
(***************************************************************************)
(* What is meant to be seen is.                                            *)
(***************************************************************************)
LEMMA InitLooks == Init => LookInv
<1> SUFFICES ASSUME Init PROVE LookInv
  OBVIOUS
<1>1. ~uiState.isScreenOn
  BY DEF Init
<1>2. ~LcdIsUp
  BY <1>1, InitIsLit DEF LitInv, ConfigureInv
<1> QED BY <1>1, <1>2 DEF LookInv, IsStarting

LEMMA StepLooks ==
    ASSUME LitInv, LookInv, [Next]_vars
    PROVE  LookInv'
<1>1. LitInv'
  BY StepIsLit
<1>2. CASE WakeUp
  BY <1>2, WakeUpLook
<1>3. CASE WokenEnds \/ Fingers \/ UNCHANGED vars
  <2>1. UNCHANGED <<queue, screenVars>>
    BY <1>3 DEF WokenEnds, Fingers, vars, loopVars
  <2> QED BY <2>1, UnpublishedLook
<1>4. CASE Callback
  BY <1>1, <1>4, RegulatedLook, McuLook, ButtonsStopBouncingLook, LcdWaitEndsLook,
     ScreenTimeoutLook, SplashEndsLook DEF Callback
<1>5. CASE Dispatch
  BY <1>1, <1>5, SystemInitialisedLook, VregEnabledLook, LcdEnabledLook, LcdDisabledLook,
     MotorIsEnabledLook, MotorIsDisabledLook, UnheardLook, PressedLook, ReleasedLook,
     DoorCalibratedLook DEF Dispatch
<1> QED BY <1>2, <1>3, <1>4, <1>5 DEF Next

LEMMA LookHolds == Spec => [](LitInv /\ LookInv)
<1>1. Init => LitInv /\ LookInv
  BY InitIsLit, InitLooks
<1>2. LitInv /\ LookInv /\ [Next]_vars => (LitInv /\ LookInv)'
  BY StepIsLit, StepLooks
<1> QED BY <1>1, <1>2, PTL DEF Spec

LEMMA LookSuffices == LitInv /\ LookInv => AllIsDrawn
<1> SUFFICES ASSUME LitInv, LookInv, uiState.isScreenOn, uiState.isLcdEnabled,
                    queue = <<>>, ~disturbed
             PROVE  \/ uiState.isScreenBeingBlitted /\ lcdState.waits # <<>>
                    \/ /\ ~uiState.isScreenBeingBlitted
                       /\ lcdState.isDisplayOn
                       /\ \A line \in Lines : \A column \in 1 .. Width :
                              lcdState.isCurrent[line][column]
                       /\ lcdState.isCursorOn = (uiState.cursorPosition # NoCursor)
                       /\ lcdState.isCursorOn => lcdState.address = uiState.cursorPosition
  BY DEF AllIsDrawn
<1>1. ~IsStarting /\ ~IsLost
  <2>1. ~LcdIsDown
    BY HasFew DEF LcdIsDown, IsPending
  <2> QED BY <2>1 DEF IsStarting, IsLost
<1>2. IsDrawnBy(uiState, lcdState)
  BY <1>1 DEF LookInv
<1>3. ASSUME uiState.isScreenBeingBlitted
      PROVE  lcdState.waits # <<>>
  <2>1. \E wait : lcdState.waits = <<wait>>
    BY <1>2, <1>3 DEF IsDrawnBy, IsGoingOn, IsPutting
  <2> QED BY <2>1
<1>4. ASSUME ~uiState.isScreenBeingBlitted
      PROVE  /\ lcdState.isDisplayOn
             /\ \A line \in Lines : \A column \in 1 .. Width : lcdState.isCurrent[line][column]
             /\ lcdState.isCursorOn = (uiState.cursorPosition # NoCursor)
             /\ lcdState.isCursorOn => lcdState.address = uiState.cursorPosition
  <2>1. IsRight(uiState, lcdState)
    BY <1>2, <1>4 DEF IsDrawnBy
  <2>2. \A line \in Lines : \A column \in 1 .. Width : lcdState.isCurrent[line][column]
    <3>1. \A column \in 1 .. Width : column < Width + 1
      BY LcdAssumption
    <3> QED BY <2>1, <3>1 DEF IsRight, IsWritten
  <2>3. lcdState.isCursorOn = (uiState.cursorPosition # NoCursor)
    <3>1. lcdState.isCursorOn \in BOOLEAN
      BY LitTypes DEF LcdStates
    <3> QED BY <2>1, <3>1 DEF IsRight
  <2> QED BY <2>1, <2>2, <2>3 DEF IsRight
<1> QED BY <1>3, <1>4

\* Whatever is pressed and however long a line: but for the three coincidences, what the
\* user interface means to be seen is seen, cursor and all, or a drawing that will show
\* it is still going on (UiScreen.c:70).
THEOREM WhatIsMeantIsSeen == Spec => []AllIsDrawn
BY LookHolds, LookSuffices, PTL
=============================================================================

----------------------------- MODULE HexDigits -----------------------------
(***************************************************************************)
(* Platform/HexDigits.c: numbers to and from their hexadecimal digits,     *)
(* which are bytes of ASCII.                                               *)
(***************************************************************************)
EXTENDS Integers, Sequences

Digit0 == 48    \* '0'
LowerA == 97    \* 'a'
UpperA == 65    \* 'A'

NotADigit == 255

hexDigitLow(value) ==
    LET nybble == value % 16
    IN IF nybble > 9 THEN LowerA + (nybble - 10) ELSE Digit0 + nybble

hexDigitHigh(value) == hexDigitLow(value \div 16)

hexDigitsForByte(byte) == <<hexDigitHigh(byte), hexDigitLow(byte)>>

hexDigitsForWord(word) == hexDigitsForByte(word \div 2^8) \o hexDigitsForByte(word % 2^8)

hexDigitToNybble(digit) ==
    IF digit \in Digit0 .. Digit0 + 9 THEN digit - Digit0
    ELSE IF digit \in LowerA .. LowerA + 5 THEN 10 + digit - LowerA
    ELSE IF digit \in UpperA .. UpperA + 5 THEN 10 + digit - UpperA
    ELSE NotADigit

AreHexDigits(digits) == \A i \in 1 .. 4 : hexDigitToNybble(digits[i]) <= 15

\* Of four digits that are.
hexDigitsToWord(digits) ==
    LET word[i \in 0 .. 4] ==
            IF i = 0 THEN 0 ELSE 16 * word[i - 1] + hexDigitToNybble(digits[i])
    IN word[4]
=============================================================================

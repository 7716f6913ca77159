-------------------------- MODULE CalibrationMode --------------------------
(***************************************************************************)
(* Platform/CalibrationMode.c: commands and replies over a single wire,    *)
(* which the device and the host both drive and both hear.                 *)
(*                                                                         *)
(* The device sends the first byte of a reply when it has heard the end of *)
(* a command, and each other byte when it hears the one before, until it   *)
(* hears the end of a line.  It cannot tell its own bytes from the host's, *)
(* so a byte that is lost, spoilt or added puts it out of step.  Those are *)
(* the faults of the wire (at most MaxFaults); two bytes sent at once      *)
(* spoil each other, unless they are the same.  The end of a line may be   *)
(* lost like any byte, and any byte be heard as the end of a line.         *)
(*                                                                         *)
(* The host is the calibrator's serial client, cluck2sesame_device.py.     *)
(* It sends a lone end of line when it opens the port and forgets what it  *)
(* hears for a second.  Then it sends a command at a time, and reads two   *)
(* lines: its own, which it has heard as well, and the answer.  It raises  *)
(* an exception if either is not as it should be; nothing catches it, so   *)
(* the port is closed, until somebody starts the calibration again.        *)
(***************************************************************************)
EXTENDS HexDigits, SequencesExt

CONSTANTS
    Commands,       \* what the host sends, without the ends of lines
    Memory(_, _),   \* the 14 bits at NVMREGS and NVMADR
    Samples,        \* what periodicMonitorSampleNow() may return
    Noise,          \* what a spoilt byte is heard as, unless as the end of a line
    MaxFaults,
    MaxPast         \* bytes of memory past a reply before one that ends a line

CALIBRATIONMODE_CMD_REFCLK == 67            \* 'C'
CALIBRATIONMODE_CMD_READ == 82              \* 'R'
CALIBRATIONMODE_CMD_SAMPLEPARAMETERS == 83  \* 'S'
CALIBRATIONMODE_CMD_EOL == 10               \* '\n'
CALIBRATIONMODE_REPLY_ERROR == 69           \* 'E'
CALIBRATIONMODE_REPLY_RESULT == 61          \* '='
CarriageReturn == 13
Comma == 44
LetterO == 79
LetterK == 75

EOL == CALIBRATIONMODE_CMD_EOL
Bytes == 0 .. 255
Silence == -1
Whitespace == (9 .. 13) \cup (28 .. 32)

ASSUME CalibrationModeAssumption ==
    /\ \A command \in Commands : command \in Seq(Bytes \ {EOL})
    /\ \A s \in Samples : /\ {s.timestamp, s.flags} \subseteq Bytes
                           /\ {s.fvr, s.temperature} \subseteq 0 .. 2^16 - 1
    /\ \A command \in Commands : command # <<>> =>
           {Head(command), Last(command)} \cap Whitespace = {}
    /\ Noise \subseteq Bytes \ Whitespace
    /\ {MaxFaults, MaxPast} \subseteq Nat

VARIABLES
    received,           \* the two bytes deep buffer of the UART
    receiveBuffer, receiveBufferIndex,
    isTransmitting,
    transmit,           \* what is left at transmitBufferPtr, up to the end of the array
    past,               \* how far the pointer is past it
    shifting,           \* the byte being sent, or Silence: TRMT
    CLKREN,             \* the reference clock is switched on
    host,               \* "closed", "resetting", "idle"; a command sent, it awaits
                        \* the "echo", then the "result"; it is "answered" or has "raised"
    sending,            \* what is left of what it has written
    input,              \* what it has heard and not yet read
    command, line,      \* the command it sent, the line it read last
    faults,             \* of the wire so far
    opened              \* how many there had been when the host opened the port

deviceVars == <<receiveBuffer, receiveBufferIndex, isTransmitting, transmit, past, CLKREN>>
hostVars == <<host, command, line, opened>>
vars == <<deviceVars, received, shifting, hostVars, sending, input, faults>>

receiveBufferSize == 6
ReceiverDepth == 2

\* calibrationModeInitialise(), of a device whose settings require calibration.
Init ==
    /\ received = <<>>
    /\ receiveBuffer = [i \in 1 .. receiveBufferSize |-> 0]
    /\ receiveBufferIndex = 0
    /\ isTransmitting = FALSE
    /\ transmit = <<>>
    /\ past = 0
    /\ shifting = Silence
    /\ CLKREN = FALSE
    /\ host = "closed"
    /\ sending = <<>>
    /\ input = <<>>
    /\ command = <<>>
    /\ line = <<>>
    /\ faults = 0
    /\ opened = 0
-----------------------------------------------------------------------------
(***************************************************************************)
(* The replies.  Each has a static array of its own, but the reply to a    *)
(* read is made in the buffer that the command was received in.            *)
(***************************************************************************)
Reply(type, text) == <<type>> \o text \o <<EOL>>

ok == Reply(CALIBRATIONMODE_REPLY_RESULT, <<LetterO, LetterK>>)
replyResult0 == Reply(CALIBRATIONMODE_REPLY_RESULT, <<Digit0>>)
replyResult1 == Reply(CALIBRATIONMODE_REPLY_RESULT, <<Digit0 + 1>>)
replyErrorUnknownCommand == Reply(CALIBRATIONMODE_REPLY_ERROR, <<Digit0, Digit0 + 1>>)
replyErrorUnknownCommandArgument == Reply(CALIBRATIONMODE_REPLY_ERROR, <<Digit0, Digit0 + 2>>)

\* transmitBuffer, whose 18th byte is a second end of line.
replySampled(sample) ==
    Reply(CALIBRATIONMODE_REPLY_RESULT,
          hexDigitsForByte(sample.timestamp) \o <<Comma>> \o hexDigitsForByte(sample.flags)
            \o <<Comma>> \o hexDigitsForWord(sample.fvr)
            \o <<Comma>> \o hexDigitsForWord(sample.temperature)) \o <<EOL>>

nvmWordAt(address) == Memory(address \div 2^15, address % 2^15)

replyRead(address) == Reply(CALIBRATIONMODE_REPLY_RESULT, hexDigitsForWord(nvmWordAt(address)))

\* Sends the first byte of a buffer, unless another is still being sent.
transmitToHost(buffer) ==
    /\ past' = 0
    /\ IF shifting = Silence
         THEN /\ shifting' = Head(buffer)
              /\ transmit' = Tail(buffer)
         ELSE /\ transmit' = buffer
              /\ UNCHANGED shifting

\* What is past the end of the buffer is sent as well, whatever it is.
tryToTransmitNextByteToHost ==
    IF shifting # Silence THEN UNCHANGED <<shifting, transmit, past>>
    ELSE IF transmit # <<>>
      THEN /\ shifting' = Head(transmit)
           /\ transmit' = Tail(transmit)
           /\ UNCHANGED past
      ELSE \/ /\ past < MaxPast
              /\ shifting' \in Noise
              /\ past' = past + 1
              /\ UNCHANGED transmit
           \/ /\ shifting' = EOL
              /\ UNCHANGED <<past, transmit>>
-----------------------------------------------------------------------------
(***************************************************************************)
(* The commands.                                                           *)
(***************************************************************************)
IsCommand(name, length) == receiveBuffer[1] = name /\ receiveBufferIndex = length

onNoCommandReceived ==
    /\ receiveBufferIndex = 0
    /\ transmitToHost(ok)
    /\ UNCHANGED <<receiveBuffer, CLKREN>>

onSampleParametersCommandReceived ==
    /\ IsCommand(CALIBRATIONMODE_CMD_SAMPLEPARAMETERS, 1)
    /\ \E sample \in Samples : transmitToHost(replySampled(sample))
    /\ UNCHANGED <<receiveBuffer, CLKREN>>

\* Mutant of onRefclkCommandReceived: the clock is never switched off.
RefclkStaysOn ==
    /\ IsCommand(CALIBRATIONMODE_CMD_REFCLK, 2)
    /\ \/ /\ receiveBuffer[2] = Digit0
          /\ transmitToHost(replyResult0)
          /\ UNCHANGED CLKREN
       \/ /\ receiveBuffer[2] = Digit0 + 1
          /\ CLKREN' = TRUE
          /\ transmitToHost(replyResult1)
       \/ /\ receiveBuffer[2] \notin {Digit0, Digit0 + 1}
          /\ transmitToHost(replyErrorUnknownCommandArgument)
          /\ UNCHANGED CLKREN
    /\ UNCHANGED receiveBuffer

onRefclkCommandReceived ==
    /\ IsCommand(CALIBRATIONMODE_CMD_REFCLK, 2)
    /\ \/ /\ receiveBuffer[2] = Digit0
          /\ CLKREN' = FALSE
          /\ transmitToHost(replyResult0)
       \/ /\ receiveBuffer[2] = Digit0 + 1
          /\ CLKREN' = TRUE
          /\ transmitToHost(replyResult1)
       \/ /\ receiveBuffer[2] \notin {Digit0, Digit0 + 1}
          /\ transmitToHost(replyErrorUnknownCommandArgument)
          /\ UNCHANGED CLKREN
    /\ UNCHANGED receiveBuffer

onReadCommandReceived ==
    LET addressString == SubSeq(receiveBuffer, 2, 5)
    IN /\ IsCommand(CALIBRATIONMODE_CMD_READ, 5)
       /\ \/ /\ AreHexDigits(addressString)
             /\ receiveBuffer' = replyRead(hexDigitsToWord(addressString))
             /\ transmitToHost(receiveBuffer')
          \/ /\ ~AreHexDigits(addressString)
             /\ transmitToHost(replyErrorUnknownCommandArgument)
             /\ UNCHANGED receiveBuffer
       /\ UNCHANGED CLKREN

onUnknownCommandReceived ==
    /\ receiveBufferIndex # 0
    /\ ~IsCommand(CALIBRATIONMODE_CMD_SAMPLEPARAMETERS, 1)
    /\ ~IsCommand(CALIBRATIONMODE_CMD_REFCLK, 2)
    /\ ~IsCommand(CALIBRATIONMODE_CMD_READ, 5)
    /\ transmitToHost(replyErrorUnknownCommand)
    /\ UNCHANGED <<receiveBuffer, CLKREN>>
-----------------------------------------------------------------------------
(***************************************************************************)
(* onWokenFromSleep(), a byte at a time.                                   *)
(***************************************************************************)
Receiving == received # <<>>
NextByte == Head(received)

\* Mutant of HearsItself: it is not done before it has sent everything.
HearsItselfToTheEnd ==
    /\ isTransmitting
    /\ isTransmitting' = (NextByte # EOL \/ transmit # <<>>)
    /\ IF isTransmitting' THEN tryToTransmitNextByteToHost
                          ELSE UNCHANGED <<shifting, transmit, past>>
    /\ UNCHANGED <<receiveBuffer, receiveBufferIndex, CLKREN>>

HearsItself ==
    /\ isTransmitting
    /\ isTransmitting' = (NextByte # EOL)
    /\ IF isTransmitting' THEN tryToTransmitNextByteToHost
                          ELSE UNCHANGED <<shifting, transmit, past>>
    /\ UNCHANGED <<receiveBuffer, receiveBufferIndex, CLKREN>>

IgnoresCarriageReturn ==
    /\ ~isTransmitting
    /\ NextByte = CarriageReturn
    /\ UNCHANGED <<deviceVars, shifting>>


ObeysCommand ==
    /\ ~isTransmitting
    /\ NextByte = EOL
    /\ \/ onNoCommandReceived \/ onSampleParametersCommandReceived
       \/ onRefclkCommandReceived \/ onReadCommandReceived \/ onUnknownCommandReceived
    /\ receiveBufferIndex' = 0
    /\ isTransmitting' = TRUE

\* A line too long for the buffer leaves an index that no command has.
StoresByte ==
    /\ ~isTransmitting
    /\ NextByte \notin {CarriageReturn, EOL}
    /\ IF receiveBufferIndex < receiveBufferSize
         THEN /\ receiveBuffer' = [receiveBuffer EXCEPT ![receiveBufferIndex + 1] = NextByte]
              /\ receiveBufferIndex' = receiveBufferIndex + 1
         ELSE /\ receiveBufferIndex' = 255
              /\ UNCHANGED receiveBuffer
    /\ UNCHANGED <<isTransmitting, transmit, past, shifting, CLKREN>>

onWokenFromSleep ==
    /\ Receiving
    /\ received' = Tail(received)
    /\ HearsItself \/ IgnoresCarriageReturn \/ ObeysCommand \/ StoresByte
    /\ UNCHANGED <<hostVars, sending, input, faults>>
-----------------------------------------------------------------------------
(***************************************************************************)
(* The wire.  A byte lasts a millisecond and the device hears each within  *)
(* the time of the next, so its buffer is never overrun; it hears its own  *)
(* bytes no sooner than they have been sent.  The bytes of a line of the   *)
(* host's follow each other without a gap: what the device sends meanwhile *)
(* falls on one of them.                                                   *)
(***************************************************************************)
\* The host's own line, which it hears too, has come out otherwise.
EchoIsWrong ==
    /\ host = "echo"
    /\ ~IsPrefix(input, Append(command, EOL))
    /\ ~IsPrefix(Append(command, EOL), input)

IsListening == host \in {"idle", "echo", "result", "answered"} /\ ~EchoIsWrong

\* A byte or none for each.  What the host discards, or has no more use for as it
\* is bound to raise an exception, is left out.
Heard(byDevice, byHost) ==
    /\ Len(received \o byDevice) <= ReceiverDepth
    /\ received' = received \o byDevice
    /\ input' = IF IsListening THEN input \o byHost ELSE input

ByteSent ==
    /\ shifting # Silence
    /\ sending = <<>>
    /\ shifting' = Silence
    /\ Heard(<<shifting>>, <<shifting>>)
    /\ UNCHANGED <<deviceVars, hostVars, sending, faults>>

HostSendsByte ==
    /\ sending # <<>>
    /\ sending' = Tail(sending)
    /\ shifting' = Silence
    /\ \E byte \in IF shifting \in {Silence, Head(sending)} THEN {Head(sending)}
                    ELSE Noise \cup {EOL} : Heard(<<byte>>, <<byte>>)
    /\ UNCHANGED <<deviceVars, hostVars, faults>>

\* One of the two, or both, hear nothing or another byte instead.
Disturbed(sent) ==
    /\ faults < MaxFaults
    /\ faults' = faults + 1
    /\ \E instead \in {<<>>} \cup {<<noise>> : noise \in Noise \cup {EOL}} :
           \E byDevice, byHost \in {sent, instead} : Heard(byDevice, byHost)
    /\ UNCHANGED <<deviceVars, hostVars>>

ByteDisturbed ==
    /\ shifting # Silence
    /\ sending = <<>>
    /\ shifting' = Silence
    /\ Disturbed(<<shifting>>)
    /\ UNCHANGED sending

HostsByteDisturbed ==
    /\ sending # <<>>
    /\ sending' = Tail(sending)
    /\ shifting' = Silence
    /\ Disturbed(<<Head(sending)>>)

ByteAdded ==
    /\ Disturbed(<<>>)
    /\ UNCHANGED <<shifting, sending>>
-----------------------------------------------------------------------------
(***************************************************************************)
(* The host.                                                               *)
(***************************************************************************)
Quiet == shifting = Silence /\ received = <<>> /\ sending = <<>>

\* Somebody starts a calibration, minutes after the last.
HostOpens ==
    /\ host = "closed"
    /\ Quiet
    /\ host' = "resetting"
    /\ opened' = faults
    /\ sending' = <<EOL>>
    /\ UNCHANGED <<deviceVars, received, shifting, input, command, line, faults>>

\* A second outlasts every reply, but not what may be past it.
HostHasReset ==
    /\ host = "resetting"
    /\ Quiet \/ (shifting # Silence /\ past > 0)
    /\ host' = "idle"
    /\ UNCHANGED <<deviceVars, received, shifting, sending, input, command, line, opened, faults>>

HostSendsCommand ==
    /\ host \in {"idle", "answered"}
    /\ command' \in Commands
    /\ sending' = sending \o Append(command', EOL)
    /\ host' = "echo"
    /\ line' = <<>>
    /\ UNCHANGED <<deviceVars, received, shifting, input, opened, faults>>

strip(text) ==
    LET kept == {i \in DOMAIN text : text[i] \notin Whitespace}
    IN IF kept = {} THEN <<>> ELSE SubSeq(text, Min(kept), Max(kept))

startswith(text, byte) == text # <<>> /\ Head(text) = byte

lstrip(text, byte) ==
    LET kept == {i \in DOMAIN text : text[i] # byte}
    IN IF kept = {} THEN <<>> ELSE SubSeq(text, Min(kept), Len(text))

IsAscii(text) == \A i \in DOMAIN text : text[i] < 128

HostRaises ==
    /\ host' = "raised"
    /\ input' = <<>>

\* readline(), which half a minute without a byte ends as well.  The lines can be
\* compared a byte at a time, as the host does nothing before it has the whole.
HostReadsEcho ==
    LET echo == Append(command, EOL)
    IN /\ host = "echo"
       /\ \/ /\ IsPrefix(echo, input) \/ (Quiet /\ input = command)
             /\ host' = "result"
             /\ input' = SubSeq(input, Len(echo) + 1, Len(input))
          \/ /\ EchoIsWrong \/ (Quiet /\ IsStrictPrefix(input, command))
             /\ HostRaises
       /\ UNCHANGED <<deviceVars, received, shifting, sending, command, line, opened, faults>>

HostReadsResult ==
    LET end == SelectInSeq(input, LAMBDA byte : byte = EOL)
    IN /\ host = "result"
       /\ \/ end # 0 /\ line' = SubSeq(input, 1, end)
          \/ end = 0 /\ Quiet /\ line' = input
       /\ \/ /\ IsAscii(line') /\ startswith(strip(line'), CALIBRATIONMODE_REPLY_RESULT)
             /\ host' = "answered"
             /\ input' = SubSeq(input, Len(line') + 1, Len(input))
          \/ /\ ~(IsAscii(line') /\ startswith(strip(line'), CALIBRATIONMODE_REPLY_RESULT))
             /\ HostRaises
       /\ UNCHANGED <<deviceVars, received, shifting, sending, command, opened, faults>>

\* At the end of the calibration or because of the exception.  What has been
\* written is sent all the same.
HostCloses ==
    /\ host \in {"idle", "answered", "raised"}
    /\ host' = "closed"
    /\ input' = <<>>
    /\ command' = <<>>
    /\ line' = <<>>
    /\ UNCHANGED <<deviceVars, received, shifting, sending, opened, faults>>

\* What the host takes for the answer.
result == lstrip(strip(line), CALIBRATIONMODE_REPLY_RESULT)

\* They return TRUE.
refclk_on == host = "answered" /\ command = <<CALIBRATIONMODE_CMD_REFCLK, Digit0 + 1>>
                /\ result = <<Digit0 + 1>>
refclk_off == host = "answered" /\ command = <<CALIBRATIONMODE_CMD_REFCLK, Digit0>>
                /\ result = <<Digit0>>

Next == \/ onWokenFromSleep
        \/ ByteSent \/ HostSendsByte \/ ByteDisturbed \/ HostsByteDisturbed \/ ByteAdded
        \/ HostOpens \/ HostHasReset \/ HostSendsCommand
        \/ HostReadsEcho \/ HostReadsResult \/ HostCloses

Spec == Init /\ [][Next]_vars
-----------------------------------------------------------------------------
(***************************************************************************)
(* Properties.                                                             *)
(***************************************************************************)

\* What each command is answered with, the digits by name.
HexNames == <<48, 49, 50, 51, 52, 53, 54, 55, 56, 57, 97, 98, 99, 100, 101, 102>>
InHex(number, length) ==
    [i \in 1 .. length |-> HexNames[((number \div 16^(length - i)) % 16) + 1]]
ValueOf(digit) ==
    CHOOSE n \in 0 .. 15 : HexNames[n + 1] \in {digit, digit + 32}
IsHex(digit) == \E n \in 1 .. 16 : digit = HexNames[n] \/ (n > 10 /\ digit = HexNames[n] - 32)

Answers(sent) ==
    LET words == SelectSeq(sent, LAMBDA byte : byte # CarriageReturn)
        name == IF words = <<>> THEN EOL ELSE Head(words)
    IN IF words = <<>> THEN {ok}
       ELSE IF name = CALIBRATIONMODE_CMD_SAMPLEPARAMETERS /\ Len(words) = 1
         THEN {Reply(CALIBRATIONMODE_REPLY_RESULT,
                     InHex(s.timestamp, 2) \o <<Comma>> \o InHex(s.flags, 2) \o <<Comma>>
                       \o InHex(s.fvr, 4) \o <<Comma>> \o InHex(s.temperature, 4)) : s \in Samples}
       ELSE IF name = CALIBRATIONMODE_CMD_REFCLK /\ Len(words) = 2
         THEN {IF words[2] = Digit0 THEN replyResult0
               ELSE IF words[2] = Digit0 + 1 THEN replyResult1
               ELSE replyErrorUnknownCommandArgument}
       ELSE IF name = CALIBRATIONMODE_CMD_READ /\ Len(words) = 5
         THEN {IF \A i \in 2 .. 5 : IsHex(words[i])
                 THEN LET n(i) == ValueOf(words[i])
                      IN Reply(CALIBRATIONMODE_REPLY_RESULT,
                               InHex(Memory(n(2) \div 8,
                                            4096 * (n(2) % 8) + 256 * n(3) + 16 * n(4) + n(5)), 4))
                 ELSE replyErrorUnknownCommandArgument}
       ELSE {replyErrorUnknownCommand}

\* The host has read the answer, and goes on or gives up as it should.
IsRight ==
    /\ line \in Answers(command)
    /\ host = "answered" <=> Head(line) = CALIBRATIONMODE_REPLY_RESULT


\* Whatever became of the calibrations before, and however a fault of the wire left
\* the device - in the middle of a command, in the middle of a reply or past its
\* end - the end of line that the host sends on opening the port brings the two into
\* step: unless the wire is disturbed again each command gets its own answer.
OpeningBringsIntoStep ==
    faults = opened /\ host \in {"answered", "raised"} => IsRight

\* One fault of the wire, whichever byte it falls on or between, may spoil an answer,
\* but it cannot make the host believe that the reference clock is on when it is
\* off, or off when it is on: the echo and the answer would have to be spoilt both.
ClockIsAsAcknowledged ==
    faults <= 1 => (refclk_on => CLKREN) /\ (refclk_off => ~CLKREN)
=============================================================================

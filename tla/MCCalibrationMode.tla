------------------------- MODULE MCCalibrationMode -------------------------
(***************************************************************************)
(* What the host sends, and every way of getting a command wrong: a bad    *)
(* argument, a bad digit, a line too long for the buffer, no command;      *)
(* digits in either case and a carriage return among them, of an address   *)
(* whose two parts both matter.  A spoilt byte is heard as one of the      *)
(* digits that tell the commands for the clock, and their answers, apart.  *)
(***************************************************************************)
EXTENDS CalibrationMode

MCCommands ==
    {<<>>, <<83>>, <<67, 48>>, <<67, 49>>, <<67, 50>>,
     <<82, 56, 13, 48, 97, 70>>, <<82, 48, 71, 48, 48>>,
     <<83, 48, 48, 48, 48, 48, 48>>}

MCMemory(NVMREGS, NVMADR) ==
    IF <<NVMREGS, NVMADR>> = <<1, 175>> THEN 12495 ELSE NVMADR % 2^14

MCSamples == {[timestamp |-> 9, flags |-> 160, fvr |-> 4660, temperature |-> 65519]}

MCNoise == {48, 49}
=============================================================================

----------------------------- MODULE MCBattery -----------------------------
(***************************************************************************)
(* The calibration of the prototype in TestTemperature.c.  The samples of  *)
(* the reference are out of range; 3930, 3929, 3850 and 3849 mV, on either *)
(* side of the two thresholds; and 2492 mV, less than any battery has that *)
(* may be charged.  Those of the temperature are 30.5, 29.8, 5.4 and 4.6 C.*)
(***************************************************************************)
EXTENDS Battery

MCFvrSamples == {2767, 4231, 4232, 4319, 4320, 6672}
MCTemperatureSamples == {5205, 5219, 5464, 5472}
=============================================================================

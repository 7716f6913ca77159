-------------------------- MODULE MCNearScheduler --------------------------
(***************************************************************************)
(* A byte of two bits, so that deadlines wrap within a few ticks, with     *)
(* delays from zero to the longest allowed.                                *)
(***************************************************************************)
EXTENDS NearScheduler

CONSTANTS blink, debounce

MCHandlers == {blink, debounce}
MCDelays == {0, 1, TickModulus - 2}
=============================================================================

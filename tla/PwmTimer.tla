------------------------------ MODULE PwmTimer ------------------------------
(***************************************************************************)
(* Platform/PwmTimer.c: the reference count of the timer behind the PWMs.  *)
(* While it runs the processor idles instead of sleeping.                  *)
(***************************************************************************)
EXTENDS Integers

VARIABLES
    pwmEnableCount,
    T2ON                \* the timer is running

pwmVars == <<pwmEnableCount, T2ON>>

pwmTimerInitialise == pwmEnableCount = 0 /\ T2ON = FALSE

pwmTimerEnable ==
    /\ pwmEnableCount' = pwmEnableCount + 1
    /\ T2ON' = TRUE

\* Mutant of pwmTimerDisable: the timer is stopped for every client.
DisableForAll ==
    /\ pwmEnableCount' = 0
    /\ T2ON' = FALSE

pwmTimerDisable ==
    \/ /\ pwmEnableCount <= 1
       /\ pwmEnableCount' = 0
       /\ T2ON' = FALSE
    \/ /\ pwmEnableCount > 1
       /\ pwmEnableCount' = pwmEnableCount - 1
       /\ UNCHANGED T2ON

=============================================================================

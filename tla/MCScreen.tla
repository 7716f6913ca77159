------------------------------ MODULE MCScreen ------------------------------
(***************************************************************************)
(* Lines of one character, of which there are two; two seconds.  With the  *)
(* two lines a change may overtake the drawing or be overtaken by it.      *)
(***************************************************************************)
EXTENDS Screen

MCScenarios ==
    {[buttons |-> BothButtons, motorRuns |-> FALSE, isCalibrationRequired |-> FALSE],
     [buttons |-> {"right"}, motorRuns |-> TRUE, isCalibrationRequired |-> FALSE],
     [buttons |-> {"right"}, motorRuns |-> FALSE, isCalibrationRequired |-> TRUE]}
=============================================================================

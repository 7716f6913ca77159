------------------------------ MODULE MCEvent ------------------------------
(***************************************************************************)
(* A small firmware: three subscriptions to one type of event and one to   *)
(* another, one of them with a null handler, and a table that is one slot  *)
(* too short for all four.                                                 *)
(***************************************************************************)
EXTENDS Event

CONSTANTS s1, s2, s3, s4, woken, stopped, noArgs

MCSubscriptions == {s1, s2, s3, s4}
MCHandled == MCSubscriptions \ {s4}
MCTypes == {woken, stopped}
MCTypeOf == [s \in MCSubscriptions |-> IF s = s3 THEN stopped ELSE woken]
MCIdle == [type |-> woken, args |-> noArgs]
=============================================================================

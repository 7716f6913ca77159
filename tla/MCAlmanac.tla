----------------------------- MODULE MCAlmanac -----------------------------
(***************************************************************************)
(* Days of eight seconds and a cycle of four years, each day of which is   *)
(* reached both by counting and from the days that are set: in and after a *)
(* leap year's extra day, and the last second of the cycle.  The places    *)
(* are the corners of what can be entered, and one between them.           *)
(***************************************************************************)
EXTENDS Almanac

MCSetTimes ==
    {[date |-> [day |-> 28, month |-> 2, year |-> 1], time |-> [second |-> 0, minute |-> 1, hour |-> 1]],
     [date |-> [day |-> 29, month |-> 2, year |-> 0], time |-> [second |-> 1, minute |-> 0, hour |-> 1]],
     [date |-> [day |-> 31, month |-> 12, year |-> 3], time |-> [second |-> 1, minute |-> 1, hour |-> 1]]}

MCPlaces ==
    {[latitudeOffset |-> 50, longitudeOffset |-> -100],
     [latitudeOffset |-> -59, longitudeOffset |-> 100],
     [latitudeOffset |-> 7, longitudeOffset |-> -33]}
=============================================================================

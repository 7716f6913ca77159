-------------------------------- MODULE MCUi --------------------------------
(***************************************************************************)
(* A leap year and another, every month, the days at either end of each    *)
(* decade; a digit that nobody enters may still be passed on the way to one*)
(* that somebody does.  Locations on either side of the origins.  A door   *)
(* too low, which has to be set up again, and one that is not.             *)
(***************************************************************************)
EXTENDS Ui

MCDateDigits ==
    [place \in DatePlaces |->
        CASE place = 2 -> {2}
          [] place = 3 -> {0, 1}
          [] place = 9 -> {0, 1, 8, 9}
          [] place = 11 -> {0, 2}
          [] place = 12 -> {3}
          [] place \in {14, 15} -> {0}
          [] OTHER -> 0 .. 9]

MCLocationDigits ==
    [place \in LocationPlaces |->
        CASE place = 2 -> {0}
          [] place = 4 -> {0}
          [] place \in {8, 10} -> {0}
          [] place \in {6, 7} -> {1}
          [] OTHER -> 0 .. 9]

\* A place south of the origin of the tables, and not a whole number of degrees from it.
MCSouthernDigits == [MCLocationDigits EXCEPT ![1] = {5}, ![2] = {4}, ![4] = {9}]
=============================================================================

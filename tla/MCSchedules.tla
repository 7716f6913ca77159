---------------------------- MODULE MCSchedules ----------------------------
(***************************************************************************)
(* Days of three minutes, a year of two days and a byte of three values,   *)
(* so that dates, discriminators and slots come round again.  One slot is  *)
(* spare.  The sun rises at midnight on the second day.                    *)
(***************************************************************************)
EXTENDS Schedules

MCLocations == {"home", "away"}

Setting(place, mode, open, close) ==
    [location |-> place, mode |-> mode, autoOpenTime |-> open, autoCloseTime |-> close]

MCDefaults == Setting("home", "manual", 0, 0)

MCSettings ==
    {MCDefaults, Setting("home", "time", 0, 2), Setting("away", "time", 1, 1),
     Setting("home", "sun", 0, 0), Setting("away", "sun", 0, 0)}

MCSunTimes ==
    [day \in 0 .. 1, place \in MCLocations |->
        IF place = "away" THEN [open |-> 1, close |-> 1 + day]
        ELSE [open |-> 1 - day, close |-> 2]]
=============================================================================

----------------------------- MODULE SunEvents -----------------------------
(***************************************************************************)
(* SunEvents/: the times of sunrise and sunset for a day of the year and a *)
(* place, by interpolating between the entries of two tables that hold     *)
(* every sixth day at 55 degrees north, each with the minutes that five    *)
(* degrees to the north or to the south make.                              *)
(*                                                                         *)
(* Places are offsets from 55N 0E in tenths of a degree.  Integers are 16  *)
(* bits wide in the code; none of the sums gets near that.                 *)
(***************************************************************************)
EXTENDS Integers, Sequences

VARIABLES
    inputs,         \* sunEventsCalculationContext.inputs
    eventArgs       \* the arguments of SUN_EVENTS_CHANGED, static in the code

sunVars == <<inputs, eventArgs>>

LOOKUP_STEP == 6
LOOKUP_LENGTH == 366 \div LOOKUP_STEP
LONGLAT_ONE_DEGREE == 10
LONGLAT_HALF_DEGREE == LONGLAT_ONE_DEGREE \div 2
LOOKUP_DEGREES == 5 * LONGLAT_ONE_DEGREE
MINUTES_PER_DEGREE_LONGITUDE == 4
-----------------------------------------------------------------------------
(***************************************************************************)
(* The tables, two words of program memory to an entry.                    *)
(***************************************************************************)
sunriseLookupTable ==
    <<\h0828, \h01e4, \h0726, \h3ee6, \h0724, \h39e8, \h071f, \h33e9, \h071c, \h2aeb,
      \h0719, \h20ed, \h0716, \h14f0, \h0712, \h08f2, \h060f, \h3bf4, \h060c, \h2df6,
      \h0609, \h1ef9, \h0606, \h0ffc, \h0603, \h00fe, \h0500, \h3100, \h05fd, \h2202,
      \h05fb, \h1205, \h05f8, \h0307, \h04f5, \h3409, \h04f2, \h260b, \h04ef, \h180e,
      \h04eb, \h0b10, \h03e8, \h3f11, \h03e5, \h3314, \h03e2, \h2916, \h03de, \h2118,
      \h03db, \h1a19, \h03da, \h141b, \h03d8, \h111c, \h03d7, \h101d, \h03d7, \h111d,
      \h03d7, \h151c, \h03d9, \h1a1b, \h03db, \h2119, \h03de, \h2918, \h03e1, \h3216,
      \h03e4, \h3c14, \h04e8, \h0612, \h04eb, \h1110, \h04ee, \h1c0e, \h04f1, \h270c,
      \h04f4, \h3209, \h04f7, \h3d07, \h05fa, \h0805, \h05fd, \h1303, \h05ff, \h1f00,
      \h0502, \h2afe, \h0506, \h35fc, \h0608, \h01fa, \h060b, \h0df7, \h060e, \h19f5,
      \h0612, \h25f3, \h0614, \h32f0, \h0618, \h3eee, \h071c, \h0aec, \h071f, \h16ea,
      \h0722, \h21e8, \h0725, \h2be6, \h0727, \h34e5, \h0729, \h3be3, \h072a, \h3fe3,
      \h0829, \h01e4>>

sunsetLookupTable ==
    <<\h0ed7, \h271b, \h0eda, \h2f1a, \h0edd, \h3819, \h0fe1, \h0317, \h0fe4, \h0f15,
      \h0fe7, \h1c12, \h0fea, \h2910, \h0fee, \h350e, \h10f1, \h020c, \h10f4, \h0f09,
      \h10f7, \h1b07, \h10fb, \h2705, \h10fe, \h3303, \h1000, \h3f00, \h1103, \h0bfe,
      \h1105, \h17fb, \h1109, \h22fa, \h110c, \h2ef7, \h110f, \h39f5, \h1212, \h05f2,
      \h1215, \h10f1, \h1218, \h1cee, \h121c, \h26ec, \h121e, \h31e9, \h1222, \h3ae8,
      \h1325, \h02e7, \h1327, \h09e5, \h1328, \h0fe4, \h132a, \h12e3, \h132a, \h13e4,
      \h1329, \h12e4, \h1327, \h0fe5, \h1324, \h0ae6, \h1321, \h03e8, \h121e, \h3aea,
      \h121b, \h30ec, \h1218, \h25ee, \h1215, \h18f0, \h1212, \h0bf2, \h110f, \h3df5,
      \h110c, \h2ef8, \h1108, \h20f9, \h1106, \h10fc, \h1103, \h01fe, \h1000, \h3200,
      \h10fe, \h2202, \h10fb, \h1304, \h10f8, \h0407, \h0ff5, \h3509, \h0ff2, \h270b,
      \h0fef, \h190e, \h0feb, \h0d0f, \h0fe8, \h0112, \h0ee5, \h3614, \h0ee1, \h2d16,
      \h0ede, \h2519, \h0edb, \h201a, \h0ed9, \h1c1c, \h0ed6, \h1c1c, \h0ed6, \h1d1d,
      \h0ed7, \h211c>>

Signed8(byte) == IF byte < 128 THEN byte ELSE byte - 256

\* The minute of the day is in the upper bits of both words, an offset in the
\* lower byte of each.
readLookupEntry(table, index) ==
    LET word0 == table[2 * index + 1]
        word1 == table[2 * index + 2]
    IN [minuteOfDay |-> 64 * ((word0 \div 256) % 32) + ((word1 \div 256) % 64),
        offsetMinutesNorth |-> Signed8(word0 % 256),
        offsetMinutesSouth |-> Signed8(word1 % 256)]
-----------------------------------------------------------------------------
(***************************************************************************)
(* The interpolation.  Division truncates towards zero, as in C.           *)
(***************************************************************************)
Quot(n, d) == IF n >= 0 THEN n \div d ELSE -((-n) \div d)
Rem(n, d) == n - d * Quot(n, d)

\* The remainder is compared with half a degree whatever it was divided by.
Adjusted(n, d) ==
    Quot(n, d) + (IF Rem(n, d) >= LONGLAT_HALF_DEGREE THEN 1
                  ELSE IF Rem(n, d) <= -LONGLAT_HALF_DEGREE THEN -1 ELSE 0)

\* Only a positive remainder is rounded.
Interpolated(n) ==
    Quot(n, LOOKUP_STEP) + (IF Rem(n, LOOKUP_STEP) >= LOOKUP_STEP \div 2 THEN 1 ELSE 0)

NextIndex(index) == (index + 1) % LOOKUP_LENGTH

\* Mutant of LatitudeMinutes: the north's minutes to the south as well.
NorthernMinutes(first, second, latitudeOffset) ==
    LET offset == first.offsetMinutesNorth
                    + Quot(second.offsetMinutesNorth - first.offsetMinutesNorth, LOOKUP_STEP)
    IN Adjusted(offset * latitudeOffset, LOOKUP_DEGREES)

\* The offsets of the two entries are a sixth of the way between them on every day.
LatitudeMinutes(first, second, latitudeOffset) ==
    LET north == first.offsetMinutesNorth
                   + Quot(second.offsetMinutesNorth - first.offsetMinutesNorth, LOOKUP_STEP)
        south == first.offsetMinutesSouth
                   + Quot(second.offsetMinutesSouth - first.offsetMinutesSouth, LOOKUP_STEP)
    IN IF latitudeOffset >= 0
         THEN Adjusted(north * latitudeOffset, LOOKUP_DEGREES)
         ELSE Adjusted(south * (-latitudeOffset), LOOKUP_DEGREES)

LongitudeMinutes(longitudeOffset) ==
    Adjusted(longitudeOffset * (-MINUTES_PER_DEGREE_LONGITUDE), LONGLAT_ONE_DEGREE)

calculateSunEvent(table, day, place) ==
    LET index == day \div LOOKUP_STEP
        first == readLookupEntry(table, index)
        second == readLookupEntry(table, NextIndex(index))
        minuteOfDay ==
            Interpolated((day % LOOKUP_STEP) * (second.minuteOfDay - first.minuteOfDay))
              + first.minuteOfDay
              + LatitudeMinutes(first, second, place.latitudeOffset)
              + LongitudeMinutes(place.longitudeOffset)
    IN [hour |-> Quot(minuteOfDay, 60) % 2^8, minute |-> Rem(minuteOfDay, 60) % 2^8]

sunEventsCalculate(day, place) ==
    [sunrise |-> calculateSunEvent(sunriseLookupTable, day, place),
     sunset |-> calculateSunEvent(sunsetLookupTable, day, place)]
-----------------------------------------------------------------------------
(***************************************************************************)
(* The handlers.                                                           *)
(***************************************************************************)
Midnight == [hour |-> 0, minute |-> 0]

\* `place' is what the settings hold; nothing is calculated before the first date.
sunEventsInitialise(place) ==
    /\ inputs = [dayOfYear |-> 0, place |-> place]
    /\ eventArgs = [sunrise |-> Midnight, sunset |-> Midnight]

onLocationChanged(place) ==
    /\ inputs' = [inputs EXCEPT !.place = place]
    /\ eventArgs' = sunEventsCalculate(inputs.dayOfYear, place)

onDateChanged(dayOfYear) ==
    /\ inputs' = [inputs EXCEPT !.dayOfYear = dayOfYear]
    /\ eventArgs' = sunEventsCalculate(dayOfYear, inputs.place)
-----------------------------------------------------------------------------
(***************************************************************************)
(* What the times are measured against: the straight lines between the     *)
(* entries, over the days and over the latitudes, in 300ths of a minute.   *)
(***************************************************************************)
LinearTime(table, day, place) ==
    LET entry(n) == readLookupEntry(table, ((day \div 6) + n) % 61)
        between(a, b) == 6 * a + (day % 6) * (b - a)
        atLatitude55 == between(entry(0).minuteOfDay, entry(1).minuteOfDay)
        towardsPole ==
            IF place.latitudeOffset >= 0
              THEN between(entry(0).offsetMinutesNorth, entry(1).offsetMinutesNorth)
              ELSE between(entry(0).offsetMinutesSouth, entry(1).offsetMinutesSouth)
        degrees == IF place.latitudeOffset >= 0 THEN place.latitudeOffset
                                                ELSE -place.latitudeOffset
    IN 50 * atLatitude55 + degrees * towardsPole - 120 * place.longitudeOffset

MinuteOf(time) == 60 * time.hour + time.minute

IsTime(time) == time.hour \in 0 .. 23 /\ time.minute \in 0 .. 59

Distance(m, n) == IF m >= n THEN m - n ELSE n - m

IsWithin(minutes, time, linear) == Distance(300 * MinuteOf(time), linear) <= 300 * minutes
=============================================================================

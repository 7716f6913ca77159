SPECIFICATION AlmanacSpec
CONSTANTS
    SecondsPerMinute = 2
    MinutesPerHour = 2
    HoursPerDay = 2
    Years = 4
    SetTimes <- MCSetTimes
    Places <- MCPlaces
INVARIANTS
    DayOfYearIsTheDates
    KeepsTime
    SunTimesAreAccurate
PROPERTIES
    GetWasTrue

SPECIFICATION Spec
CONSTANTS
    MinutesPerDay = 3
    DaysPerYear = 2
    DiscriminatorModulus = 3
    MaxSchedules = 3
    Locations <- MCLocations
    Settings <- MCSettings
    Defaults <- MCDefaults
    SunTimes <- MCSunTimes
    MaxPending = 1
INVARIANTS
    HeldOnce
    TableIsCurrent
PROPERTIES
    UndisturbedDaysAreObeyed

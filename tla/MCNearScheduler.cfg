CONSTANTS
    blink = blink
    debounce = debounce
    Free = Free
    Handlers <- MCHandlers
    Delays <- MCDelays
    MaxSchedules = 2
    TickModulus = 4
SPECIFICATION FairSpec
INVARIANTS
    NcoRunsIffPending
PROPERTIES
    CalledInPromisedTick
    NeverEarly
    TimePasses

SPECIFICATION Spec
CONSTANTS
    Heights = {100, 128}
    DateDigits <- MCDateDigits
    LocationDigits <- MCLocationDigits
INVARIANTS
    EnteredDatesAreReal
    DoorMovesOnlyWhileHeld
    HearsWhatItShows
PROPERTY
    SetUpOnceForAll

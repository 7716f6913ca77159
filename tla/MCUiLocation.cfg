SPECIFICATION Spec
CONSTANTS
    Heights = {128}
    DateDigits <- MCDateDigits
    LocationDigits <- MCSouthernDigits
INVARIANT
    LocationIsAsEntered

SPECIFICATION FairSpec
CONSTANTS
    FvrSamples <- MCFvrSamples
    TemperatureSamples <- MCTemperatureSamples
    Minutes = {0, 5}
    FVRA2X = 2030
    temperatureCoefficient = 51493
    temperatureHighAdc = 641
    temperatureHighCelsius = 134
    MaxSafetyCount = 4
INVARIANTS
    NeverRechargesFull
    NeverChargedBlind
    SafeAsleep
PROPERTIES
    ChargesWhenItCan

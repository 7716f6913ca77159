SPECIFICATION Spec
CONSTANTS
    Commands <- MCCommands
    Memory <- MCMemory
    Samples <- MCSamples
    Noise <- MCNoise
    MaxFaults = 1
    MaxPast = 1
INVARIANTS
    
    OpeningBringsIntoStep
    ClockIsAsAcknowledged

SPECIFICATION Spec
CONSTANTS
    EncoderStaticCountLimit = 2
    PwmStart = 1
    PwmLast = 1
    PwmStep = 0
    Height = 1
    ManualMovementLimit = 1
    FindBottomLowering <- MCFindBottomLowering
    FindBottomRaising = 1
    FindBottomThreshold = 0
    MaxFindBottomIterations = 1
    UsedOptions = {"UP", "DN", "CALIBRATE"}
    ByteModulus = 3
    EncoderMayOverflow = FALSE
    EncoderMayFail = FALSE
    MaxEncoder = 1
    MaxMotorEnables = 1
INVARIANTS
    SupplyInOrder
    ClientsAreCounted
    EveryRunIsWatched
    CalibrationIsAccountedFor

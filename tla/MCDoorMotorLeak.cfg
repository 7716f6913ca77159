SPECIFICATION Spec
CONSTANTS
    EncoderStaticCountLimit = 2
    PwmStart = 1
    PwmLast = 1
    PwmStep = 1
    Height = 1
    ManualMovementLimit = 1
    FindBottomLowering <- MCFindBottomLowering
    FindBottomRaising = 1
    FindBottomThreshold = 0
    MaxFindBottomIterations = 1
    UsedOptions = {"OTHER"}
    ByteModulus = 4
    EncoderMayOverflow = TRUE
    EncoderMayFail = FALSE
    MaxEncoder = 1
    MaxMotorEnables = 2
PROPERTY
    MotorDisabledWhenItStops

SPECIFICATION FairSpec
CONSTANTS
    EncoderStaticCountLimit = 2
    PwmStart = 1
    PwmLast = 2
    PwmStep = 1
    Height = 2
    ManualMovementLimit = 1
    FindBottomLowering <- MCFindBottomLowering
    FindBottomRaising = 2
    FindBottomThreshold = 1
    MaxFindBottomIterations = 2
    UsedOptions = {}
    ByteModulus = 4
    EncoderMayOverflow = TRUE
    EncoderMayFail = FALSE
    MaxEncoder = 2
    MaxMotorEnables = 1
INVARIANTS
    NothingLeftOn
    RestsWhereWanted
    WorkingEncoderIsNotBlamed
PROPERTIES
    DoesAsPromised
    ArrivesByTheEncoder
    EveryMovementEnds
    SchedulesAreObeyed

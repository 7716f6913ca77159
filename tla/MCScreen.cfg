SPECIFICATION Spec
CONSTANTS
    Width = 1
    ScreenTimeoutSeconds = 2
    Scenarios <- MCScenarios
INVARIANTS
    AllIsDrawn
    OnlyAFingerKeepsItLit
    NoScheduleIsDropped
PROPERTIES
    NeverCutShort

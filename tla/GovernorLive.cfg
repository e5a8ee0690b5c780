SPECIFICATION FairSpec
CONSTANTS
    ConfirmSecs = 1
    ResizeHoldSecs = 2
    YieldHoldSecs = 2
    RecoverSecs = 3
    MinDwellSecs = 4
    ResizeChoices = {TRUE, FALSE}
    AgeCap = 4
    FaultKinds = {"call", "engine", "stop", "crash", "store"}
    MaxFaults = 2
PROPERTY CalmEndsInFull
PROPERTY StormEndsInYielded

SPECIFICATION Spec
CONSTANTS
    NSlots = 2
    Small = {2}
    HangStrikes = 2
    MayRefuse = TRUE
    MaxWork = 2
    MaxFaults = 1
    None = None
 
PROPERTY CheckpointAdvances
PROPERTY CheckpointCatchesUp
PROPERTY HangEnds

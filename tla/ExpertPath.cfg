SPECIFICATION Spec
CONSTANTS
    Expert = {e1, e2}
    NLayers = 2
    NSlots = 2
    LockMax = 2
    LockMayFail = TRUE
    MaxTokens = 2
    Empty = Empty
CHECK_DEADLOCK FALSE
 
INVARIANT CopySourceLocked
PROPERTY CrossLayerPredicted
PROPERTY TokensFinish

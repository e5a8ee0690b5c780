SPECIFICATION Spec
CONSTANTS
    Prompts <- MCPrompts
    m1 = m1
    m2 = m2
    Models = {m1, m2}
    Windows = {1, 3}
    Configs <- MCConfigs
    RamLimit = 4
    TrimX = 1
    Overlap = FALSE
    MayFail = TRUE
    MaxWriters = 1
    MaxStarts = 3
    Bad = Bad
    None = None
CHECK_DEADLOCK FALSE
 
 
 
INVARIANT RamBounded
 

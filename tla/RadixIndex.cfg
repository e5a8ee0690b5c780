SPECIFICATION Spec
CONSTANTS
    Prompt <- MCPrompt
    Handle = {h1, h2, h3}
    NoValue = NoValue
    UnpinsFirst = TRUE
    OutCap = 1
SYMMETRY Interchangeable
INVARIANT WellFormed
INVARIANT NoDanglingHandle
 

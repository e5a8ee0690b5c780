SPECIFICATION Spec
CONSTANTS
    a1 = a1
    a2 = a2
    b1 = b1
    c1 = c1
    a = a
    b = b
    c = c
    Req = {a1, a2, b1, c1}
    Key = {a, b, c}
    KeyOf <- MCKeyOf
    Plain = {c1}
    NSlots = 2
    OldFiles = {a}
    MayFail = TRUE
    None = None
CHECK_DEADLOCK FALSE
PROPERTY DeferredIsProcessed

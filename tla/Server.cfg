SPECIFICATION Spec
CONSTANTS
    c1 = c1
    c2 = c2
    x = x
    Req = {c1, c2, x}
    KindsOf <- MCKinds
    WantsOf <- MCWants
    ActsOn <- MCActs
    NSlots = 2
    Leavers = {x}
    SleepOn = TRUE
    MayFail = TRUE
    ClearIdle = TRUE
    MaxTokens = 2
    NoReq = NoReq
    NoSlot = NoSlot
CHECK_DEADLOCK FALSE
INVARIANT NoTaskLost
INVARIANT NoResultLeaked
INVARIANT PromptInContext
INVARIANT WorkerConfined
PROPERTY DecodeUndisturbed
PROPERTY WaitingServed

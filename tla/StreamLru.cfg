SPECIFICATION StreamSpec
CONSTANTS
    Slice = {e1, e2, e3, big}
    Oversized = {big}
    NSlots = 2
    NBounce = 2
    Empty = Empty
    QueueBound = 7
SYMMETRY Interchangeable
CHECK_DEADLOCK FALSE
INVARIANT KernelReadsItsExpert
INVARIANT StagedSliceStable

SPECIFICATION ArcSpec
CONSTANTS
    Key = {k1, k2, k3, k4}
    Capacity = 2
    NoKey = NoKey
    PairedUnpins = TRUE
    ListBound = 5
SYMMETRY Interchangeable
INVARIANT WithinCapacity
INVARIANT ResidentOnce
PROPERTY PinnedNeverVictim
PROPERTY OnlyUnpinOverfills

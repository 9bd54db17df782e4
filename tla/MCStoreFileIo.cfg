SPECIFICATION Spec
CONSTANTS
    NoDim = NoDim
    Root = Root
    h1 = h1
    h2 = h2
    mem1 = mem1
    v = v
    w = w
    Handles = {h1, h2}
    Plans <- MCPlans
    Threshold = 3
    Flock = FALSE
    IoErrors = {"append", "checkpoint", "load"}
    Decodings <- MCDecodings
    Free = Free
    Unknown = Unknown
    MaxPlans = 2
    MaxStops = 3
    MaxFlushes = 1
SYMMETRY Symmetry
CHECK_DEADLOCK FALSE
INVARIANTS
    SingleWriter
    MainWhole
    AckedDurable
PROPERTY
    StoresDurably

SPECIFICATION Spec
CONSTANTS
    NoDim = NoDim
    Root = Root
    h1 = h1
    h2 = h2
    mem1 = mem1
    v = v
    w = w
    Handles = {h1, h2}
    Plans <- MCPlans
    Threshold = 3
    Flock = TRUE
    IoErrors = {}
    Decodings <- MCDecodings
    Free = Free
    Unknown = Unknown
    MaxPlans = 3
    MaxStops = 3
    MaxFlushes = 1
SYMMETRY Symmetry
CHECK_DEADLOCK FALSE
INVARIANTS
    TypeOK
    RecoveryInv
    LogInOrder
    ReopenRestores
    CounterCoversLog
    LazyTailExact

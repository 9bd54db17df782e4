SPECIFICATION Spec
CONSTANTS
    NoDim = NoDim
    Root = Root
    mem = mem
    v = v
    w = w
    Statements <- MCStatements
    MaxClock = 4
INVARIANTS
    AsOfExact
    SinceExact
    HorizonExact
    TablesRebuilt
PROPERTY
    MemoryIsolation

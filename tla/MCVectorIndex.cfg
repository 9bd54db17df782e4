SPECIFICATION Spec
CONSTANTS
    Ids = {1, 2}
    Vectors <- MCVectors
    MaxFloat = 8
    Infinity = Infinity
    NaN = NaN
    MaxUpserts = 3
    MaxRemoves = 2
CHECK_DEADLOCK FALSE
INVARIANTS
    ExactSearch
    HnswSound

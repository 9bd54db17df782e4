SPECIFICATION Spec
CONSTANTS
    MaxInt = 3
    MaxDepth = 2
    Unit = 120
    Families <- MCFamilies
    Idf <- MCIdf
CHECK_DEADLOCK FALSE
INVARIANTS
    OrderTotal
    PredicatesPartition
    VotesAgree
    PageExact
    RowsShown
    LexicalMonotone

SPECIFICATION Spec
CONSTANTS
    NoDim = NoDim
    Root = Root
    mem = mem
    Lines <- MCLines
    Tables = {"t"}
    Dims = {2, 3}
    Ids <- MCIds
    Texts <- MCTexts
    Jsons <- MCJsons
    Memories = {mem}
    Times = {0}
    Decodings <- MCDecodings
    BuiltinTables = {"global", "meta"}
    MaxClock = 2
    MaxHistory = 3
CHECK_DEADLOCK FALSE
INVARIANTS
    FileCurrent
    AnalyzerAgrees
    RestartKeepsTables
    DimensionsKept

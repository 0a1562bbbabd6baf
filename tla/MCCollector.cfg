SPECIFICATION FairSpec
CONSTANTS
    NoObj = NoObj
    NoType = NoType
    NoRequest = NoRequest
    Objects = {o1, o2}
    TypeInfos <- PairTypes
    CellIdx <- TwoCells
    Globals = {g}
    FrameWords = {f}
    RegWords = {r}
INVARIANTS
    NoDangling
    TriColour
PROPERTIES
    FreesOnlyGarbage
    SweepIsComplete
    CollectionEnds
    ImplementsManagedMemory
CHECK_DEADLOCK FALSE

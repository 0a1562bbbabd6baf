SPECIFICATION Spec
CONSTANTS
    Mem <- Blocks
    Empty = Empty
    Hash <- Crowded
    MinCap = 2
INVARIANTS
    ProbesEnd
    LookupExact
CHECK_DEADLOCK FALSE

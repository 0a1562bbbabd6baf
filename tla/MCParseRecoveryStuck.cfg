SPECIFICATION FairSpec
CONSTANTS
    Inputs <- Misplaced
    Programs <- None
PROPERTY ParserEnds
CHECK_DEADLOCK FALSE

SPECIFICATION FairSpec
CONSTANTS
    Inputs <- AllInputs
    Programs <- Grammatical
INVARIANTS
    AcceptsTheGrammar
    FunctionsAreKept
PROPERTIES
    EndsOrIsStuck
CHECK_DEADLOCK FALSE

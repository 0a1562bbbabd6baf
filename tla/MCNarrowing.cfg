SPECIFICATION Spec
CONSTANTS
    x = x
    Vars <- OneVar
    Conditions <- AllConditions
    Statements <- AllStatements
    Height <- HeightOf
    Programs <- AllPrograms
INVARIANTS
    ConfinedNeverReadsNull
    ValueIsReturned
    UnreachableNeverRuns
CHECK_DEADLOCK FALSE

SPECIFICATION Spec
CONSTANTS
    x = x
    Vars <- OneVar
    Conditions <- AllConditions
    Statements <- AllStatements
    Height <- HeightOf
    Programs <- BlockPrograms
INVARIANT AssignmentEndsNarrowing
CHECK_DEADLOCK FALSE

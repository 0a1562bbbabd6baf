SPECIFICATION FairSpec
CONSTANTS
    d1 = d1
    d2 = d2
    c1 = c1
    c2 = c2
    q1 = q1
    q2 = q2
    Docs <- TwoDocs
    Compilers <- TwoCompilers
    Requests <- OneRequest
    Kinds <- AnyKind
    NoDiag = NoDiag
    NoDoc = NoDoc
    MaxStates <- OneChanges
    MaxOpens <- OneChanges
INVARIANT AnalysisIsOfCurrentText
PROPERTIES
    DiagnosticsAreCurrent
    AnswersAreFresh
    DiagnosticsCatchUp
    RequestsAreAnswered
CHECK_DEADLOCK FALSE

SPECIFICATION Spec
CONSTANTS
    Key <- MCKey
    Requests <- MCRequests
    Nothing = Nothing
INVARIANTS
    TypeOK
    VerdictIsExact
    WorklistCounts
    StoredWholeOrNotAtAll
    CompiledGraphConsistent
CHECK_DEADLOCK FALSE

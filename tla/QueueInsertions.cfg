SPECIFICATION InsertionSpec
CONSTANTS
    Task <- MCTask
    Children <- MCChildren
    Token = {1, 2}
    Enqueuer = {r}
    Worker = {w1, w2}
    Absent = Absent
    Unclaimed = Unclaimed
    NULL = NULL
SYMMETRY MCSymmetry
INVARIANTS
    TypeOK
    FinishesNeverDeadlock
PROPERTIES
    StaleStaysStale
    OnlyExpiredClaimsLost
    ImplementsExecutionQueue

SPECIFICATION Spec
CONSTANTS
    Task = {t1, t2}
    Token = {k1, k2, k3, k4}
    Worker = {w1, w2}
    Timely = {w1}
    NULL = NULL
    Lease = 6
    Heartbeat = 2
    MaxDelay = 1
    MaxTime = 9
SYMMETRY MCSymmetry
INVARIANTS
    TypeOK
    TimelyKeepsClaim
PROPERTY ImplementsExecutionQueue

SPECIFICATION PlatformSpec
CONSTANTS
    Workflow = {"w"}
    Task <- MCTask
    workflow_of <- MCWorkflowOf
    Parents <- MCParents
    MaxTries <- MCMaxTries
    Output = {o}
    NULL = NULL
    Worker = {w1, w2}
    Token = {1, 2, 3, 4, 5}
    Absent = Absent
    Unclaimed = Unclaimed
    MaxFaults = 1
SYMMETRY MCSymmetry
INVARIANTS
    PlatformTypeOK
    RunningTaskQueued
    QueuedTaskReady
PROPERTY UsesWorkflowExecutions

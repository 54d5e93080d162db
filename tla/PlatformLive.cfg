SPECIFICATION FairPlatformSpec
CONSTANTS
    Workflow = {"w"}
    Task <- MCChainTask
    workflow_of <- MCChainWorkflowOf
    Parents <- MCChainParents
    MaxTries <- MCChainMaxTries
    Output = {o}
    NULL = NULL
    Worker = {w1, w2}
    Token = {1, 2, 3, 4}
    Absent = Absent
    Unclaimed = Unclaimed
    MaxFaults = 2
PROPERTIES
    EverythingSettles
    StopReached

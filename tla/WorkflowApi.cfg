SPECIFICATION ApiSpec
CONSTANTS
    Workflow <- MCWorkflow
    Task <- MCTask
    workflow_of <- MCWorkflowOf
    Parents <- MCParents
    MaxTries <- MCMaxTries
    Output = {o1, o2}
    NULL = NULL
    Client = {c}
SYMMETRY MCSymmetry
INVARIANTS
    TypeOK
    ApiTypeOK
    DependencyCount
    ReportedReady
    WorkflowVerdict
    AttemptAccounting
    ShownVerdictHolds
PROPERTIES
    TerminalStable
    AnnouncedIsFound
    NeverShownGoingBack

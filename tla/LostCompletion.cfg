SPECIFICATION Spec
CONSTANTS
    Workflow = {"w"}
    Task <- MCTask
    TaskOrder <- MCTaskOrder
    workflow_of <- MCWorkflowOf
    Parents <- MCParents
    MaxTries <- MCMaxTries
    Output = {o}
    NULL = NULL
    Session = {s1, s2}
INVARIANT LastTaskCompletesWorkflow

SPECIFICATION FairSpec
CONSTANTS
    Trigger = {1, 2, 3, 4}
    Scheduler = {s1, s2}
    interval <- MCInterval
    until <- MCUntil
    enabled = {1, 2, 3, 4}
    workflow_enabled = {1, 2, 4}
    registered = {1, 2, 3}
    raising <- MCRaising
    NULL = NULL
    MaxTime = 4
    MaxCrashes = 1
INVARIANTS
    TypeOK
    ScheduleMatchesExecutions
PROPERTY OnlyFailingOccurrencesBlock

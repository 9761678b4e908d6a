CONSTANTS
    j1 = j1
    j2 = j2
    j3 = j3
    Jobs = {j1, j2, j3}
    MaxWaits = 1
    MaxRuns = 1
SPECIFICATION FairSpec

INVARIANTS
    TypeOK
    NoStrandedJob
    OnePlace
    NoUseAfterFree
    BetweenHandlers
PROPERTIES
    RunsAreOrderly
    ImplementsLifecycle
    JobsRun
CHECK_DEADLOCK FALSE

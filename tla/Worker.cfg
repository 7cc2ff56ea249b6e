SPECIFICATION FairSpec
CONSTANTS
    w1 = w1  c1 = c1  c2 = c2
    Workers = {w1}
    Calls = {c1, c2}
    Schedules = {"sweep", "reconcile"}
    Routes = {"alerts"}
    Attempts = 2
    MaxPeriod = 1
    MaxFaults = 1
    MaxDeploys = 1
CONSTRAINTS
    OneTrouble
    CallsRace
INVARIANTS
    RunningIsRun
    SucceedsOnce
PROPERTIES
    DueIsServedOrReported
CHECK_DEADLOCK FALSE

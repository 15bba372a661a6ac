SPECIFICATION FairSpec
CONSTANTS
    job = job
    poison = poison
    Envelopes = {job, poison}
    Poison = {poison}
    WithJob = {job}
    LaneOf <- MCLaneOf
    MaxDeliver = 2
    WorkerLimit = 2
    MaxFailures = 2
    MaxCrashes = 1
INVARIANTS
    RemovedAccounted
    BudgetRespected
PROPERTY EventuallySettled
CHECK_DEADLOCK FALSE

SPECIFICATION FairSpec
CONSTANTS
    j1 = j1
    j2 = j2
    c1 = c1
    c2 = c2
    x1 = x1
    made = made
    Jobs = {j1, j2}
    Callers = {c1, c2}
    Sources = {x1}
    Creation = made
    Targets = {"completed"}
    NoEvent = NoEvent
    MaxDeliver = 2
    FetchBatch = 1
    MaxCalls = 2
    MaxFailures = 1
    MaxCrashes = 1
INVARIANTS
    NoEventLost
    SweptIsOver
    LoserIsTold
PROPERTY ImplementsHistory
CHECK_DEADLOCK FALSE

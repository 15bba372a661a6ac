SPECIFICATION FairSpec
CONSTANTS
    m1 = m1
    ManualKeys = {m1}
    NoRun = NoRun
    NoJob = NoJob
    MaxRetries = 1
    MaxTime = 2
    MaxEdits = 1
    MaxFailures = 1
INVARIANTS
    OneSelectionPerKey
    RetiredNeverPublished
PROPERTIES
    CursorForward
    RunsDecided
    CursorFollows
CHECK_DEADLOCK FALSE

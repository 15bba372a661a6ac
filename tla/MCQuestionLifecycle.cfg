SPECIFICATION FairSpec
CONSTANTS
    Messages <- MCMessages
    Options <- MCOptions
    NoMessage = NoMessage
    NoResult = NoResult
    MaxArrivals = 3
    MaxFailures = 1
    MaxRestarts = 1
INVARIANTS OneOutcome CallerAgrees NoControlsForgotten TimeoutCleansControls
PROPERTIES AnswerRecovered DeadlineHonoured
CHECK_DEADLOCK FALSE

SPECIFICATION FairSpec
CONSTANTS
    Messages <- MCMessages
    Options <- MCOptions
    NoMessage = NoMessage
    NoResult = NoResult
    MaxArrivals = 1
    MaxFailures = 0
    MaxRestarts = 1
PROPERTY DeadlineSurvivesRestart
CHECK_DEADLOCK FALSE

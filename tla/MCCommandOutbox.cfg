SPECIFICATION FairSpec
CONSTANTS
    a1 = a1
    a2 = a2
    b1 = b1
    Commands <- MCCommands
    ScopeOf <- MCScopeOf
    QueueLimit = 2
    BatchLimit = 2
    MaxSequence = 3
    MaxFaults = 2
INVARIANTS
    AcceptedNotLost
    PublishedInOrder
    NoReplayAfterTombstone
PROPERTIES
    ReadmittedAfterRetention
    AcceptedResolved

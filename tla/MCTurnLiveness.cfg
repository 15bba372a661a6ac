SPECIFICATION FairSpec
CONSTANTS
    s1 = s1
    turn1 = turn1
    op1 = op1
    op2 = op2
    Sessions = {s1}
    Turns <- MCTurns
    NoTurn = NoTurn
    Replacements <- MCReplacements
    SessionOf <- MCSessionOf
    KeyOf <- MCKeyOf
    AuthorOf <- MCAuthorOf
    NoAuthor = "nobody"
    MessageOf <- MCMessageOf
    ReplyOf <- MCMessageOf
    OpOf <- MCOpOf
    HashOf <- MCHashOf
    QueueLimit = 1
    TerminalLimit = 1
    MaxCalls = 1
    Interruptible = {op1}
PROPERTIES
    EveryWaiterAnswered
    ShutdownDrains
CHECK_DEADLOCK FALSE

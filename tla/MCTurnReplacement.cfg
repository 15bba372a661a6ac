SPECIFICATION Spec
CONSTANTS
    s1 = s1
    turn1 = turn1
    op1 = op1
    op1Again = op1Again
    op2 = op2
    Sessions = {s1}
    Turns <- MCTurns
    NoTurn = NoTurn
    Replacements <- MCReplacements
    SessionOf <- MCSessionOf
    KeyOf <- MCKeyOf
    AuthorOf <- MCAuthorOf
    NoAuthor = "nobody"
    MessageOf <- MCMessageOf
    ReplyOf <- MCMessageOf
    OpOf <- MCOpOf
    HashOf <- MCHashOf
    QueueLimit = 2
    TerminalLimit = 1
    MaxCalls = 1
    Interruptible = {op1}
INVARIANTS
    ReplacementIsBoundary
    ReplacementFresh
CHECK_DEADLOCK FALSE

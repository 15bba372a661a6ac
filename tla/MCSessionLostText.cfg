SPECIFICATION SessionSpec
CONSTANTS
    s1 = s1
    m1 = m1
    m2 = m2
    m3 = m3
    m3Again = m3Again
    Sessions = {s1}
    Turns = {m1, m2, m3}
    NoTurn = NoTurn
    Replacements = {}
    SessionOf <- MCSessionOf
    KeyOf <- MCKeyOf
    AuthorOf <- MCAuthorOf
    NoAuthor = "nobody"
    MessageOf <- MCMessageOf
    ReplyOf <- MCReplyOf
    OpOf <- NoOps
    HashOf <- NoOps
    QueueLimit = 2
    TerminalLimit = 1
    MaxCalls = 1
    Interruptible = {}
    MaxDeliver = 1
    MaxFaults = 1
INVARIANT NoTextLost
CHECK_DEADLOCK FALSE

SPECIFICATION SessionSpec
CONSTANTS
    s1 = s1
    m1 = m1
    m2 = m2
    m3 = m3
    m3Again = m3Again
    Sessions = {s1}
    Turns = {m1, m2, m3, m3Again}
    NoTurn = NoTurn
    Replacements = {}
    SessionOf <- MCSessionOf
    KeyOf <- MCKeyOf
    AuthorOf <- MCAuthorOf
    NoAuthor = "nobody"
    MessageOf <- MCMessageOf
    ReplyOf <- MCSteeringReplyOf
    OpOf <- NoOps
    HashOf <- NoOps
    QueueLimit = 1
    TerminalLimit = 1
    MaxCalls = 1
    Interruptible = {m3}
    MaxDeliver = 2
    MaxFaults = 1
INVARIANTS
    AckAccounted
    NothingLeftBehind
CHECK_DEADLOCK FALSE

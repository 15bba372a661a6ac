SPECIFICATION Spec
CONSTANTS
    s1 = s1
    m1 = m1
    m2 = m2
    m2Again = m2Again
    m3 = m3
    Sessions = {s1}
    Turns <- MCTurns
    NoTurn = NoTurn
    Replacements = {}
    SessionOf <- MCSessionOf
    KeyOf <- MCKeyOf
    AuthorOf <- MCAuthorOf
    NoAuthor = "nobody"
    MessageOf <- MCMessageOf
    ReplyOf <- MCReplyOf
    OpOf <- NoOps
    HashOf <- NoOps
    QueueLimit = 2
    TerminalLimit = 1
    MaxCalls = 1
    Interruptible = {m2}
INVARIANTS
    TypeOK
    WaiterHeld
    HeldOnce
    KeyAdmittedOnce
    NoLostWakeup
PROPERTIES
    SuccessOnlyAfterRun
CHECK_DEADLOCK FALSE

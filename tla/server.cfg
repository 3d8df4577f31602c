CONSTANTS
    a = a
    b = b
    k = k
    v = v
    Nil = Nil
    Conns = {a, b}
    Keys = {k}
    Values = {v}
    Lines <- OneValueLines
    Buffered = TRUE
    Large = {}
    FailAt = {"execute", "flush"}
    SocketRoom = 1
    MaxLines = 2
SPECIFICATION FairSpec
INVARIANTS
    TypeOK
    AnsweredIsDone
PROPERTIES
    ImplementsService
    LockReleased
CHECK_DEADLOCK FALSE

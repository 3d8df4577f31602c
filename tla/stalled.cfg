CONSTANTS
    a = a
    b = b
    k = k
    v = v
    Nil = Nil
    Conns = {a, b}
    Keys = {k}
    Values = {v}
    Lines <- OneValueLines
    Buffered = TRUE
    Large = {v}
    FailAt = {}
    SocketRoom = 1
    MaxLines = 2
SPECIFICATION FairSpec
PROPERTY
    LockReleased
CHECK_DEADLOCK FALSE

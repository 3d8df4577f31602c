CONSTANTS
    a = a
    b = b
    k = k
    v = v
    Nil = Nil
    Conns = {a, b}
    Keys = {k}
    Values = {v}
    Lines <- OneValueLines
    Buffered = TRUE
    Large = {}
    FailAt = {"write"}
    SocketRoom = 1
    MaxLines = 2
SPECIFICATION Spec
INVARIANT
    AnsweredIsDone
CHECK_DEADLOCK FALSE

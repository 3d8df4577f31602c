SPECIFICATION Spec
CONSTANTS
    v1 = v1
    v2 = v2
    Tombstone = Tombstone
    Nil = Nil
    Keys <- TwoKeys
    Values = {v1, v2}
    EntrySize <- Sizes
    FlushThreshold = 2
    CompactEvery = 5
    ClockSteps <- ClockSetBack
    CrashAt = {"idle"}
    FailAt = {}
    MaxWal = 2
    MaxClock = 6
PROPERTIES
    OnlyWritesChangeAnswers

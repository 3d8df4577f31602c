SPECIFICATION Spec
CONSTANTS
    v1 = v1
    v2 = v2
    Tombstone = Tombstone
    Nil = Nil
    Keys <- TwoKeys
    Values = {v1, v2}
    EntrySize <- Sizes
    FlushThreshold = 2
    CompactEvery = 2
    ClockSteps = {1}
    CrashAt = {"idle"}
    FailAt = {"replay"}
    MaxWal = 2
    MaxClock = 5
PROPERTIES
    OpenReadsTheWholeLog

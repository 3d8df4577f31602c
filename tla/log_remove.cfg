SPECIFICATION Spec
CONSTANTS
    v1 = v1
    v2 = v2
    Tombstone = Tombstone
    Nil = Nil
    Keys <- TwoKeys
    Values = {v1, v2}
    EntrySize <- Sizes
    FlushThreshold = 0
    CompactEvery = 1
    ClockSteps = {1}
    CrashAt = {"idle", "write", "flush", "remove"}
    FailAt = {"remove"}
    MaxWal = 2
    MaxClock = 7
INVARIANT
    Steady
PROPERTIES
    LiveKeysSurvive

SPECIFICATION FairTests
CONSTANTS
    a = 1
    b = 2
    c = 3
    d = 4
    one = one
    two = two
    three = three
    large = large
    Tombstone = Tombstone
    Nil = Nil
    Keys <- FourKeys
    Values = {one, two, three, large}
    EntrySize <- Sizes
    FlushThreshold = 8
    CompactEvery = 3
    ClockSteps = {1}
    CrashAt = {"idle", "write", "flush", "truncate", "merge", "spill"}
    FailAt = {"write", "flush", "truncate", "merge", "spill"}
    MaxWal = 2
    MaxClock = 11
    Lower <- SetInCapitals
    Cut <- CutWords
    LongLines <- LinesWithCuts
    MaxMishaps = 2
    FreeKeys = {1, 2}
    FreeValues = {one, large}
    FreeCrashAt = {"idle", "write"}
INVARIANTS
    TestsPass
    CutKeepsCommand
    ClientTablesBounded
    Inductive
PROPERTIES
    OnlyWritesChangeAnswers
    CommandEnds
CHECK_DEADLOCK FALSE

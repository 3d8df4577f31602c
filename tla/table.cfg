CONSTANTS
    Ids <- ThreeKeys
    RecLen <- Lengths
    Bad = Bad
    None = None
    Word = 32
    Rounds = 7
    SomeHashes <- ThreeHashes
    BitCounts <- ThreeCounts
    MaxFlips = 1
    Newer <- SomeNewer
    Older <- AllOlder
SPECIFICATION MergedSpec
INVARIANTS
    TypeOK
    NoFalseNegatives
    ScanAscends
    IntactEntriesServed
    NewestScanWins
    IntactBeatsOlder
CHECK_DEADLOCK FALSE

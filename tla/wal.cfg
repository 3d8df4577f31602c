CONSTANTS
    Ids <- FiveRecords
    RecLen <- Lengths
    KeyOf <- KeyOfRecord
    SizeOf <- SizeOfRecord
    Bad = Bad
    None = None
    MaxFlips = 2
SPECIFICATION LoggedSpec
INVARIANTS
    ReplayInOrder
    OneByteCostsOneRecord
    SizeIsSum
    NewestIntactServed
    RestartChangesNothing

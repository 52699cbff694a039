SPECIFICATION Spec
CONSTANTS
    NoJob = NoJob
    NotHeld = NotHeld
    Jobs = {j1, j2}
    Seeds = {1, 2}
    UserSlots = {1, 2}
    SeedDoc <- MCSeedDoc
    Batches <- MCBatches
    UserDoc <- MCUserDoc
    Written <- MCWritten
    MaxDrives = 2
    MaxPools = 1
    MaxFolderFiles = 1
    MaxOps = 3
INVARIANTS
    CardsKeptApart
    FileInUseStays
    AddedIsKept
PROPERTY
    CardsCatchUp
CHECK_DEADLOCK FALSE

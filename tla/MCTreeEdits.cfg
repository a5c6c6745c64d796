SPECIFICATION FairSpec
CONSTANTS
    ChunkBytes = 2
    Hash <- IdealHash
    ZeroDigest = ZeroDigest
    Lanes = 2
    MaxThreads = 2
    MaxLeaves = 5
    Bytes = {1, 2}
    Files <- EditedFiles
    Requests = {0}
    Online = {2}
    Faults <- AllFaults
    MaxEdits = 2
    Unset = Unset
INVARIANTS
    ContentsInv
    LeavesComplete
PROPERTIES
    ImplementsCall
    Termination

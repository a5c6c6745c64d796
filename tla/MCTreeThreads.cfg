SPECIFICATION Spec
CONSTANTS
    ChunkBytes = 2
    Hash <- IdealHash
    ZeroDigest = ZeroDigest
    Lanes = 4
    MaxThreads = 3
    MaxLeaves = 9
    Bytes <- ByteRange
    Files <- ThreadFiles
    Requests = {0, 1}
    Online <- OnlineValues
    Faults <- AllFaults
    MaxEdits = 0
    Unset = Unset
INVARIANTS
    IInv
    ExclusiveClaims
    SharedOutlivesWorkers
    ReturnedClean
    ErrorAccounting
    ClaimsBounded
    WipeFitsBlock
PROPERTIES
    WriteOnce
    ImplementsCall
    WorkShrinks

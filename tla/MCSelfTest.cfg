SPECIFICATION TestSpec
CONSTANTS
    BlockBytes = 128
    WordRadix = 1000000
    MaxRounds = 16
    Bytes <- AllBytes
    NoDigest = NoDigest
    Faults <- AllFaults
    MessageBytes = 257
    FuzzSizes <- SomeSizes
    FuzzRuns = 2
    FuzzModulus = 257
    Lens <- SomeLens
    Pieces <- SomePieces
    LongSizes <- Longer
INVARIANTS
    RightPasses
    PassVouches
    LongInputTells
CHECK_DEADLOCK FALSE

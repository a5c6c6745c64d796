SPECIFICATION BoxSpec
CONSTANTS
    Log = 2
    Columns = 2
    Aes <- SmallAes
    Uniformity = 4
    Shuffles <- SomeShuffles
    Masks <- SomeMasks
    Samples <- SomeVoices
    MaxCounter = 1
INVARIANTS
    DerivedFit
    PassMeansInverts
    PassMeansSliced

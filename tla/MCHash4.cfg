SPECIFICATION BatchSpec
CONSTANTS
    Size = 9
    DigestBytes = 2
    Byte <- AnyByte
    HashByte <- IdealByte
    Memories <- FreshBytes
    Lengths = {0, 1, 2}
INVARIANTS
    RightUnlessOverwritten

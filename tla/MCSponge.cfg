SPECIFICATION Spec
CONSTANTS
    BlockBytes = 3
    WordRadix = 8
    MaxRounds = 2
    Bytes <- TwoBytes
    NoDigest = NoDigest
    MaxData = 7
    MaxMessage = 11
INVARIANTS
    TypeOK
    ContextHoldsMessage
    LengthAccounting
PROPERTIES
    ImplementsStream

SPECIFICATION Spec
CONSTANTS
    Bits = 8
    Word64 <- Words
    Add <- AddWords
    Sub <- SubWords
    Xor64 <- XorWords
    Left <- RotlWord
    Right <- RotrWord
    Box <- BoxWord
    BoxInv <- BoxInvWord
    RoundWord <- RoundConstant
    MaxRounds = 2
    WordBytes = 2
    ByteBits = 4
    FirstPad = 11
    LastPad = 8
    IV <- InitialWord
    LastWords <- EndWords
    FinalMark <- Mark
    FinalPermutations = 2
    Lists <- MessageLists
INVARIANTS
    ColumnsAreScalar
    SameDigests

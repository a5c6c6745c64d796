SPECIFICATION Spec
CONSTANTS
    Bits = 5
    Word <- Words
    Plus <- AddWords
    Minus <- SubWords
    BitXor <- XorWords
    Rotl <- RotlWord
    Rotr <- RotrWord
    Sbox <- BoxWord
    SboxInv <- BoxInvWord
    RC <- RoundConstant
    MaxRounds = 16
    States <- StartStates
    RoundArgs = {0, 1, 2, 7, 16, 20}
INVARIANTS
    TypeOK
    Retraces

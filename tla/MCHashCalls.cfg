SPECIFICATION CallsSpec
CONSTANTS
    BlockBytes = 2
    WordRadix = 8
    MaxRounds = 2
    Bytes <- PadBytes
    NoDigest = NoDigest
    MaxLen = 4
    RoundArgs = {0, 1, 2, 3}
INVARIANTS
    AnswersAreDigests
    PaddingTellsApart

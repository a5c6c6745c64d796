SPECIFICATION Spec
CONSTANTS
    BlockBytes = 3
    WordRadix = 16
    MaxRounds = 2
    Bytes <- TwoBytes
    NoDigest = NoDigest
    IoBytes = 4
    MaxData = 9
    UlongRadix = 8
    MaxJobs = 3
    MaxWritten = 9
    TreeAnswer = TreeAnswer
INVARIANTS
    ResultTrue
    StreamsGivenBack
    ThreadsAsked

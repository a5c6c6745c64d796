SPECIFICATION FairSpec
CONSTANTS
    Voices = 2
    Lanes = 2
    Width = 2
    Permute <- SmallPermute
    MaxRounds = 2
    DefaultSamples = 3
    IntRadix = 8
    LongRadix = 32
    Texts <- SomeTexts
    States <- SomeStates
    Masks <- SomeMasks
    Drawn = {0, 3, 6}
    WordBits = 4
    MinBits = 1
    Digests = {0, 3, 4, 8, 11}
    Spread <- SpreadToEnd
    CollisionTexts <- CollisionDigits
INVARIANTS
    ReportTrue
    MeasuresTrue
    AnswerTrue
    Findable
PROPERTIES
    Termination

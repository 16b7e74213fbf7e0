CONSTANTS
    Null = Null
    Overrun = Overrun
    MinInt <- MCMinInt
    MaxInt = 7
    UIntMod = 8
    Words <- MCWords
    Delimiters <- MCDelimiters
    Patterns <- MCPatterns
    PathTexts <- MCPathTexts
    SourceTexts <- MCSourceTexts
    Lengths = {0, 1, 2, 3, 5, 7}
    ByteTexts <- MCByteTexts
    LetterTexts <- MCLetterTexts
    SbRuntimes = {"full", "minimal", "win"}
    SbWords = {0, 1, 2, 5, 17}
    SbCaps = {0, 1, 2, 3}
    SbMaxLen = 70
    SbMaxCap = 300
    HeapBytes = 32
    Sizes = {0, 1, 8, 9}
    p1 = p1
    p2 = p2
    p3 = p3
    o1 = o1
    Paths = {p1, p2, p3}
    Others = {o1}
    Subtrees <- MCSubtrees
    MapKeys = {1, 2, 3, 4}
    MapValues = {v1, v2}
    Absent = Absent
    Endless = Endless
    MapCaps = {0, 2, 3}
    Hashes <- MCHashes
SPECIFICATION LibSpec
INVARIANT ArithmeticSound
INVARIANT TextMeetsReference
INVARIANT RuntimesAgree
INVARIANT CodecsSound
INVARIANT BuilderSound
INVARIANT HeapSound
INVARIANT ResourcesSettled
INVARIANT ListingFits
PROPERTY ImplementsMap
CHECK_DEADLOCK FALSE

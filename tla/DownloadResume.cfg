SPECIFICATION FairSpec
CONSTANTS
    h1 = h1
    h2 = h2
    a = a
    b = b
    zero = zero
    InfoHash = {h1}
    Target = {t1}
    Job = {j1, j2}
    TotalChunks <- MCTotalChunks
    Data = {a, b, zero}
    Zero = zero
    Torn = Torn
    Content <- MCContent
    NoFile = NoFile
    HalfCopied = HalfCopied
    NoTarget = NoTarget
    NoLimit = NoLimit
    Limit <- MCLimit
    MaxFaults = 2
INVARIANTS
    ResumeSound
    MismatchOnlyAfterMove
    NoIncompleteFinalize
PROPERTIES
    MovedAwayForGood
    CallsEnd
    ActiveLeadsToMoved

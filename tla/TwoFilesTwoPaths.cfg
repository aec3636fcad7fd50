SPECIFICATION Spec
SYMMETRY JobSymmetry
CONSTANTS
    h1 = h1
    h2 = h2
    a = a
    b = b
    zero = zero
    InfoHash = {h1, h2}
    Target = {t1, t2}
    Job = {j1, j2}
    TotalChunks <- MCTotalChunks
    Data = {a, b, zero}
    Zero = zero
    Torn = Torn
    Content <- MCContent
    NoFile = NoFile
    HalfCopied = HalfCopied
    NoTarget = NoTarget
    NoLimit = NoLimit
    Limit = {NoLimit}
    MaxFaults = 1
INVARIANTS
    TypeOK
    IInv
    TargetsIntact
    NoHalfCopyLeft
PROPERTIES
    RecordedHasFile
    ImplementsDelivery

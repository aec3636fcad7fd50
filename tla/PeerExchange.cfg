SPECIFICATION Spec
CONSTANTS
    a = a
    b = b
    Byte = {a, b}
    Envelope = 3
    MaxFrame = 7
    Path = {p1}
    Content <- MCContent
    ChunkSize = {2, 4}
    MaxShares = 1
    MaxEdits = 1
    NoFile = NoFile
    Foreign <- MCForeign
    Conn = {c1, c2}
    RetryAttempts = 1
    OtherIndex = {0, 2}
    Nothing = Nothing
INVARIANTS
    TypeOK
    OnlyHashedBytesSent
    IInv
PROPERTIES
    UndisturbedRegisters
    IntactChunkSent
    ImplementsService

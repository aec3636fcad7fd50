SPECIFICATION FairSpec
CHECK_DEADLOCK FALSE
CONSTANTS
    Handler = {h1, h2}
    Job = {j1, j2}
    MaxSession = 2
    None = None
INVARIANTS
    TypeOK
    IInv
    InfoMatchesNode
    CleanShutdown
PROPERTIES
    HandlersEnd
    ShutdownEnds
    JobsEnd

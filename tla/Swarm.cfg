SPECIFICATION FairSpec
CHECK_DEADLOCK FALSE
CONSTANTS
    Node = {1, 2, 3}
    Seeder = {1}
    Agent = {2}
    File = file
    NumChunks = 2
    TTL = 1
    Interval = 1
    MaxDelay = 0
    MaxClock = 2
    MaxFaults = 1
    NoRow = NoRow
    NoPeer = NoPeer
INVARIANTS
    TypeOK
    IInv
    AnnouncedHeld
PROPERTIES
    ListedWhileBeating
    SeedsAskedFirst
    AllGetTheFile

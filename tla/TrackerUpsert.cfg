SPECIFICATION Spec
SYMMETRY RequestSymmetry
CONSTANTS
    m1 = m1
    m2 = m2
    Peer = {p1, p2}
    Addr = {a1}
    InfoHash = {h1}
    Meta = {m1, m2}
    TotalChunks <- MCTotalChunks
    Request = {r1, r2}
    TTL = 1
    MaxClock = 3
    MaxDelay = 1
    NoRow = NoRow
PROPERTIES
    AnnounceUpserts

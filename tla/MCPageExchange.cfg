SPECIFICATION FairSpec
CONSTANTS
    c1 = c1
    c2 = c2
    p1 = p1
    p2 = p2
    Conns <- TwoConns
    Pages <- TwoPages
    Sealed <- NotWritten
    Nobody = Nobody
    Hole = Hole
    MaxTickets = 2
    MaxStores = 1
    MaxUnmaps = 1
    MaxCuts = 1
    MaxFaults = 1
INVARIANT RecordTrue
PROPERTIES MovesAsOneCopy FetchEnds AllReleased

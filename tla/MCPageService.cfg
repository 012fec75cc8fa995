SPECIFICATION FairSpec
CONSTANTS
    c1 = c1
    c2 = c2
    k1 = k1
    k2 = k2
    Hole = Hole
    Contexts = {c1, c2}
    Conns = {k1, k2}
    Settings <- MCSettings
INVARIANT BooksTrue
PROPERTIES OneCopySpec ClaimsReleased
CHECK_DEADLOCK FALSE

SPECIFICATION FairSpec
CONSTANTS
    p0 = p0
    c = c
    d = d
    None = None
    Spaces = {p0, c, d}
    Root = p0
    Families <- MCFamilies
INVARIANTS SnapshotKept LineageTrue
PROPERTY FaultServed
CHECK_DEADLOCK FALSE

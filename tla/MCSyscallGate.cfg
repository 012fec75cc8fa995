SPECIFICATION FairSpec
CONSTANTS
    r0 = r0
    k0 = k0
    Root = r0
    Kid = k0
    Settings <- MCSettings
INVARIANTS  CallsExact ChildrenKept
PROPERTY CallsEnd
CHECK_DEADLOCK FALSE

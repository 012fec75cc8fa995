CONSTANTS
    c1 = c1
    c2 = c2
    c3 = c3
    m1 = m1
    m2 = m2
    None = None
    Contexts <- MCContexts
    First <- MCFirst
    Mms <- MCMms
    Mm <- MCMm
SPECIFICATION Spec
INVARIANT Frozen
PROPERTY GateOpens
CHECK_DEADLOCK FALSE

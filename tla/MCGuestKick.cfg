SPECIFICATION Spec
CONSTANTS
    c1 = c1
    c2 = c2
    t1 = t1
    t2 = t2
    p1 = p1
    CPUs <- MCCPUs
    Takers <- MCTakers
    Pages <- MCPages
    GenMax = 3
    Vpid = TRUE
INVARIANT Unreachable
PROPERTY KickReturns

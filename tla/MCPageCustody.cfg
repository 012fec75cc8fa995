SPECIFICATION Spec
CONSTANTS
    th1 = th1
    th2 = th2
    t1 = t1
    t2 = t2
    c1 = c1
    c2 = c2
    Pages = {p1}
    Threads = {th1, th2}
    Contexts = {c1, c2}
    Tickets = {t1, t2}
    Free = Free
    SetStates = {"NONE", "HOME", "REMOTE", "CLAIM"}
SYMMETRY Symmetry
INVARIANT Custody
PROPERTIES LateReply NoSilentLoss DeliveryConfirmed

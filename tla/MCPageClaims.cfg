SPECIFICATION Spec
CONSTANTS
    k1 = k1
    k2 = k2
    h1 = h1
    h2 = h2
    h3 = h3
    Keys <- MCKeys
    Handles <- MCHandles
    EpisodeMax <- MCEpisodeMax
SYMMETRY MCSymmetry
INVARIANT Settleable
PROPERTY ExactSettlement
CHECK_DEADLOCK FALSE

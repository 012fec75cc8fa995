SPECIFICATION Spec
CONSTANTS
    k1 = k1
    f1 = f1
    f2 = f2
    s1 = s1
    Keys <- MCKeys
    Faulters <- MCFaulters
    Servers <- MCServers
    Finals <- MCFinals
    Taking <- MCTaking
    EpisodeMax <- MCEpisodeMax
    FaultMax = 1
    ServeMax = 1
    ChangeMax = 1
INVARIANT NoLostWakeup
PROPERTIES FaultReturns ClaimsUsed
CHECK_DEADLOCK FALSE

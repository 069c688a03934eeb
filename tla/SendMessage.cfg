CONSTANTS
    None = None
    s1 = s1
    s2 = s2
    sesA = sesA
    sesB = sesB
    Sends <- MCSends
    Sessions <- MCSessions
    MaxBlocks = 2
    MaxConsents = 1
    MaxCrashes = 1
SPECIFICATION MCFairSpec
CHECK_DEADLOCK FALSE
INVARIANTS TypeOK NoDeadEntry AloneIsReachable
PROPERTIES RowSettlesOnce BlocksAreBlocks SendEnds

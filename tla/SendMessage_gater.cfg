CONSTANTS
    None = None
    s1 = s1
    s2 = s2
    sesA = sesA
    sesB = sesB
    Sends <- MCSends
    Sessions = {sesA}
    MaxBlocks = 1
    MaxConsents = 1
    MaxCrashes = 0
SPECIFICATION Spec
CHECK_DEADLOCK FALSE
INVARIANT LiveGaterReachable

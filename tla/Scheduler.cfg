CONSTANTS
    Jobs = {j1}
    Handlers = {h1, h2}
    Manual = {}
    Sessions = {s1, s2}
    None = None
    MaxFaults = 1
    MaxRestarts = 1
    MaxDeletes = 1
SPECIFICATION FairSpec
INVARIANT TypeOK
INVARIANT EnabledHasTimer
INVARIANT GhostsNeedOverlap
PROPERTY JobsKeepRunning
CHECK_DEADLOCK FALSE

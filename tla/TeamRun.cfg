CONSTANTS
    Files = {f1}
    NRuns = 3
    NMembers = 2
    MaxUserSteps = 1
    MaxFaults = 1
    MaxWork = 3
    Limits = {1, 2}
    Modes = {"parallel", "sequential", "review"}
SPECIFICATION FairSpec
INVARIANTS
    TypeOK
    WorkKept
    SuccessorSeesWork
PROPERTIES
    NothingUndone
    TeamSettles
CHECK_DEADLOCK FALSE

CONSTANTS
    MaxIterations = 2
    MaxBatch = 2
    MaxFaults = 1
    MaxCrashes = 1
SPECIFICATION Spec
INVARIANTS
    TypeOK
    TimelineInOrder
    SpinnersExplained
    ObservationUnderItsCall

CONSTANTS
    Streams = {s1, s2, s3}
    MinSamples = 2
    RateNum = 1
    RateDen = 2
    WindowDuration = 2
    OpenDuration = 2
    MaxProbes = 1
    MaxWindow = 3
SPECIFICATION FairSpec
INVARIANTS TypeOK ProbeBudget ClosedIsHealthy
PROPERTY NeverWedges

CONSTANTS
    Clients = {c1, c2}
    RingSize = 2
    QueueDepth = 2
    MaxEvents = 3
    MaxBreaks = 1
    MaxRestarts = 1
SPECIFICATION FairSpec
INVARIANT TypeOK
INVARIANT ConnectedAreHeard
INVARIANT ResumeHasNoGap
INVARIANT NewestIsKept
INVARIANT MissedOnceInOrder
INVARIANT CursorOfThisProcess
PROPERTY StreamSettles
CHECK_DEADLOCK FALSE

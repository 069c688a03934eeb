CONSTANTS
    Jobs = {j1}
    Handlers = {h1}
    Manual = {m1}
    Sessions = {s1, s2, s3, s4}
    None = None
    MaxFaults = 1
    MaxRestarts = 1
    MaxDeletes = 1
SPECIFICATION Spec
INVARIANT TaskTellsOutcome
INVARIANT SessionsStayFew
CHECK_DEADLOCK FALSE

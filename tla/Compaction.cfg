CONSTANTS
    MaxLen = 11
    MaxCalls = 2
    Keep = 2
SPECIFICATION Spec
INVARIANT CompactionKeepsPairs
PROPERTY RecentTurnsKept

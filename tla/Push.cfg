SPECIFICATION FairSpec
CONSTANTS
    i1 = i1
    i2 = i2
    i3 = i3
    Ids <- ThreeIds
    None = None
    MaxKeys = 2
    MaxTurns = 1
    Patience = 1
    MaxFaults = 2
CHECK_DEADLOCK FALSE
INVARIANT CountedIsPushed
INVARIANT OneIsKept
PROPERTY Heals

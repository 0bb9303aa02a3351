SPECIFICATION MCSpec
CONSTANTS
    Process = {1, 2, 3}
    Ttl <- MCTtl
    MaxTime = 2
    None = None
INVARIANTS
    StorageKept
PROPERTIES
    StartsAndStops
CHECK_DEADLOCK FALSE

SPECIFICATION Spec
CONSTANTS
    Name = {1, 2, 3}
    MaxOrdinal = 1
    MaxOffset = 1
INVARIANTS FailoverPicksBest BootstrapPicksLowest ListOrderIrrelevant
CHECK_DEADLOCK FALSE

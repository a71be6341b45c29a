SPECIFICATION FairSpec
CONSTANTS
    BatchSize = 2
    Target = 4
    Faults = {"dial", "break", "timeout", "late", "refuse"}
    MaxFaults = 4
    MaxRefused = 4
INVARIANTS TypeOK BatchBounded OvercountBounded
PROPERTIES AnsweredBeforeDropped Finishes
CHECK_DEADLOCK FALSE

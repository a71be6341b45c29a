SPECIFICATION Spec
CONSTANTS
    BatchSize = 2
    Target = 4
    Faults = {"dial", "break"}
    MaxFaults = 2
    MaxRefused = 0
INVARIANT DialRetried
CHECK_DEADLOCK FALSE

SPECIFICATION FairSpec
CONSTANTS
    N = 4
    ProbeConcurrency = 2
INVARIANTS
    TypeOK
    BoundedProbes
    ResultsFinal
PROPERTIES
    ImplementsPhase
    Returns
CHECK_DEADLOCK FALSE

SPECIFICATION FairSpec
CONSTANTS
    N = 2
    Threshold = 1
    MaxOffset = 1
    ConfigRewrite = FALSE
    Strategy = "lowest-pod-ordinal"
    Preferred = {}
    Faults = {"crash"}
    MaxFaults = 1
    NoOne = NoOne
    ExtraPasses = 1
PROPERTIES ConvergesAfterOverlap ServesAfterOverlap

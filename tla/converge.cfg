SPECIFICATION FairSpec
CONSTANTS
    N = 3
    Threshold = 1
    MaxOffset = 1
    ConfigRewrite = TRUE
    Strategy = "annotation-preferred"
    Preferred = {1}
    Faults <- AllFaults
    MaxFaults = 2
    NoOne = NoOne
INVARIANT TypeOK
PROPERTIES KeepsServing Converges StableSetFed

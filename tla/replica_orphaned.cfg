SPECIFICATION FairSpec
CONSTANTS
    N = 2
    Threshold = 1
    MaxOffset = 1
    ConfigRewrite = FALSE
    Strategy = "lowest-pod-ordinal"
    Preferred = {}
    Faults = {"delete"}
    MaxFaults = 1
    NoOne = NoOne
PROPERTY ReplicasFed

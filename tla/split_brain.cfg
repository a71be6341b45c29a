SPECIFICATION Spec
CONSTANTS
    N = 2
    Threshold = 1
    MaxOffset = 1
    ConfigRewrite = FALSE
    Strategy = "lowest-pod-ordinal"
    Preferred = {}
    Faults = {"crash", "patch"}
    MaxFaults = 2
    NoOne = NoOne
PROPERTY AmbiguityLeftAlone

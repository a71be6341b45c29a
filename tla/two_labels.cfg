SPECIFICATION Spec
CONSTANTS
    N = 2
    Threshold = 1
    MaxOffset = 1
    ConfigRewrite = FALSE
    Strategy = "annotation-preferred"
    Preferred = {1}
    Faults = {"crash"}
    MaxFaults = 1
    NoOne = NoOne
INVARIANT OneLabelEver

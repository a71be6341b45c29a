SPECIFICATION Spec
CONSTANTS
    N = 3
    Threshold = 1
    MaxOffset = 1
    ConfigRewrite = FALSE
    Strategy = "lowest-pod-ordinal"
    Preferred = {}
    Faults = {"probe", "malformed", "command", "reply", "patch", "crash",
              "delete", "controller"}
    MaxFaults = 3
    NoOne = NoOne
INVARIANTS NoReplicationLoop PromotionWaitsOutThreshold SingleLabelOutsideSync
PROPERTIES LabelsOnlyMasters LabeledMasterKept ImplementsWatch EpochNeverRegresses
           EpochsIncrease

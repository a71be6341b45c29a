SPECIFICATION FairSpec
CONSTANTS
    Namespaces = {1, 2}
    Names = {1}
    Threshold = 2
    Interval = 3
    MaxPass = 2
    MaxChanges = 3
INVARIANTS
    TypeOK
    ReadyDespiteOneError
PROPERTIES
    SetsIndependent
    UnreadyWhenFailing
    HeadlessSetsPromoted

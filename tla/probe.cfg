SPECIFICATION FairSpec
CONSTANTS
    Backends = {b1, b2}
    None = None
    Faults = {"dial", "late", "break", "crash", "demote", "page"}
    MaxFaults = 3
INVARIANTS TypeOK CountsRealWrites
PROPERTIES WritesOnIdentified Recovers

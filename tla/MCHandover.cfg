SPECIFICATION FairSpec
CONSTANTS
    Self = s
    Other = {a, b}
    None = None
    Deadline = 3
    MaxPause = 2
    Call = 1
    Grace = 1
    MaxFaults = 3
INVARIANTS
    HandedOver
    ClosesOnAPrimary
    TailIsCalls
PROPERTIES
    Exits
CHECK_DEADLOCK FALSE

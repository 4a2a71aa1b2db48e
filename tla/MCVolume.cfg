CONSTANTS
    Container = {c1, c2}
    NoOne = NoOne
    Margin = 2
    MaxSave = 1
    MaxVersion = 3
    MaxClock = 4
    MaxExits = 3
    MaxFaults = 1
SPECIFICATION FairSpec
INVARIANTS OneEngine TrustsOwnAof
PROPERTIES Durable Migrated
CHECK_DEADLOCK FALSE

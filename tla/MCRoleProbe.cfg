CONSTANTS
    Probe = {p1, p2}
    Grace = 2
    MaxLag = 1
    Threshold = 1
    MaxEvents = 2
SPECIFICATION FairSpec
INVARIANTS ShelterIsWritable ShelterEnds StallRidden
PROPERTY SettlesOnTheTruth
CHECK_DEADLOCK FALSE

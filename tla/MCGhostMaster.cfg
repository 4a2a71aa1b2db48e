CONSTANTS
    N = 4
    Declared = {1, 2, 3}
    Ghost = Ghost
    Dwell = 2
    Stagger = 1
    MaxRestarts = 1
    Window = 3
    Leads = {2}
    MaxFaults = 2
SPECIFICATION FairSpec
INVARIANT CapHolds
PROPERTIES OnlyGhostsRestart RefoundedFirst Recovers
CHECK_DEADLOCK FALSE

SPECIFICATION HealFairSpec
CONSTANTS
  Addr = {self, a, b}
  Self = self
  Unknown = unknown
  StallDwell = 4
  WrongDwell = 3
  Backoff = 3
  MaxAttempts = 2
  Window = 6
  MaxFailovers = 1
  MaxLinkFaults = 1
  MaxMisses = 1
  MaxRestarts = 1
INVARIANT CapHolds
PROPERTIES NeverTooSoon Heals
CHECK_DEADLOCK FALSE

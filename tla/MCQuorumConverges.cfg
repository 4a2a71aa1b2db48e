SPECIFICATION FairSpec
CONSTANTS
  Node = {self, n1, n2, n3}
  Self = self
  Founders = {self, n1, n2}
  Dwell = 1
  PruneDwell = 2
  Backoff = 2
  MaxCuts = 1
  MaxRemovals = 1
  MaxRestarts = 0
  MaxMisses = 1
PROPERTY Converges
CHECK_DEADLOCK FALSE

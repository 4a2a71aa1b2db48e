SPECIFICATION Spec
CONSTANTS
  Node = {self, n1, n2, n3, n4}
  Self = self
  Founders = {self, n1, n2}
  Dwell = 1
  PruneDwell = 2
  Backoff = 1
  MaxCuts = 1
  MaxRemovals = 1
  MaxRestarts = 1
  MaxMisses = 0
SYMMETRY Interchangeable
INVARIANT NoSplitBrain
PROPERTY MinorityNeverForgets
CHECK_DEADLOCK FALSE

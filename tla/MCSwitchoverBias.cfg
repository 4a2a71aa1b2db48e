SPECIFICATION Spec
CONSTANTS
  Node = {n1, n2, n3}
  First = n1
  Gated = {n3}
  MaxPosts = 1
  MaxFaults = 1
INVARIANT NoBiasLeftBehind
CHECK_DEADLOCK FALSE

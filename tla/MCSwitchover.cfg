SPECIFICATION FairSpec
CONSTANTS
  Node = {n1, n2, n3}
  First = n1
  Gated = {n3}
  MaxPosts = 2
  MaxFaults = 1
INVARIANTS BiasOwned GatedStaysOut
PROPERTIES ElectsAsked LatchReleased
CHECK_DEADLOCK FALSE

SPECIFICATION FairSpec
CONSTANTS
  N = 3
  Fresh = {3}
  Old = old
  New = new
  None = none
  MaxRotations = 2
  MaxKills = 1
  MaxFaults = 1
  MaxDrifts = 1
INVARIANTS TypeOK OverlapCovers VerifiedRevoked PostureUniform
PROPERTY RotationCompletes
CHECK_DEADLOCK FALSE

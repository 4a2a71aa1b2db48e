SPECIFICATION FairSpec
CONSTANTS
  Node = {n1, n2, n3}
  Primary = n1
  ScaledUp = {}
  Ghost = ghost
  Torn = torn
  NoState = nostate
  NoMaster = nomaster
  NoAnswer = noanswer
  InitialConf = {nostate, ghost, torn}
  MaxCrashes = 2
  MaxWipes = 1
  MaxEpoch = 2
  MaxSlips = 1
  MaxFaults = 3
  LinkHealOn = TRUE
  Overlapping = FALSE
INVARIANTS GateCovers CandidateSynced NoEmptyMaster
PROPERTIES NoStaleResync Recovers
CHECK_DEADLOCK FALSE

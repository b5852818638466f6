SPECIFICATION Spec
CONSTANTS
  State = {s1, s2, s3}
  NULL = NULL
  c1 = c1
  c2 = c2
  Cond <- MCCond
  Features <- MCFeatures
  Weight <- MCWeight
  TopScoreInit <- MCTopScoreInit
  FeatureThreshold = 2
  UseBatchingSearch = TRUE
  UseBranchingSearch = TRUE
  MaxMemory = TRUE
  DumpStatesOnHalt = TRUE
INVARIANTS SearcherTracksStates ScoresFresh PathsPartition
PROPERTIES SelectsBestState

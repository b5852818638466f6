SPECIFICATION FGFairSpec
CONSTANTS
  NScores = 2
  Test <- MCTest
  Branch <- MCBranch
  Line <- MCLine
  BranchesOf <- MCBranchesOf
  PathOf <- MCPathOf
  NoQuery <- MCNoQuery
  AbstractLine <- MCAbstractLine
  MaxRound = 2
  MaxTests = 2
INVARIANTS BranchesClustered FeaturesReachBranches GreedyWithinBound
PROPERTIES ExtractionEnds

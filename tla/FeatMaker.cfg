SPECIFICATION Spec
CONSTANTS
  TotalTime = 3
  SmallTime = 1
  Tps = 2
  KleeSlack = 1
  MaxPrep = 1
  MaxTests = 1
  NScores = 2
  Test <- MCTest
  Branch <- MCBranch
  Line <- MCLine
  BranchesOf <- MCBranchesOf
  Crashes <- MCCrashes
  PathOf <- MCPathOf
  NoQuery <- MCNoQuery
  AbstractLine <- MCAbstractLine
  NULL = NULL
  KValue = 2
  MaxWeight = 2
  Uniform <- MCUniform
  NormalDraws <- MCNormalDraws
INVARIANTS OverrunBounded CoverageAttributed PicklesFresh ReportedCoverage ReportedErrors
PROPERTIES DriverEnds

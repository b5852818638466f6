SPECIFICATION WGSpec
CONSTANTS
  NScores = 3
  KValue = 3
  MaxWeight = 2
  Uniform <- MCUniform
  NormalDraws <- MCNormalDraws
  RunInfos <- MCRunInfos
  Feature = {f1, f2}
  MaxWgIteration = 2
INVARIANT CreditMatchesRun

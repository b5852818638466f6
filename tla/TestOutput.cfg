SPECIFICATION Spec
CONSTANTS
  State = {s1, s2, s3}
  Item = {x1, x2, x3}
  NULL = NULL
  Early = Early
  Error = {e1, e2}
  ExitOnErrorType = {e2}
  MaxTests = 2
  OnlyOutputStatesCoveringNew = TRUE
  EmitAllErrors = FALSE
  WriteKQueries = TRUE
SYMMETRY Symmetry
INVARIANTS CoverageWitnessed TestsNotOverwritten PairsComplete LimitHalts

SPECIFICATION QueriesSpec
CONSTANTS
    Int8 = 2
    Arrays <- MCArrays
    ConstArrayOpt = TRUE
    Inputs <- MCInputs
    Operands <- MCOperands
    Objects <- MCObjects
    MaxSteps = 2
CHECK_DEADLOCK FALSE
PROPERTIES
    FoldingExact
    EvaluatorExact
    SolverTermsExact
    KQueryRoundTrip

SPECIFICATION SolvingSpec
CONSTANTS
    Int8 = 2
    Arrays <- MCArrays
    ConstArrayOpt = FALSE
    Programs <- MCPrograms
    Conditions <- MCConditions
    Terms <- MCTerms
    Preferences <- MCPreferences
    MaxQueries = 3
    MaxPaths = 3
CHECK_DEADLOCK FALSE
PROPERTIES
    ConstraintsExact
    AnswersExact
    TestInputsFollowPath
    CachesSound
    NoAssertFails

SPECIFICATION MCSpec
CONSTANTS
    MaxSymbols = 5
    MaxRules = 4
    LeftSides = {0, 1, 2}
    RightSides <- MC_RightSides
    SequenceArguments <- MC_SequenceArguments
    Objects = {1, 2, 3, 4, 5, 6}
    NoObject = 0
    MaxRefs = 1
    MaxParses = 1
    LongestRule = 3
    LongestGrammar = 2
    ManyCalls = 1
INVARIANTS
    NullificationSound
CHECK_DEADLOCK FALSE

SPECIFICATION MCSpec
CONSTANTS
    NSY_Count <- MC_NSY_Count
    IRL_Count <- MC_IRL_Count
    LHSID_of_IRL <- MC_LHSID_of_IRL
    RHS_of_IRL <- MC_RHS_of_IRL
    NullingNSYs <- MC_NullingNSYs
    StartIRL = 18
    VirtualLHS <- MC_VirtualLHS
    XSYs <- MC_XSYs
    TerminalXSYs <- MC_TerminalXSYs
    NSY_of_XSY <- MC_NSY_of_XSY
    Source_XSY_of_NSY <- MC_Source_XSY_of_NSY
    StartXSY = 0
    NulledXSYs <- MC_NulledXSYs
    CompletionEventXSYs = {}
    ZWAs = {}
    ZWA_CIL_of_IRL <- MC_ZWA_CIL_of_IRL
    JEARLEME_THRESHOLD = 4
    YIM_FATAL_THRESHOLD = 100
    TokenValues = {0}
    TokenLengths = {1}
    WarningThresholds = {}
    DefaultWarningThreshold = 100
    NulledEventXSYs = {}
    PredictionEventXSYs = {}
    CompletionStartsActive = {}
    NulledStartsActive = {}
    PredictionStartsActive = {}
    ValuedXSYs = {}
    ValuedLockedXSYs = {}
    ZWA_Defaults <- NoZWAs
    ToggledXSYs = {}
    ExpectedToggles = {}
    ToggledZWAs = {}
    TogglesLeo = FALSE
    NullableStart = TRUE
    AnyItemOrder = FALSE
    Rank_of_IRL <- MC_Rank_of_IRL
    Rank_of_NSY <- MC_Rank_of_NSY
    External <- MC_External
    Source_XRL_of_IRL <- MC_Source_XRL_of_IRL
    Virtual_Start_of_IRL <- MC_Virtual_Start_of_IRL
    VirtualRHS <- MC_VirtualRHS
    Real_SYM_Count_of_IRL <- MC_Real_SYM_Count_of_IRL
    ReadsUpTo = 3
INVARIANTS
    ChildValuesOnStack
CHECK_DEADLOCK FALSE

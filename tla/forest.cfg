SPECIFICATION MCFairSpec
CONSTANTS
    GrammarName = "ambiguous"
    NSY_Count <- MC_NSY_Count
    IRL_Count <- MC_IRL_Count
    LHSID_of_IRL <- MC_LHSID_of_IRL
    RHS_of_IRL <- MC_RHS_of_IRL
    NullingNSYs <- MC_NullingNSYs
    StartIRL = 0
    VirtualLHS = {0}
    XSYs <- MC_XSYs
    TerminalXSYs <- MC_TerminalXSYs
    NSY_of_XSY <- MC_NSY_of_XSY
    Source_XSY_of_NSY <- MC_Source_XSY_of_NSY
    StartXSY = 1
    NulledXSYs <- MC_NulledXSYs
    CompletionEventXSYs = {}
    ZWAs = {}
    ZWA_CIL_of_IRL <- MC_ZWA_CIL_of_IRL
    JEARLEME_THRESHOLD = 4
    YIM_FATAL_THRESHOLD = 100
    TokenValues = {1}
    TokenLengths = {1, 2}
    WarningThresholds = {}
    DefaultWarningThreshold = 100
    NulledEventXSYs = {}
    PredictionEventXSYs = {}
    CompletionStartsActive = {}
    NulledStartsActive = {}
    PredictionStartsActive = {}
    ValuedXSYs <- MC_TerminalXSYs
    ValuedLockedXSYs = {}
    ZWA_Defaults <- NoZWAs
    ToggledXSYs = {}
    ExpectedToggles = {}
    ToggledZWAs = {}
    TogglesLeo = FALSE
    NullableStart = TRUE
    AnyItemOrder = FALSE
    Rank_of_IRL <- MC_Rank_of_IRL
    Rank_of_NSY <- MC_Rank_of_NSY
    External <- MC_External
    Source_XRL_of_IRL <- MC_Source_XRL_of_IRL
    Virtual_Start_of_IRL <- MC_Virtual_Start_of_IRL
INVARIANTS
    AndNodesMeet
    BocageExact
    MetricExact
    InUseExact
    ReportExact
PROPERTIES
    EnumeratesParses
    TreeNextReturns
CHECK_DEADLOCK FALSE

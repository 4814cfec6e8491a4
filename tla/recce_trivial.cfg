SPECIFICATION Spec
CONSTANTS
    GrammarName = "trivial"
    NSY_Count <- MC_NSY_Count
    IRL_Count <- MC_IRL_Count
    LHSID_of_IRL <- MC_LHSID_of_IRL
    RHS_of_IRL <- MC_RHS_of_IRL
    NullingNSYs <- MC_NullingNSYs
    StartIRL <- MC_StartIRL
    VirtualLHS <- MC_VirtualLHS
    XSYs <- MC_XSYs
    TerminalXSYs <- MC_TerminalXSYs
    NSY_of_XSY <- MC_NSY_of_XSY
    Source_XSY_of_NSY <- MC_Source_XSY_of_NSY
    StartXSY = 1
    NulledXSYs <- MC_NulledXSYs
    CompletionEventXSYs = {}
    ZWAs <- MC_ZWAs
    ZWA_CIL_of_IRL <- MC_ZWA_CIL_of_IRL
    JEARLEME_THRESHOLD = 4
    YIM_FATAL_THRESHOLD = 100
    TokenValues = {0}
    TokenLengths = {1, 2}
    WarningThresholds = {0, 5}
    DefaultWarningThreshold = 100
    NulledEventXSYs = {1, 2}
    PredictionEventXSYs = {}
    CompletionStartsActive = {}
    NulledStartsActive = {1}
    PredictionStartsActive = {}
    ValuedXSYs = {}
    ValuedLockedXSYs = {}
    ZWA_Defaults <- AllZWAsPass
    ToggledXSYs = {1, 2}
    ExpectedToggles = {2}
    ToggledZWAs = {}
    TogglesLeo = TRUE
INVARIANTS
    ActiveCountCovers

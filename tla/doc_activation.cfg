SPECIFICATION Spec
CONSTANTS
    GrammarName = "right recursive"
    NSY_Count <- MC_NSY_Count
    IRL_Count <- MC_IRL_Count
    LHSID_of_IRL <- MC_LHSID_of_IRL
    RHS_of_IRL <- MC_RHS_of_IRL
    NullingNSYs <- MC_NullingNSYs
    StartIRL <- MC_StartIRL
    VirtualLHS <- MC_VirtualLHS
    XSYs <- MC_XSYs
    TerminalXSYs <- MC_TerminalXSYs
    NSY_of_XSY <- MC_NSY_of_XSY
    Source_XSY_of_NSY <- MC_Source_XSY_of_NSY
    StartXSY = 1
    NulledXSYs <- MC_NulledXSYs
    CompletionEventXSYs = {1, 2}
    ZWAs <- MC_ZWAs
    ZWA_CIL_of_IRL <- MC_ZWA_CIL_of_IRL
    JEARLEME_THRESHOLD = 3
    YIM_FATAL_THRESHOLD = 100
    TokenValues = {0}
    TokenLengths = {1}
    WarningThresholds = {}
    DefaultWarningThreshold = 100
    NulledEventXSYs = {}
    PredictionEventXSYs = {}
    CompletionStartsActive = {1}
    NulledStartsActive = {}
    PredictionStartsActive = {}
    ValuedXSYs = {}
    ValuedLockedXSYs = {}
    ZWA_Defaults <- AllZWAsPass
    ToggledXSYs = {1, 3}
    ExpectedToggles = {}
    ToggledZWAs = {}
    TogglesLeo = FALSE
INVARIANTS
    OnlyDeclaredActive

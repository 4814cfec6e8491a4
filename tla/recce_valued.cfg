SPECIFICATION Spec
CONSTANTS
    GrammarName = "asserted"
    NSY_Count <- MC_NSY_Count
    IRL_Count <- MC_IRL_Count
    LHSID_of_IRL <- MC_LHSID_of_IRL
    RHS_of_IRL <- MC_RHS_of_IRL
    NullingNSYs <- MC_NullingNSYs
    StartIRL <- MC_StartIRL
    VirtualLHS <- MC_VirtualLHS
    XSYs <- MC_XSYs
    TerminalXSYs <- MC_TerminalXSYs
    NSY_of_XSY <- MC_NSY_of_XSY
    Source_XSY_of_NSY <- MC_Source_XSY_of_NSY
    StartXSY = 1
    NulledXSYs <- MC_NulledXSYs
    CompletionEventXSYs = {}
    ZWAs <- MC_ZWAs
    ZWA_CIL_of_IRL <- MC_ZWA_CIL_of_IRL
    JEARLEME_THRESHOLD = 3
    YIM_FATAL_THRESHOLD = 100
    TokenValues = {0, 1}
    TokenLengths = {0, 1, 3}
    WarningThresholds = {}
    DefaultWarningThreshold = 100
    NulledEventXSYs = {}
    PredictionEventXSYs = {}
    CompletionStartsActive = {}
    NulledStartsActive = {}
    PredictionStartsActive = {}
    ValuedXSYs = {2}
    ValuedLockedXSYs = {3}
    ZWA_Defaults <- AllZWAsPass
    ToggledXSYs = {}
    ExpectedToggles = {2, 4}
    ToggledZWAs = {1}
    TogglesLeo = FALSE
INVARIANTS
    AlternativesPending
PROPERTIES
    LockedStatusIsFinal

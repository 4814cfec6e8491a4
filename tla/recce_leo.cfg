SPECIFICATION Spec
CONSTANTS
    GrammarName = "right recursive"
    NSY_Count <- MC_NSY_Count
    IRL_Count <- MC_IRL_Count
    LHSID_of_IRL <- MC_LHSID_of_IRL
    RHS_of_IRL <- MC_RHS_of_IRL
    NullingNSYs <- MC_NullingNSYs
    StartIRL <- MC_StartIRL
    VirtualLHS <- MC_VirtualLHS
    XSYs <- MC_XSYs
    TerminalXSYs <- MC_TerminalXSYs
    NSY_of_XSY <- MC_NSY_of_XSY
    Source_XSY_of_NSY <- MC_Source_XSY_of_NSY
    StartXSY = 1
    NulledXSYs <- MC_NulledXSYs
    CompletionEventXSYs = {1, 2, 3}
    ZWAs <- MC_ZWAs
    ZWA_CIL_of_IRL <- MC_ZWA_CIL_of_IRL
    JEARLEME_THRESHOLD = 4
    YIM_FATAL_THRESHOLD = 100
    TokenValues = {0}
    TokenLengths = {1, 2}
    WarningThresholds = {}
    DefaultWarningThreshold = 5
    NulledEventXSYs = {6}
    PredictionEventXSYs = {2}
    CompletionStartsActive = {1, 3}
    NulledStartsActive = {6}
    PredictionStartsActive = {2}
    ValuedXSYs = {}
    ValuedLockedXSYs = {}
    ZWA_Defaults <- AllZWAsPass
    ToggledXSYs = {}
    ExpectedToggles = {}
    ToggledZWAs = {}
    TogglesLeo = FALSE
INVARIANTS
    TypeOK
    LinksJustified
    LimsJustified
    OriginsPredict
    AlternativesPending
    EarleySetsExact
    LeoKeepsPredictors
    AcceptanceExact
    ExhaustionExact
PROPERTIES
    EventsExact

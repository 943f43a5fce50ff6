SPECIFICATION ScreensSpec
CONSTANTS
    i1 = i1
    i2 = i2
    Routes <- AllRoutes
    MaxCalls = 2
    Tasks <- Ids
    NoTask = NoTask
    MaxMoves = 1
    MaxPushes = 1
    LogRuns <- Ids
    MaxLogPushes = 2
    MaxTimers = 2
    EdgeNodes <- Ids
    NoEdgeNode = NoEdgeNode
    MaxNodeMoves = 1
    ListKinds <- AllListKinds
    MaxRows = 2
    MaxListMoves = 1
    Limits <- PageLimits
    FirstLimit = 2
    Levels <- ScreenLevels
    NoData = NoData
    Window = 2
    Tabs <- Ids
    MaxSubmits = 2
    MaxTokens = 2
SYMMETRY IdSymmetry
CHECK_DEADLOCK FALSE
INVARIANTS
    ScreensTypeOK
    EditSavesItsTask
    SpinnersExplained
    ButtonsExplained
    EndedRowTimed
    RunKept
    DeployDialogHeld
    TestingExplained
    ChangesShown
    FooterFits
    AskedPageShown
    StoredTokenGood
PROPERTIES
    RefreshRenders

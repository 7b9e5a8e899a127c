CONSTANTS
    Stock = {"infy", "tcs"}
    Unit = 2
    Capital = 24
    LastTradingDay = 4
    Quotes <- MCQuotes
    Adv <- MCAdv
    CapDiv = 4
    TradeCost <- MCTradeCost
    Targets <- MCTargets
    ZScores <- MCZScores
    EntryZ = 4
    ExitZ = 0
    StopZ = 7
    MaxNoCross = 2
    MaxBars = 5
    NStocks = 4
    Signals <- MCSignals
    WeightUnit = 24
    PctDiv = 2
    Band = 3
    VrpPcts = {0, 50}
    MinExposure = 50
    LastMonth = 3
    Config <- MCConfig
    Den = 100
    NaN = NaN
    NotANumber = NotANumber
    Root <- MCRoot
    Quantities <- MCQuantities
    Prices = {1, 3}
    Advs = {NotANumber, 0, 20, 500}
    Vols = {NotANumber, 0, 2}
    Segments = {"delivery", "intraday"}
    Security = {"infy"}
    LastSession = 4
    Windows <- MCWindows
    BenchmarkBars <- MCBenchmarkBars
    StartEquity = 10
    Equities <- MCEquities
    Grid <- MCGrid
    LastDate = 3
    MaxEvents = 3
    Ingest = {"i1", "i2"}
    Closes = {0, 10, 13, 20}
    StaleLimit = 2
    JumpPct = 35
    KnownActions = {2}
    MaxRows = 5
    PValues = {5, 10, 15, 20}
    PUnit = 100
    Alpha = 15
    MaxCandidates = 3
    Name = {"infy", "tcs", "sbin", "gold"}
    Sector <- MCSector
    NoSector = "none"
    RawWeights <- MCRawWeights
    MaxPosition = 5
    MaxSector = 7
    Equity <- MCEquity
    LimitNum = 15
    LimitDen = 100
    MaxPoints = 5
    Returns <- MCReturns
    MaxReturns = 5
    TailNum = 1
    TailDen = 3
    Budgets = {10}
    Moments <- MCMoments
    KellyNum = 3
    KellyCap = 10
    MaxLeverage = 2
    Top = 6
    Beyond = 7
    OptionPrices = {0, 2, 3, 5}
    Tol = 1
    MaxNewton = 2
    Halvings = 4
SPECIFICATION Spec
CHECK_DEADLOCK FALSE
INVARIANTS BorrowsOnlyForHeldBack RetiredAfterNoCross PositionHasItsEntry TiltIsInvestable ScalarAgreesWithVector BenchmarkIsBuyAndHold PointsDescribeTheirRuns
INVARIANTS MembershipIsExact StaleRunsAreMaximal SelectedAreDiscoveries CapsHold MonitorAgreesWithMask PassedSeriesIsContinuous SizesRespectRisk AnswerExplainsPrice
PROPERTIES TradesFollowDecisions

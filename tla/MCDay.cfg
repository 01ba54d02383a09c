SPECIFICATION MCSpec
CONSTANTS
    \* AutoSelection
    Scanned = {"a", "c"}
    ChainPuts <- MCPuts
    Shortest = TRUE
    Earnings = {"c"}
    AiScores = {0, 8}
    Equity = 100000
    Vixes = {0, 27, 41}
    \* GreedyPortfolio
    Offers = {"o1", "o2", "o3", "o4"}
    OfferSymbol <- MCOfferSymbol
    OfferSector <- MCOfferSector
    Estimate <- MCOfferEstimate
    Floor <- MCFloor
    Amount <- MCAmount
    Premium <- MCPremium
    Score <- MCScore
    Answers = {0, 1, 2, 5}
    TradeBudget = 9
    MaxTrades = 2
    MaxInSector = 1
    \* StagedTrades
    Rows = {"r1", "r2"}
    RowMargin <- MCRowMargin
    EstimateOf <- MCRowEstimate
    Ceiling = 4
    MaxBatch = 2
    MaxRuns = 1
    MaxTurns = 1
    \* TradeReview
    Reviewed = {"t1", "t2"}
    StagedPrice = 50
    StagedStrike <- MCStagedStrike
    StagedLimit <- MCStagedLimit
    Prices = {46, 47, 49, 51, 53, 56}
    OpenQuotes <- MCOpenQuotes
    MaxRetries = 3
    \* RiskControl
    Procs = {p1}
    Contracts <- MCContracts
    SectorOf <- MCSectorOf
    TradeMargin <- MCTradeMargin
    Held = {"c1", "c2"}
    Accounts <- MCAccounts
    MaxPositions = 4
    MaxPerDay = 1
    MaxOrders = 1
    MaxMoves = 1
    MaxDay = 1
    Mondays = {1}
    \* Guardrails
    Snapshots <- MCSnapshots
    Decisions <- MCDecisions
    LiveQuotes <- MCLiveQuotes
    NoClient = NoClient
    Missing = Missing
    Unknown = Unknown
    MaxAge = 50
    VixMove = 15
    SpyMove = 2
    VixCeiling = 35
    MaxPerMinute = 2
    LogSize = 2
    EarningsDays = 0
    Tolerance = 10
    MaxMismatches = 2
    Seconds = {20, 50}
    MaxClock = 120
    MaxReviews = 1
    \* AutonomyGate
    Disabled = {"first_trade_of_day", "new_symbol"}
    AutoExecute = {"EXECUTE_TRADES", "STAGE_CANDIDATES"}
    ExecuteThreshold = 80
    StreakLimit = 3
    Grid <- MCGrid
    Confidences <- MCConfidences
    \* TradingDay
    Instants <- MCInstants
    LastDay = 1
    Holidays = {}
    LearningDay = 0
    LearningMinute = 990
    VixLevels = {15}
    Unset = Unset
    MaxStarts = 2
    \* EventDetector
    Positions = {p1}
    Statuses <- MCStatuses
    Readings = {17, 19, 24}
    AlertTarget = 75
    AlertStop = 300
    AlertDte = 1
    SpikeThreshold = 15
    Cooldown = 2
    Never = Never
    MaxTime = 5
    \* PositionWatch
    Trades = {t1, t2}
    Quotes <- MCQuotes
    Target = 75
    Stop = 300
    ExitDte = 1
    StaleLimit = 2
    None = None
    MaxSession = 1
    MaxRows = 2
    MaxLapses = 1
SYMMETRY TradeSymmetry
INVARIANT BestIsUndominated
INVARIANT PortfolioIsMaximal
INVARIANT OneSubmissionPerStaging
INVARIANT ConfirmedIsSound
INVARIANT HaltLasts
INVARIANT NoMinuteAboveLimit
INVARIANT MoreAutonomyApprovesMore
INVARIANT TriggersHoldAtEveryLevel
INVARIANT BreachesAreSpaced
INVARIANT OneQuestionAtATime
PROPERTY CheckKeepsItsDistance
PROPERTY UnapprovedIsLeftAlone
\* The day ends, and the bounded histories run out.
CHECK_DEADLOCK FALSE

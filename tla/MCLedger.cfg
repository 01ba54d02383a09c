SPECIFICATION MCSpec
CONSTANTS
    \* FillMonitor
    Submitted = {1}
    Ordered <- MCOrdered
    FirstLimit = 3
    LimitFloor = 1
    MaxAdjustments = 2
    MaxPlaced = 3
    \* NakedTrader
    Sales = {"s1", "s2"}
    ChainOf <- MCChainOf
    StopLoss = TRUE
    LastDay = 3
    \* TradeImport
    Execs = {1, 2, 3, 4}
    Exec <- MCExec
    MaxWait = 1
    LastImport = 3
    LastDate = 4
    \* TradeEnrichment
    Recorded = {"t1"}
    Captured <- MCCaptured
    Solvable = {"t1"}
    Chains <- MCChains
    \* PatternMining
    Trades <- MCTrades
    MinSamples = 2
    PValues = {10, 30}
    Effects = {45, 100}
    EffectFloor <- MCEffectFloor
    SampleConfidence <- MCSampleConfidence
    AutoApply = 80
    MaxCycles = 1
    \* StrategyHealth
    Deviations <- MCDeviations
    MinCharted = 3
    MaxReturns = 4
    Threshold = 3
    Figures <- MCFigures
    YearFigures <- MCYearFigures
    RegimeFigures <- MCRegimeFigures
    \* AutonomyLevels
    InitialLevel = 2
    MaxLevel = 4
    MinTrades = 2
    MinDays = 1
    MinWinPct = 50
    LossStreak = 2
    MaxTrades = 3
    MaxDays = 1
    MaxCrashes = 1
    MaxCliSets = 1
INVARIANT OneWorkingOrder
INVARIANT EachContractMatchedOnce
INVARIANT SurvivorsAreStepUp
INVARIANT ChartSeesEveryRun
PROPERTY BookedAsItEnded
PROPERTY NothingKnownIsLost
PROPERTY PromotionEarned
PROPERTY NoFreePromotion
\* Days, imports and cycles are bounded.
CHECK_DEADLOCK FALSE

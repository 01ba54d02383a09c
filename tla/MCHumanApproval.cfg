SPECIFICATION FairSpec
CONSTANTS
    c1 = c1
    g1 = g1
    t1 = t1
    t2 = t2
    aaa = aaa
    bbb = bbb
    Decisions = {c1, g1}
    Trades = {t1, t2}
    TickerOf <- OneTickerEach
    SortsOf <- AllSorts
    TargetOf <- FirstTrade
    Flagged = {g1}
    Requests = {r1, r2}
    Channels = {"dashboard", "cli"}
    MaxOverrides = 2
    MaxDeaths = 1
INVARIANTS OneRunPerApproval NothingWithoutConsent
PROPERTIES ApprovalTakesEffect
CHECK_DEADLOCK FALSE

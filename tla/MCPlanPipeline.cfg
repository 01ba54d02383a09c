SPECIFICATION FairSpec
CONSTANTS
    c1 = c1
    c2 = c2
    x = x
    g = g
    m = m
    Events = {e1, e2}
    Steps = {m, x, g, c1, c2}
    ActionOf <- KindOfStep
    Plans <- AllPlans
    NoEvent = NoEvent
    MaxCrashes = 2
INVARIANTS RepeatsNeedACrash
PROPERTY EveryEventEnds
CHECK_DEADLOCK FALSE

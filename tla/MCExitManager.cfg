SPECIFICATION FairSpec
CONSTANTS
    p1 = p1
    Positions = {p1}
    Keyed = {p1}
    MaxOrders = 3
    MaxBreaks = 1
INVARIANTS OneExitWanted EveryCloseIsCounted
PROPERTIES FillIsRecorded
CHECK_DEADLOCK FALSE

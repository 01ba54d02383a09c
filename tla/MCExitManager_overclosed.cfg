\* The first market order after a limit order that filled unheard.
SPECIFICATION Spec
CONSTANTS
    p1 = p1
    Positions = {p1}
    Keyed = {p1}
    MaxOrders = 2
    MaxBreaks = 0
INVARIANT NeverOverClosed
CHECK_DEADLOCK FALSE

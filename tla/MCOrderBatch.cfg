SPECIFICATION FairSpec
CONSTANTS
    Opps = {t1, t2}
    MayRestage = FALSE
    MaxOrders = 3
    MaxTroubles = 1
INVARIANTS FilledIsTruth OneLiveOrder OrdersAreOnRecord
PROPERTY ExecutingEnds
CHECK_DEADLOCK FALSE

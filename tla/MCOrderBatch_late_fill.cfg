SPECIFICATION Spec
CONSTANTS
    Opps = {t1}
    MayRestage = FALSE
    MaxOrders = 1
    MaxTroubles = 0
PROPERTY LateFillIsRecorded
CHECK_DEADLOCK FALSE

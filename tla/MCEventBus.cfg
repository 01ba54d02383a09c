SPECIFICATION FairSpec
CONSTANTS
    Daemons = {d1}
    MaxEvents = 3
    Kinds <- MCKinds
    MaxPerCycle = 2
    MaxInterrupts = 2
    MaxPauses = 1
    MaxSkips = 1
    ExclusiveStart = TRUE
INVARIANTS NoOrphan BoundedOvertaking
PROPERTIES ImplementsQueue EventuallyHandled
CHECK_DEADLOCK FALSE

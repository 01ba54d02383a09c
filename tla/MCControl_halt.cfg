SPECIFICATION MCSpec
CONSTANTS
    \* DaemonControl
    Daemons = {d1}
    MaxCommands = 2
    MaxCrashes = 0
    \* Reconciliation
    Puts <- MCPuts
    SymbolOf <- MCSymbolOf
    MaxLots = 1
    MaxEvents = 2
INVARIANT HaltHolds
\* The watchdog and the users may have nothing more to do.
CHECK_DEADLOCK FALSE

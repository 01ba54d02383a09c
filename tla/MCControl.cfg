SPECIFICATION MCFairSpec
CONSTANTS
    \* DaemonControl
    Daemons = {d1, d2}
    MaxCommands = 2
    MaxCrashes = 1
    \* Reconciliation
    Puts = {"p1"}
    SymbolOf <- MCSymbolOf
    MaxLots = 1
    MaxEvents = 2
INVARIANTS NeverSilent OneOpenRow
PROPERTIES CrashIsRepaired HeldIsTracked
\* The watchdog and the users may have nothing more to do.
CHECK_DEADLOCK FALSE

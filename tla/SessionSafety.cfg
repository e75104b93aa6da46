SPECIFICATION Spec
CONSTANTS
 MaxRetries = 2
 OverflowAt = 3
 Watchers = {w}
 Finishers = {f}
 Monitors = {m}
INVARIANTS BudgetKept StopBoundsLaunches SshOwned
PROPERTY ImplementsTunnel
CHECK_DEADLOCK FALSE

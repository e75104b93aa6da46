SPECIFICATION HealthSpec
CONSTANTS
 MaxRetries = 1
 OverflowAt = 1
 Watchers = {w}
 Finishers = {}
 Monitors = {m}
 monitor = m
 FailureLimit = 2
 Profiles <- MCProfiles
INVARIANT CalmTunnelKept
PROPERTY ZombieRecovered
CHECK_DEADLOCK FALSE

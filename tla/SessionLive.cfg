SPECIFICATION Spec
CONSTANTS
 MaxRetries = 0
 OverflowAt = 1
 Watchers = {w}
 Finishers = {}
 Monitors = {m}
PROPERTIES StopHonoured AbortEndsPublishedSession
CHECK_DEADLOCK FALSE

SPECIFICATION AccountingSpec
CONSTANTS
 MaxRetries = 0
 OverflowAt = 2
 Watchers = {}
 Finishers = {}
 Monitors = {}
 Threshold = 2
 Enabled = TRUE
 AttemptBound = 3
INVARIANTS CountersAgree AttemptShown OneAlertPerOutage AlertNotEarly OutageAlerted
PROPERTY CountersSurvive
CHECK_DEADLOCK FALSE

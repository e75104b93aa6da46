SPECIFICATION Spec
CONSTANTS
    Horizon = 2520
    Anchors = {0, 100, 90000}
INVARIANTS StatsAgree NextIsNext FeedAgrees
PROPERTY NothingTakenBack
CHECK_DEADLOCK FALSE

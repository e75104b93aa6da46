SPECIFICATION Spec
CONSTANTS
 Configs <- TwoProfiles
 First <- Both
 Broken = Broken
 Workers = {u, v}
 RunnerBound = 4
 RequestBound = 3
SYMMETRY Symmetry
INVARIANTS NoLoopForgotten RunnersMatchConfig StopReachesAll
PROPERTY UnchangedUntouched
CHECK_DEADLOCK FALSE

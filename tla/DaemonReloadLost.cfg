SPECIFICATION Spec
CONSTANTS
 Configs <- OneProfile
 First <- Single
 Broken = Broken
 Workers = {u, v}
 RunnerBound = 5
 RequestBound = 3
PROPERTY ReloadNotLost
CHECK_DEADLOCK FALSE

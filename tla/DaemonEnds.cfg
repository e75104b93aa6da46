SPECIFICATION Spec
CONSTANTS
 Configs <- OneProfile
 First <- Single
 Broken = Broken
 Workers = {u}
 RunnerBound = 3
 RequestBound = 2
PROPERTIES ShutdownCompletes LastLoopEndsDaemon
CHECK_DEADLOCK FALSE

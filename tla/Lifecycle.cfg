SPECIFICATION Spec
CONSTANTS
    Slots = {s1, s2}
    MaxPid = 2
    Faults = {"crash", "interrupt", "raise"}
INVARIANTS StoppedIsDead DaemonNamed
PROPERTIES MarkerHitsTarget StartAnswers StopEnds

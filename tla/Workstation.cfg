SPECIFICATION Spec
CONSTANTS
    Contents <- MCContents
    Template <- MCTemplate
    Keys <- MCKeys
    Worlds <- MCWorlds
    MaxEdits = 1
INVARIANTS WorkstationTypeOK NoSelfConflict ControlFindsDaemon PageGuarded NoFalseAlarm ClearMeansFlowing

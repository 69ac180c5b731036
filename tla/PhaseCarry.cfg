CONSTANTS
    Uses = {"set"}
    MaxPeriods = 1
    MaxPhases = 2
    Crossways = 1
    Movements <- MCLeft
    CutMin = 7
    CutMax = 9
    ByteSize = 10
    InitNumber = 1
    InitTables <- MCOne
SPECIFICATION Spec
PROPERTY UnsavedTimeIsLost

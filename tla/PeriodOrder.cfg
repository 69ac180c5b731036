CONSTANTS
    a = a
    b = b
    fresh = fresh
    MaxPeriods = 2
    MaxHour = 2
    MaxMin = 1
    MaxSec = 1
    ByteSize = 4
    Noon <- MCNoon
    Tables <- MCTables
    FirstPhase = fresh
    InitNumber = 2
    InitTimes <- MCTimes
    InitTables <- MCInitTables
    Uses = {"set"}
SPECIFICATION Spec
INVARIANT InOrder

CONSTANTS
    a = a
    b = b
    fresh = fresh
    MaxPeriods = 3
    MaxHour = 1
    MaxMin = 1
    MaxSec = 1
    ByteSize = 3
    Noon <- MCNoon
    Tables <- MCTables
    FirstPhase = fresh
    InitNumber = 2
    InitTimes <- MCTimes
    InitTables <- MCInitTables
    Uses = {"set", "add", "del"}
SPECIFICATION Spec
CONSTRAINT MCScope
INVARIANTS TypeOK SelectionsInUse ScanFindsPeriod
PROPERTIES AddKeepsOthers OrderKept

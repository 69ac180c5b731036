CONSTANTS
    a = a
    b = b
    c = c
    NoLamps = NoLamps
    AllRed = AllRed
    Rows <- MCRows
    MaxPeriods = 2
    MaxPhases = 2
    CutMax = 18
    NewPhaseTime = 3
    Tables <- MCLongTables
    InitSchedule <- MCLongPeriods
    Uses = {"adjust", "LEDCheck", "CutDown", "TimePhase", "cancel"}
    RtcMayFail = TRUE
    Prompt = FALSE
SPECIFICATION Spec
INVARIANTS TypeOK
PROPERTIES AdjustKeepsClearance

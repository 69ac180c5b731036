CONSTANTS
    a = a
    b = b
    c = c
    NoLamps = NoLamps
    AllRed = AllRed
    Rows <- MCRows
    MaxPeriods = 2
    MaxPhases = 2
    CutMax = 17
    NewPhaseTime = 3
    Tables <- MCTables
    InitSchedule <- MCTwoPeriods
    Uses = {"TimePhase"}
    RtcMayFail = FALSE
    Prompt = TRUE
SPECIFICATION Spec
PROPERTY LockShowsChosen

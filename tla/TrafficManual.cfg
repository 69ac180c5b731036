CONSTANTS
    a = a
    b = b
    c = c
    NoLamps = NoLamps
    AllRed = AllRed
    Rows <- MCRows
    MaxPeriods = 2
    MaxPhases = 2
    CutMax = 17
    NewPhaseTime = 3
    Tables <- MCManualTables
    InitSchedule <- MCTwoPeriods
    Uses = {"edit", "TimePhase"}
    RtcMayFail = FALSE
    Prompt = FALSE
SPECIFICATION Spec
INVARIANTS PhaseInTable LockShowsRunning
PROPERTIES ImplementsCycle NeverLitHalfway

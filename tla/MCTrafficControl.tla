-------------------------- MODULE MCTrafficControl --------------------------
\* Small schedules for TrafficControl: two periods of at most two phases.
EXTENDS TrafficControl

CONSTANTS a, b, c   \* three rows with different greens

Plan(n, t0, t1_, r0, r1) ==
    [Phase_Number |-> n,
     Last_Time    |-> [p \in Phases |-> IF p = 0 THEN t0 ELSE t1_],
     Crossway_LED |-> [p \in Phases |-> IF p = 0 THEN r0 ELSE r1]]

MCRows == {a, b, c, NoLamps, AllRed}

TwoPhases == Plan(2, 3, 4, a, b)
OnePhase  == Plan(1, 3, 0, c, AllRed)
LongPhase == Plan(2, 8, 7, b, c)
LongOne   == Plan(1, 7, 0, a, AllRed)

MCTables == {TwoPhases, OnePhase}
MCManualTables == {TwoPhases}
MCLongTables == {LongPhase, OnePhase}
MCLegalTables == {LongPhase}

Stock(n, first, second) ==
    [TimeTable_Number |-> n,
     PhaseTable |-> [t \in Periods |-> IF t = 0 THEN first ELSE second]]

MCTwoPeriods == Stock(2, TwoPhases, OnePhase)
MCLongPeriods == Stock(2, LongPhase, OnePhase)
MCLegalPeriods == Stock(2, LongPhase, LongOne)
=============================================================================

---------------------------- MODULE MCPhaseEditor ----------------------------
\* One or two periods of a few phases for PhaseEditor.
EXTENDS PhaseEditor

\* A table of n phases that are told apart by their times and words; no key
\* makes one of these words, or all-red, of another.
All(colour) == {<<m, IF m \in Walks THEN "Green" ELSE colour>> : m \in MovementSet}
Stock(n) ==
    [Phase_Number |-> n,
     Last_Time    |-> [f \in Phases |->
                         IF f >= n THEN 0 ELSE IF f % 2 = 0 THEN CutMin ELSE CutMax],
     Crossway_LED |-> [c \in Rows |-> [f \in Phases |->
                         IF f >= n \/ c > 0 THEN AllRed
                         ELSE All(IF f = 0 THEN "Green" ELSE "Yellow")]]]

MCOne == [t \in Periods |-> Stock(2)]
\* A short period before a long one, so that a selection can be stale.
MCShort == [t \in Periods |-> Stock(IF t = 0 THEN 1 ELSE MaxPhases)]

MCLeft  == <<"Left">>
MCMoves == <<"Left", "Right", "SideWalk1">>

\* The operator changes one period; the other is as loaded, or as the write past
\* the end of the first has left it.  The colour keys are explored in the first
\* phase of plans whose counts and times are as loaded.
AsLoaded(t) == PhaseTable[t] = InitTables[t]
Plain(word) == word \in {AllRed, All("Green"), All("Yellow")}
Coloured == ~Plain(crossway_phase) \/ \E t \in Periods, f \in Phases :
                ~Plain(PhaseTable[t].Crossway_LED[0][f])
MCScope ==
    /\ AsLoaded(0) \/ AsLoaded(1) \/ PhaseTable[1] = RunInto(InitTables[1])
    /\ Coloured => /\ period_sel = 0 /\ phase_sel = 0 /\ dialog \in {"menu", "set"}
                   /\ \A t \in Periods : /\ PhaseTable[t].Phase_Number = InitTables[t].Phase_Number
                                         /\ PhaseTable[t].Last_Time = InitTables[t].Last_Time
                   /\ cutdown \in {0, CutMin}
=============================================================================

--------------------------- MODULE MCPeriodEditor ---------------------------
\* A short day and at most four periods for PeriodEditor.
EXTENDS PeriodEditor

CONSTANTS a, b, fresh   \* phase tables

At(h, m, s) == [hour |-> h, min |-> m, sec |-> s]

MCTables == {a, b, fresh}
MCNoon   == At(1, 0, 0)
\* Two periods in use; the slots above them repeat the second.
MCTimes      == [i \in Slots |-> IF i = 0 THEN At(0, 0, 1) ELSE At(1, 1, 0)]
MCInitTables == [i \in Slots |-> IF i = 0 THEN a ELSE b]

\* set_period changes times in plans that never had a third period; additions
\* and deletions go on in plans where it has changed neither loaded period.
AsLoaded(i) == TimeTable[i] = MCTimes[i] /\ PhaseTable[i] = MCInitTables[i]
NeverLonger == TimeTable_Number <= 2 /\ \A i \in Slots \ {0, 1} : AsLoaded(i)
Untouched == \A i \in Slots : /\ PhaseTable[i] = a => TimeTable[i] = MCTimes[0]
                              /\ PhaseTable[i] = b => TimeTable[i] = MCTimes[1]
MCScope == NeverLonger \/ Untouched
=============================================================================

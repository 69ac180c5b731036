-------------------------- MODULE PhaseEditor_proofs --------------------------
(***************************************************************************)
(* Proofs about PhaseEditor, for tables of any size, any movements and any *)
(* dialogs the operator opens.                                             *)
(***************************************************************************)
EXTENDS PhaseEditor, SequenceTheorems, TLAPS

-----------------------------------------------------------------------------
(* The shape of the tables *)

\* Phase tables and selections whose words are all from W.
TablesOver(W) == [Phase_Number : 0 .. MaxPhases,
                  Last_Time    : [Phases -> 0 .. ByteSize - 1],
                  Crossway_LED : [Rows -> [Phases -> W]]]

Shape(W) ==
    /\ PhaseTable \in [Periods -> TablesOver(W)]
    /\ dialog \in {"menu", "set", "add", "del"}
    /\ state \in {"ready", "cmd", "need_confirm", "saved", "return"}
    /\ sel \in 0 .. ByteSize - 1
    /\ period_sel \in Periods /\ phase_sel \in 0 .. ByteSize - 1 /\ crossway \in Rows
    /\ option \in {0, 1}
    /\ cutdown \in 0 .. ByteSize - 1 /\ crossway_phase \in W
    /\ dialog = "set" => phase_sel \in Phases

\* What the shape has to be closed under.
Words(W) ==
    /\ W \subseteq SUBSET Lamps /\ AllRed \in W
    /\ \A word \in W, m \in MovementSet :
          NextColour(word, m) \in W /\ PreviousColour(word, m) \in W

LEMMA Limits ==
    /\ MaxPeriods \in Nat /\ MaxPeriods >= 1 /\ MaxPhases \in Nat /\ MaxPhases >= 1
    /\ Crossways \in Nat /\ Crossways >= 1 /\ CutMin \in Nat /\ CutMax \in Nat
    /\ ByteSize \in Nat /\ MaxPhases <= ByteSize /\ CutMin <= CutMax /\ CutMax < ByteSize
    /\ InitNumber \in Nat /\ InitNumber >= 1 /\ InitNumber <= MaxPeriods
    /\ Len(Movements) \in Nat /\ Len(Movements) + 3 < ByteSize /\ 5 < ByteSize
    /\ 0 \in Phases /\ 0 \in Periods /\ 0 \in Rows
<1>1. Len(Movements) \in Nat
  BY FieldsAssumption, LenProperties
<1> QED
  BY <1>1, LimitsAssumption, InitialAssumption, FieldsAssumption DEF Phases, Periods, Rows

LEMMA TableFields ==
    ASSUME NEW W, NEW T \in TablesOver(W)
    PROVE  /\ T.Phase_Number \in 0 .. MaxPhases
           /\ T.Last_Time \in [Phases -> 0 .. ByteSize - 1]
           /\ T.Crossway_LED \in [Rows -> [Phases -> W]]
           /\ T = [Phase_Number |-> T.Phase_Number, Last_Time |-> T.Last_Time,
                   Crossway_LED |-> T.Crossway_LED]
BY DEF TablesOver

LEMMA ShiftedUpIs ==
    ASSUME NEW S, NEW a \in [Phases -> S], NEW from \in Nat, NEW n \in 0 .. MaxPhases
    PROVE  /\ ShiftedUp(a, from, n) \in [Phases -> S]
           /\ \A f \in Phases : ShiftedUp(a, from, n)[f] =
                 IF f \in from + 1 .. n THEN a[f - 1] ELSE a[f]
<1>1. \A f \in Phases : f \in from + 1 .. n => f - 1 \in Phases
  BY Limits DEF Phases
<1> QED
  BY <1>1 DEF ShiftedUp

LEMMA MakeRoomIs ==
    ASSUME NEW W, NEW T \in TablesOver(W), NEW at \in Nat
    PROVE  MakeRoom(T, at) \in TablesOver(W)
<1> DEFINE n == T.Phase_Number
<1>1. n \in 0 .. MaxPhases /\ T.Last_Time \in [Phases -> 0 .. ByteSize - 1]
      /\ T.Crossway_LED \in [Rows -> [Phases -> W]]
  BY TableFields
<1>2. ShiftedUp(T.Last_Time, at, n) \in [Phases -> 0 .. ByteSize - 1]
  BY <1>1, ShiftedUpIs
<1>3. ASSUME NEW c \in Rows PROVE ShiftedUp(T.Crossway_LED[c], at, n) \in [Phases -> W]
  <2>1. T.Crossway_LED[c] \in [Phases -> W]
    BY <1>1
  <2> QED
    BY <1>1, <2>1, ShiftedUpIs
<1> QED
  BY <1>1, <1>2, <1>3 DEF MakeRoom, TablesOver

LEMMA PutInitialPhaseIs ==
    ASSUME NEW W, AllRed \in W, NEW T \in TablesOver(W), T.Phase_Number < MaxPhases, NEW at
    PROVE  PutInitialPhase(T, at) \in TablesOver(W)
<1>1. T.Phase_Number + 1 \in 0 .. MaxPhases /\ CutMin \in 0 .. ByteSize - 1
  BY TableFields, Limits
<1>2. T.Last_Time \in [Phases -> 0 .. ByteSize - 1] /\ T.Crossway_LED \in [Rows -> [Phases -> W]]
  BY TableFields
<1> QED
  BY <1>1, <1>2 DEF PutInitialPhase, TablesOver

LEMMA RunIntoIs ==
    ASSUME NEW W, NEW T \in TablesOver(W) PROVE RunInto(T) \in TablesOver(W)
<1>1. 252 % ByteSize \in 0 .. ByteSize - 1 /\ 0 \in 0 .. MaxPhases
  BY Limits
<1>2. T.Last_Time \in [Phases -> 0 .. ByteSize - 1] /\ T.Crossway_LED \in [Rows -> [Phases -> W]]
  BY TableFields
<1> QED
  BY <1>1, <1>2 DEF RunInto, TablesOver

LEMMA CloseGapIs ==
    ASSUME NEW W, AllRed \in W, NEW T \in TablesOver(W), T.Phase_Number > 1, phase_sel \in Nat
    PROVE  CloseGap(T) \in TablesOver(W)
<1> DEFINE last == T.Phase_Number - 1
<1>1. last \in Nat /\ last \in 0 .. MaxPhases /\ last <= MaxPhases - 1
  BY TableFields, Limits
<1>2. \A f \in phase_sel .. last - 1 : f + 1 \in Phases
  BY <1>1, Limits DEF Phases
<1>3. T.Last_Time \in [Phases -> 0 .. ByteSize - 1] /\ T.Crossway_LED \in [Rows -> [Phases -> W]]
  BY TableFields
<1>4. 0 \in 0 .. ByteSize - 1
  BY Limits
<1> QED
  BY <1>1, <1>2, <1>3, <1>4 DEF CloseGap, TablesOver

-----------------------------------------------------------------------------
(* The shape holds *)

LEMMA AllRedType == AllRed \in SUBSET Lamps
BY DEF AllRed, Lamps, ColoursOf

LEMMA AllWords == Words(SUBSET Lamps)
<1>1. ASSUME NEW word \in SUBSET Lamps, NEW m \in MovementSet
      PROVE  /\ NextColour(word, m) \in SUBSET Lamps
             /\ PreviousColour(word, m) \in SUBSET Lamps
  <2>1. /\ <<m, "Green">> \in Lamps /\ <<m, "Red">> \in Lamps
        /\ m \notin Walks => <<m, "Yellow">> \in Lamps
    BY DEF Lamps, ColoursOf
  <2>2. <<m, "Yellow">> \in word => <<m, "Yellow">> \in Lamps
    OBVIOUS
  <2>3. \A lamp \in Lamps : Xor(word, lamp) \in SUBSET Lamps
    BY DEF Xor
  <2>4. \A k, l \in Lamps : Turn(word, k, l) \in SUBSET Lamps
    BY <2>3 DEF Turn
  <2> QED
    BY <2>1, <2>2, <2>3, <2>4 DEF NextColour, PreviousColour
<1> QED
  BY <1>1, AllRedType DEF Words

LEMMA ShapeTypes == ASSUME NEW W, Words(W), Shape(W) PROVE TypeOK
<1>1. W \subseteq SUBSET Lamps
  BY DEF Words
<1>2. TablesOver(W) \subseteq PhaseTables
  BY <1>1 DEF TablesOver, PhaseTables
<1> QED
  BY <1>1, <1>2 DEF Shape, TypeOK

LEMMA ShapeInit ==
    ASSUME NEW W, Words(W), InitTables \in [Periods -> TablesOver(W)], Init PROVE Shape(W)
BY Limits DEF Init, Fresh, Shape, Words

\* The table a selection names, and what the screen shows of it.
LEMMA Shown ==
    ASSUME NEW W, Shape(W), NEW p \in Periods
    PROVE  /\ PhaseTable[p] \in TablesOver(W) /\ PhaseTable[p].Phase_Number \in 0 .. MaxPhases
           /\ \A f \in Phases : /\ PhaseTable[p].Last_Time[f] \in 0 .. ByteSize - 1
                                /\ \A c \in Rows : PhaseTable[p].Crossway_LED[c][f] \in W
<1>1. PhaseTable[p] \in TablesOver(W)
  BY DEF Shape
<1> QED
  BY <1>1, TableFields

\* Fields and selections of the keys are bytes.
LEMMA CursorType == ASSUME NEW W, Shape(W), MoveCursor PROVE sel' \in 0 .. ByteSize - 1
<1>1. sel \in 0 .. ByteSize - 1 /\ LastField \in 0 .. ByteSize - 1
  BY Limits DEF Shape, LastField
<1>2. \/ sel' = IF sel = 0 THEN LastField ELSE sel - 1
      \/ sel' = IF sel = LastField THEN 0 ELSE (sel + 1) % ByteSize
  BY DEF MoveCursor
<1>3. (sel + 1) % ByteSize \in 0 .. ByteSize - 1 /\ 0 \in 0 .. ByteSize - 1
  BY <1>1, Limits
<1>4. sel # 0 => sel - 1 \in 0 .. ByteSize - 1
  BY <1>1, Limits
<1> QED
  BY <1>1, <1>2, <1>3, <1>4

\* A phase selected by SetNext or SetPrevious is one of the table's, and the
\* dialog shows its word.
LEMMA SetSelected ==
    ASSUME NEW W, Shape(W), SetNext \/ SetPrevious
    PROVE  /\ period_sel' \in Periods /\ phase_sel' \in Phases /\ crossway' \in Rows
           /\ cutdown' \in {Time, cutdown} /\ crossway_phase' = Word
           /\ dialog = "set"
           /\ UNCHANGED <<PhaseTable, dialog, state, sel, option>>
<1>d. dialog = "set" /\ UNCHANGED <<PhaseTable, dialog, state, sel, option>>
      /\ crossway_phase' = Word
  BY DEF SetNext, SetPrevious, SetSelect, InDialog
<1>1. /\ period_sel \in Periods /\ phase_sel \in Phases /\ crossway \in Rows
      /\ Table.Phase_Number \in 0 .. MaxPhases
  BY <1>d, Shown DEF Shape, Table
<1>2. /\ (crossway + 1) % Crossways \in Rows /\ (crossway + Crossways - 1) % Crossways \in Rows
  BY <1>1, Limits DEF Rows
<1>3. /\ period_sel < InitNumber - 1 => period_sel + 1 \in Periods
      /\ period_sel > 0 => period_sel - 1 \in Periods
      /\ phase_sel < Table.Phase_Number - 1 => phase_sel + 1 \in Phases
      /\ phase_sel > 0 => phase_sel - 1 \in Phases
  BY <1>1, Limits DEF Periods, Phases
<1>4. CASE SetNext
  BY <1>d, <1>1, <1>2, <1>3, <1>4, Limits DEF SetNext, SetSelect
<1>5. CASE SetPrevious
  BY <1>d, <1>1, <1>2, <1>3, <1>5, Limits DEF SetPrevious, SetSelect
<1> QED
  BY <1>4, <1>5

LEMMA AddSelected ==
    ASSUME NEW W, Shape(W), AddSelect
    PROVE  period_sel' \in Periods /\ phase_sel' \in 0 .. ByteSize - 1 /\ option' \in {0, 1}
<1>1. /\ period_sel \in Periods /\ phase_sel \in 0 .. ByteSize - 1 /\ option \in {0, 1}
      /\ Table.Phase_Number \in 0 .. MaxPhases
  BY Shown DEF Shape, Table
<1> QED
  BY <1>1, Limits DEF AddSelect, Periods

LEMMA DelSelected ==
    ASSUME NEW W, Shape(W), DelSelect
    PROVE  period_sel' \in Periods /\ phase_sel' \in 0 .. ByteSize - 1 /\ crossway' \in Rows
<1>1. /\ period_sel \in Periods /\ phase_sel \in 0 .. ByteSize - 1 /\ crossway \in Rows
      /\ Table.Phase_Number \in 0 .. MaxPhases
  BY Shown DEF Shape, Table
<1>2. /\ (period_sel + 1) % InitNumber \in Periods
      /\ (period_sel + InitNumber - 1) % InitNumber \in Periods
  BY <1>1, Limits DEF Periods
<1>3. /\ (crossway + 1) % Crossways \in Rows /\ (crossway + Crossways - 1) % Crossways \in Rows
  BY <1>1, Limits DEF Rows
<1>4. (Table.Phase_Number - 1) % ByteSize \in 0 .. ByteSize - 1
  BY <1>1, Limits
<1>5. /\ (IF phase_sel < Table.Phase_Number - 1 THEN phase_sel + 1 ELSE 0) \in 0 .. ByteSize - 1
      /\ phase_sel > 0 => phase_sel - 1 \in 0 .. ByteSize - 1
      /\ 0 \in 0 .. ByteSize - 1
  BY <1>1, Limits
<1> QED
  BY <1>1, <1>2, <1>3, <1>4, <1>5 DEF DelSelect

LEMMA AddSaveShape ==
    ASSUME NEW W, Words(W), Shape(W), AddSave PROVE PhaseTable' \in [Periods -> TablesOver(W)]
<1>1. /\ AllRed \in W /\ AddAt \in Nat /\ period_sel \in Periods /\ Table \in TablesOver(W)
      /\ Table.Phase_Number < MaxPhases
  BY Shown DEF Words, Shape, AddSave, AddAt, Table
<1>2. MakeRoom(Table, AddAt) \in TablesOver(W)
  BY <1>1, MakeRoomIs
<1>3. MakeRoom(Table, AddAt).Phase_Number < MaxPhases
  BY <1>1 DEF MakeRoom
<1>4. PutInitialPhase(MakeRoom(Table, AddAt), AddAt) \in TablesOver(W)
  BY <1>1, <1>2, <1>3, PutInitialPhaseIs
<1>5. \A t \in Periods :
         PhaseTable[t] \in TablesOver(W) /\ RunInto(PhaseTable[t]) \in TablesOver(W)
  BY Shown, RunIntoIs
<1> QED
  BY <1>4, <1>5 DEF AddSave

LEMMA SetSaveShape ==
    ASSUME NEW W, Shape(W), SetSave PROVE PhaseTable' \in [Periods -> TablesOver(W)]
<1> DEFINE c0 == crossway
           f0 == phase_sel
           T == PhaseTable[period_sel]
           R == [T EXCEPT !.Crossway_LED[c0][f0] = crossway_phase, !.Last_Time[f0] = cutdown]
<1>1. /\ c0 \in Rows /\ f0 \in Phases /\ period_sel \in Periods /\ crossway_phase \in W
      /\ cutdown \in 0 .. ByteSize - 1 /\ T \in TablesOver(W)
  BY Shown DEF Shape, SetSave, InDialog
<1>2. R \in TablesOver(W)
  BY <1>1 DEF TablesOver
<1>3. PhaseTable' = [PhaseTable EXCEPT ![period_sel] = R]
  BY <1>1 DEF SetSave, Shape
<1> HIDE DEF R
<1> QED
  BY <1>1, <1>2, <1>3 DEF Shape

LEMMA DelConfirmShape ==
    ASSUME NEW W, Words(W), Shape(W), DelConfirm
    PROVE  PhaseTable' \in [Periods -> TablesOver(W)] /\ phase_sel' \in 0 .. ByteSize - 1
<1>1. /\ AllRed \in W /\ phase_sel \in Nat /\ period_sel \in Periods /\ Table \in TablesOver(W)
      /\ Table.Phase_Number \in 0 .. MaxPhases /\ phase_sel \in 0 .. ByteSize - 1
      /\ PhaseTable \in [Periods -> TablesOver(W)]
  BY Shown DEF Words, Shape, Table
<1>2. CASE Table.Phase_Number > 1
  <2>1. CloseGap(Table) \in TablesOver(W) /\ CloseGap(Table).Phase_Number = Table.Phase_Number - 1
    BY <1>1, <1>2, CloseGapIs DEF CloseGap
  <2>2. PhaseTable' = [PhaseTable EXCEPT ![period_sel] = CloseGap(Table)]
        /\ phase_sel' = PhaseTable'[period_sel].Phase_Number - 1
    BY <1>2 DEF DelConfirm, Table
  <2>3. PhaseTable'[period_sel] = CloseGap(Table) /\ PhaseTable' \in [Periods -> TablesOver(W)]
    BY <1>1, <2>1, <2>2
  <2>4. phase_sel' = Table.Phase_Number - 2
    BY <1>1, <2>1, <2>2, <2>3
  <2> QED
    BY <1>1, <1>2, <2>3, <2>4, Limits
<1>3. CASE ~(Table.Phase_Number > 1)
  BY <1>1, <1>3 DEF DelConfirm
<1> QED
  BY <1>2, <1>3

LEMMA ShapeStep == ASSUME NEW W, Words(W), Shape(W), [Next]_vars PROVE Shape(W)'
<1> USE DEF selection, edited
<1>1. ASSUME NEW d \in Uses, OpenDialog(d) PROVE Shape(W)'
  <2>1. Time \in 0 .. ByteSize - 1 /\ Word \in W
    <3>1. period_sel' = 0 /\ phase_sel' = 0 /\ crossway' = 0
      BY <1>1 DEF OpenDialog
    <3> QED
      BY <3>1, Shown, Limits DEF Time, Word
  <2>2. 0 \in 0 .. ByteSize - 1 /\ d \in {"set", "add", "del"}
    BY Limits, DialogsAssumption
  <2> QED
    BY <1>1, <2>1, <2>2, Limits DEF OpenDialog, Shape
<1>2. CASE KEY6
  BY <1>2 DEF KEY6, Shape
<1>3. CASE CloseDialog
  BY <1>3, Limits DEF CloseDialog, Shape, Words
<1>4. CASE MoveCursor
  <2>1. UNCHANGED <<PhaseTable, dialog, state, selection, option, edited>>
    BY <1>4 DEF MoveCursor, InDialog
  <2> QED
    BY <1>4, <2>1, CursorType DEF Shape
<1>5. CASE SetNext \/ SetPrevious
  <2>1. /\ period_sel' \in Periods /\ phase_sel' \in Phases /\ crossway' \in Rows
        /\ cutdown' \in {Time, cutdown} /\ crossway_phase' = Word
        /\ UNCHANGED <<PhaseTable, dialog, state, sel, option>>
    BY <1>5, SetSelected
  <2>2. Time \in 0 .. ByteSize - 1 /\ Word \in W
    BY <2>1, Shown DEF Time, Word
  <2>3. Phases \subseteq 0 .. ByteSize - 1
    BY Limits DEF Phases
  <2> QED
    BY <2>1, <2>2, <2>3 DEF Shape
<1>6. CASE SetColour
  <2>1. /\ sel \in 3 .. Len(Movements) + 2 /\ dialog' = dialog
        /\ crossway_phase' \in {NextColour(crossway_phase, Movements[sel - 2]),
                                PreviousColour(crossway_phase, Movements[sel - 2])}
        /\ UNCHANGED <<PhaseTable, state, sel, selection, option, cutdown>>
    BY <1>6, Limits DEF SetColour, InDialog, LastField
  <2>2. Movements[sel - 2] \in MovementSet
    <3>1. sel - 2 \in 1 .. Len(Movements)
      BY <2>1, Limits
    <3> QED
      BY <3>1, FieldsAssumption, ElementOfSeq
  <2>3. crossway_phase' \in W
    BY <2>1, <2>2 DEF Words, Shape
  <2> QED
    BY <2>1, <2>3 DEF Shape
<1>7. CASE SetTime
  <2>1. cutdown' \in 0 .. ByteSize - 1
    BY <1>7, Limits DEF SetTime, Shape
  <2> QED
    BY <1>7, <2>1 DEF SetTime, InDialog, Shape
<1>8. CASE SetSave
  BY <1>8, SetSaveShape DEF SetSave, InDialog, Shape
<1>9. CASE AddSelect
  <2>1. dialog = "add" /\ UNCHANGED <<PhaseTable, dialog, state, sel, crossway, edited>>
    BY <1>9 DEF AddSelect, InDialog
  <2> QED
    BY <1>9, <2>1, AddSelected DEF Shape
<1>10. CASE AddSave
  BY <1>10, AddSaveShape DEF AddSave, InDialog, Shape
<1>11. CASE DelSelect
  <2>1. dialog = "del" /\ UNCHANGED <<PhaseTable, dialog, state, sel, option, edited>>
    BY <1>11 DEF DelSelect, InDialog
  <2> QED
    BY <1>11, <2>1, DelSelected DEF Shape
<1>12. CASE DelAsk \/ DelToggle \/ DelRefuse
  <2>1. 4 \in 0 .. ByteSize - 1 /\ 5 \in 0 .. ByteSize - 1
    BY Limits
  <2> QED
    BY <1>12, <2>1 DEF DelAsk, DelToggle, DelRefuse, InDialog, Asked, Shape
<1>13. CASE DelConfirm
  <2>1. dialog = "del" /\ dialog' = dialog /\ state' = "saved"
        /\ UNCHANGED <<sel, period_sel, crossway, option, edited>>
    BY <1>13 DEF DelConfirm, Asked
  <2> QED
    BY <1>13, <2>1, DelConfirmShape DEF Shape
<1>14. CASE UNCHANGED vars
  BY <1>14 DEF vars, Shape
<1> QED
  BY <1>1, <1>2, <1>3, <1>4, <1>5, <1>6, <1>7, <1>8, <1>9, <1>10, <1>11, <1>12, <1>13, <1>14
  DEF Next, SetPhase, DelPhase

LEMMA InitShape == InitTables \in [Periods -> TablesOver(SUBSET Lamps)]
BY InitialAssumption DEF PhaseTables, TablesOver

\* Whatever the three dialogs do, over any number of periods and also where an
\* addition writes past a table, every count, time and selection stays in its
\* type (RA8806_CTRL.c:3185-4076).
THEOREM TypeCorrect == Spec => []TypeOK
<1>1. Init => Shape(SUBSET Lamps)
  BY InitShape, AllWords, ShapeInit
<1>2. Shape(SUBSET Lamps) /\ [Next]_vars => Shape(SUBSET Lamps)'
  BY AllWords, ShapeStep
<1>3. Shape(SUBSET Lamps) => TypeOK
  BY AllWords, ShapeTypes
<1> QED
  BY <1>1, <1>2, <1>3, PTL DEF Spec

-----------------------------------------------------------------------------
(* One colour of a movement *)

\* The words with at most one colour of each movement of M.
OneEach(M) == {w \in SUBSET Lamps : \A m \in M : OneIn(w, m)}

LEMMA OneColourWords ==
    ASSUME NEW M \in SUBSET OwnMovements PROVE Words(OneEach(M))
<1>0. M \subseteq MovementSet
  BY DEF OwnMovements
<1>1. AllRed \in OneEach(M)
  BY <1>0, AllRedType DEF AllRed, OneEach, OneIn
<1>2. ASSUME NEW word \in OneEach(M), NEW m \in MovementSet
      PROVE  NextColour(word, m) \in OneEach(M) /\ PreviousColour(word, m) \in OneEach(M)
  <2> DEFINE next == NextColour(word, m)
             prev == PreviousColour(word, m)
  <2>1. next \in SUBSET Lamps /\ prev \in SUBSET Lamps
    BY <1>2, AllWords DEF OneEach, Words
  <2>2. ASSUME NEW n \in M, n # m, NEW k
        PROVE  (<<n, k>> \in next <=> <<n, k>> \in word)
               /\ (<<n, k>> \in prev <=> <<n, k>> \in word)
    BY <2>2 DEF NextColour, PreviousColour, Xor, Turn
  <2>3. ASSUME NEW n \in M, n = m, NEW k \in ColoursOf(n), NEW l \in ColoursOf(n)
        PROVE  /\ <<n, k>> \in next /\ <<n, l>> \in next => k = l
               /\ <<n, k>> \in prev /\ <<n, l>> \in prev => k = l
    <3>1. \A a, b \in ColoursOf(m) : <<m, a>> \in word /\ <<m, b>> \in word => a = b
      BY <2>3 DEF OneEach, OneIn
    <3>2. Tested(m, "Red") = <<m, "Red">> /\ Tested(m, "Yellow") = <<m, "Yellow">>
      BY <2>3 DEF OwnMovements
    <3>3. /\ "Green" \in ColoursOf(m) /\ "Red" \in ColoursOf(m)
          /\ m \notin Walks => "Yellow" \in ColoursOf(m)
          /\ k \in {"Green", "Yellow", "Red"} /\ l \in {"Green", "Yellow", "Red"}
          /\ m \in Walks => k # "Yellow" /\ l # "Yellow"
      BY <2>3 DEF ColoursOf
    <3>4. <<n, k>> \in next /\ <<n, l>> \in next => k = l
      BY <2>3, <3>1, <3>3 DEF NextColour, Xor, Turn
    <3>5. <<n, k>> \in prev /\ <<n, l>> \in prev => k = l
      BY <2>3, <3>1, <3>2, <3>3 DEF PreviousColour, Xor, Turn
    <3> QED
      BY <3>4, <3>5
  <2> HIDE DEF next, prev
  <2>4. \A n \in M : \A k, l \in ColoursOf(n) : <<n, k>> \in next /\ <<n, l>> \in next => k = l
    BY <1>2, <2>2, <2>3 DEF OneEach, OneIn
  <2>5. \A n \in M : \A k, l \in ColoursOf(n) : <<n, k>> \in prev /\ <<n, l>> \in prev => k = l
    BY <1>2, <2>2, <2>3 DEF OneEach, OneIn
  <2> QED
    BY <2>1, <2>4, <2>5 DEF OneEach, OneIn, next, prev
<1> QED
  BY <1>1, <1>2 DEF Words, OneEach

LEMMA ShapeOneColour ==
    ASSUME NEW M \in SUBSET MovementSet, Shape(OneEach(M)) PROVE \A m \in M : OneColourOf(m)
<1> SUFFICES ASSUME NEW m \in M, NEW x \in InUse, NEW c \in Rows
             PROVE  OneIn(PhaseTable[x[1]].Crossway_LED[c][x[2]], m)
  BY DEF OneColourOf
<1>1. x[1] \in Periods /\ x[2] \in Phases
  BY DEF InUse
<1>2. PhaseTable[x[1]].Crossway_LED[c][x[2]] \in OneEach(M)
  BY <1>1, Shown
<1> QED
  BY <1>2 DEF OneEach

\* The movements whose keys test their own lamps, left turn and the walks,
\* never get two colours in any phase, whatever the keys of the others do and
\* wherever an addition writes (RA8806_CTRL.c:3217-3412).
THEOREM OwnLampsKept ==
    ASSUME InitTables \in [Periods -> TablesOver(OneEach(OwnMovements))]
    PROVE  Spec => []OwnOneColour
<1>1. Init => Shape(OneEach(OwnMovements))
  BY OneColourWords, ShapeInit
<1>2. Shape(OneEach(OwnMovements)) /\ [Next]_vars => Shape(OneEach(OwnMovements))'
  BY OneColourWords, ShapeStep
<1>3. Shape(OneEach(OwnMovements)) => OwnOneColour
  BY ShapeOneColour DEF OwnOneColour, OwnMovements
<1> QED
  BY <1>1, <1>2, <1>3, PTL DEF Spec

\* One key on the colours of movement n, seen by any movement m.
LEMMA OneKey ==
    ASSUME NEW word \in SUBSET Lamps, NEW m \in MovementSet, NEW n \in MovementSet,
           NEW next \in {NextColour(word, n), PreviousColour(word, n)},
           OneIn(word, m), ~OneIn(next, m)
    PROVE  /\ m \in {"Straight", "Right", "Back"}
           /\ \E k \in {"Red", "Yellow"} : (<<m, k>> \in word) # (<<"Left", k>> \in word)
<1> DEFINE Has(k) == <<m, k>> \in word
<1>1. /\ "Green" \in ColoursOf(m) /\ "Red" \in ColoursOf(m)
      /\ m \notin Walks => "Yellow" \in ColoursOf(m)
      /\ m \in Walks => ~Has("Yellow")
      /\ ColoursOf(m) \subseteq {"Green", "Yellow", "Red"}
  BY DEF ColoursOf, Lamps
<1>2. /\ ~(Has("Green") /\ Has("Red"))
      /\ ~(Has("Green") /\ Has("Yellow")) /\ ~(Has("Red") /\ Has("Yellow"))
  BY <1>1 DEF OneIn
<1>3. n = m
  <2> SUFFICES ASSUME n # m PROVE FALSE
    OBVIOUS
  <2>1. \A k : <<m, k>> \in next <=> <<m, k>> \in word
    BY DEF NextColour, PreviousColour, Xor, Turn
  <2> QED
    BY <2>1 DEF OneIn
<1>4. \A w : ~(<<m, "Green">> \in w /\ <<m, "Red">> \in w)
             /\ ~(<<m, "Green">> \in w /\ <<m, "Yellow">> \in w)
             /\ ~(<<m, "Red">> \in w /\ <<m, "Yellow">> \in w) => OneIn(w, m)
  BY <1>1 DEF OneIn
<1>5. next # NextColour(word, m)
  <2> SUFFICES ASSUME next = NextColour(word, m) PROVE OneIn(next, m)
    OBVIOUS
  <2> QED
    BY <1>2, <1>4 DEF NextColour, Xor, Turn
<1>6. next = PreviousColour(word, m)
  BY <1>3, <1>5
<1>7. ASSUME Tested(m, "Red") \in word <=> <<m, "Red">> \in word,
             Tested(m, "Yellow") \in word <=> <<m, "Yellow">> \in word
      PROVE  OneIn(next, m)
  <2>1. CASE Has("Green")
    BY <1>2, <1>4, <1>6, <2>1 DEF PreviousColour, Xor
  <2>2. CASE ~Has("Green") /\ Has("Red")
    BY <1>2, <1>4, <1>6, <1>7, <2>2 DEF PreviousColour, Xor, Turn
  <2>3. CASE ~Has("Green") /\ ~Has("Red") /\ m \in Walks
    BY <1>1, <1>4, <1>6, <1>7, <2>3 DEF PreviousColour
  <2>4. CASE ~Has("Green") /\ ~Has("Red") /\ m \notin Walks /\ Has("Yellow")
    BY <1>4, <1>6, <1>7, <2>4 DEF PreviousColour, Xor, Turn
  <2>5. CASE ~Has("Green") /\ ~Has("Red") /\ m \notin Walks /\ ~Has("Yellow")
    BY <1>4, <1>6, <1>7, <2>5 DEF PreviousColour
  <2> QED
    BY <2>1, <2>2, <2>3, <2>4, <2>5
<1>8. PICK k \in {"Red", "Yellow"} : ~(Tested(m, k) \in word <=> <<m, k>> \in word)
  BY <1>7
<1>9. Tested(m, k) = <<"Left", k>> /\ m \in {"Straight", "Right", "Back"}
  BY <1>8 DEF Tested
<1> QED
  BY <1>8, <1>9

\* While the cursor is on a colour only a colour key changes the word, but for
\* the key that closes the dialog and frees its data.
LEMMA ColourKey ==
    ASSUME [Next]_vars, dialog = "set", sel > 2, sel \in Nat,
           crossway_phase' \notin {crossway_phase, AllRed}
    PROVE  SetColour
<1> USE DEF edited
<1>1. ~\E d \in Uses : OpenDialog(d)
  BY DEF OpenDialog
<1>2. ~(KEY6 \/ CloseDialog \/ MoveCursor \/ UNCHANGED vars)
  BY DEF KEY6, CloseDialog, MoveCursor, vars
<1>3. ~(SetNext \/ SetPrevious)
  BY DEF SetNext, SetPrevious
<1>4. ~(SetTime \/ SetSave)
  BY DEF SetTime, SetSave
<1>5. ~(AddSelect \/ AddSave)
  BY DEF AddSelect, AddSave, InDialog
<1>6. ~DelPhase
  BY DEF DelPhase, DelSelect, DelAsk, DelToggle, DelRefuse, DelConfirm, InDialog, Asked
<1> QED
  BY <1>1, <1>2, <1>3, <1>4, <1>5, <1>6 DEF Next, SetPhase

\* The keys give a movement a second colour only where they test left turn's
\* lamp for its own and the two differ: the sixteen cases of KEY1 and KEY2 are
\* right in everything else (RA8806_CTRL.c:3217-3412).
THEOREM SecondColour == Spec => SecondColourFromLeft
<1>1. Init => Shape(SUBSET Lamps)
  BY InitShape, AllWords, ShapeInit
<1>2. Shape(SUBSET Lamps) /\ [Next]_vars => Shape(SUBSET Lamps)'
  BY AllWords, ShapeStep
<1>3. Shape(SUBSET Lamps) /\ [Next]_vars =>
        [\A m \in MovementSet :
          dialog = "set" /\ sel > 2 /\ OneIn(crossway_phase, m) /\ ~OneIn(crossway_phase', m) =>
              /\ m \in {"Straight", "Right", "Back"}
              /\ \E k \in {"Red", "Yellow"} :
                    (<<m, k>> \in crossway_phase) # (<<"Left", k>> \in crossway_phase)]_vars
  <2> SUFFICES ASSUME Shape(SUBSET Lamps), [Next]_vars, NEW m \in MovementSet,
                      dialog = "set", sel > 2,
                      OneIn(crossway_phase, m), ~OneIn(crossway_phase', m)
               PROVE  /\ m \in {"Straight", "Right", "Back"}
                      /\ \E k \in {"Red", "Yellow"} :
                            (<<m, k>> \in crossway_phase) # (<<"Left", k>> \in crossway_phase)
    OBVIOUS
  <2>1. sel \in Nat /\ crossway_phase \in SUBSET Lamps
    BY Limits DEF Shape
  <2>2. SetColour
    <3>1. OneIn(AllRed, m)
      BY DEF OneIn, AllRed
    <3> QED
      BY <2>1, <3>1, ColourKey
  <2>3. sel \in 3 .. Len(Movements) + 2
    BY <2>2, Limits DEF SetColour, LastField
  <2>4. sel - 2 \in 1 .. Len(Movements)
    BY <2>3, Limits
  <2>5. Movements[sel - 2] \in MovementSet
    BY <2>4, FieldsAssumption, ElementOfSeq
  <2> DEFINE n == Movements[sel - 2]
             next == crossway_phase'
  <2>6. next \in {NextColour(crossway_phase, n), PreviousColour(crossway_phase, n)}
    BY <2>2 DEF SetColour
  <2>7. OneIn(crossway_phase, m) /\ ~OneIn(next, m) /\ n \in MovementSet
    BY <2>5
  <2> HIDE DEF n, next
  <2> QED
    BY <2>1, <2>6, <2>7, OneKey
<1> QED
  BY <1>1, <1>2, <1>3, PTL DEF Spec, SecondColourFromLeft

-----------------------------------------------------------------------------
(* Times and selections *)

\* The selection names a period in use, and a phase of it unless it has none.
\* An open time is in range as long as all times are.
SelInv ==
    /\ dialog # "menu" => period_sel < InitNumber
    /\ dialog \in {"set", "del"} /\ Table.Phase_Number > 0 => phase_sel < Table.Phase_Number
    /\ dialog = "set" /\ Table.Phase_Number > 0 /\ TimesInRange => cutdown \in CutMin .. CutMax

Inv == Shape(SUBSET Lamps) /\ SelInv

\* What the shape says of the selected table.
LEMMA Selected ==
    ASSUME Shape(SUBSET Lamps)
    PROVE  /\ period_sel \in Periods /\ phase_sel \in Nat /\ crossway \in Rows
           /\ option \in {0, 1} /\ Table \in TablesOver(SUBSET Lamps)
           /\ Table.Phase_Number \in 0 .. MaxPhases
           /\ PhaseTable \in [Periods -> TablesOver(SUBSET Lamps)]
<1>1. /\ period_sel \in Periods /\ phase_sel \in 0 .. ByteSize - 1 /\ crossway \in Rows
      /\ option \in {0, 1} /\ PhaseTable \in [Periods -> TablesOver(SUBSET Lamps)]
  BY DEF Shape
<1>2. Table \in TablesOver(SUBSET Lamps) /\ Table.Phase_Number \in 0 .. MaxPhases
  BY <1>1, Shown DEF Table
<1>3. phase_sel \in Nat
  BY <1>1, Limits
<1> QED
  BY <1>1, <1>2, <1>3

\* What a dialog shows of a phase in use lasts within the limits.
LEMMA TimeShown ==
    ASSUME TimesInRange, NEW p \in Periods, p < InitNumber, NEW f \in Phases,
           f < PhaseTable[p].Phase_Number
    PROVE  PhaseTable[p].Last_Time[f] \in CutMin .. CutMax
<1>1. <<p, f>> \in InUse
  BY DEF InUse
<1> QED
  BY <1>1 DEF TimesInRange

\* Times of phases in use, one period at a time.
LEMMA TimesAre ==
    TimesInRange <=>
        \A p \in Periods, f \in Phases : p < InitNumber /\ f < PhaseTable[p].Phase_Number
            => PhaseTable[p].Last_Time[f] \in CutMin .. CutMax
<1>1. ASSUME TimesInRange
      PROVE  \A p \in Periods, f \in Phases : p < InitNumber /\ f < PhaseTable[p].Phase_Number
                => PhaseTable[p].Last_Time[f] \in CutMin .. CutMax
  BY <1>1, TimeShown
<1>2. ASSUME \A p \in Periods, f \in Phases : p < InitNumber /\ f < PhaseTable[p].Phase_Number
                => PhaseTable[p].Last_Time[f] \in CutMin .. CutMax
      PROVE  TimesInRange
  BY <1>2 DEF TimesInRange, InUse
<1> QED
  BY <1>1, <1>2

LEMMA TimesAreNext ==
    TimesInRange' <=>
        \A p \in Periods, f \in Phases : p < InitNumber /\ f < PhaseTable'[p].Phase_Number
            => PhaseTable'[p].Last_Time[f] \in CutMin .. CutMax
<1>1. ASSUME TimesInRange'
      PROVE  \A p \in Periods, f \in Phases : p < InitNumber /\ f < PhaseTable'[p].Phase_Number
                => PhaseTable'[p].Last_Time[f] \in CutMin .. CutMax
  <2> SUFFICES ASSUME NEW p \in Periods, NEW f \in Phases, p < InitNumber,
                      f < PhaseTable'[p].Phase_Number
               PROVE  PhaseTable'[p].Last_Time[f] \in CutMin .. CutMax
    OBVIOUS
  <2>1. <<p, f>> \in InUse'
    BY DEF InUse
  <2> QED
    BY <1>1, <2>1 DEF TimesInRange
<1>2. ASSUME \A p \in Periods, f \in Phases : p < InitNumber /\ f < PhaseTable'[p].Phase_Number
                => PhaseTable'[p].Last_Time[f] \in CutMin .. CutMax
      PROVE  TimesInRange'
  BY <1>2 DEF TimesInRange, InUse
<1> QED
  BY <1>1, <1>2

\* The selection set_phase's keys leave.
LEMMA SetSelectedInv ==
    ASSUME Inv, SetNext \/ SetPrevious
    PROVE  /\ period_sel' < InitNumber
           /\ PhaseTable[period_sel'].Phase_Number > 0
                => phase_sel' < PhaseTable[period_sel'].Phase_Number
           /\ PhaseTable[period_sel'].Phase_Number > 0 /\ TimesInRange
                => cutdown' \in CutMin .. CutMax
<1>1. /\ dialog = "set" /\ period_sel' \in Periods /\ phase_sel' \in Phases
      /\ cutdown' \in {Time, cutdown} /\ PhaseTable' = PhaseTable
  BY SetSelected DEF Inv
<1>2. /\ period_sel \in Periods /\ period_sel < InitNumber /\ phase_sel \in Phases
      /\ Table.Phase_Number \in 0 .. MaxPhases
      /\ Table.Phase_Number > 0 => phase_sel < Table.Phase_Number
      /\ Table.Phase_Number > 0 /\ TimesInRange => cutdown \in CutMin .. CutMax
  BY <1>1, Selected DEF Inv, SelInv, Shape
<1>3. CASE period_sel' = period_sel /\ phase_sel' \in {phase_sel, phase_sel - 1, phase_sel + 1}
           /\ (phase_sel' = phase_sel + 1 => phase_sel < Table.Phase_Number - 1)
  <2>1. Table.Phase_Number > 0 => phase_sel' < Table.Phase_Number
    BY <1>2, <1>3, Limits DEF Phases
  <2>2. Time = Table.Last_Time[phase_sel']
    BY <1>1, <1>3 DEF Time, Table
  <2>3. Table.Phase_Number > 0 /\ TimesInRange => Time \in CutMin .. CutMax
    BY <1>1, <1>2, <2>1, <2>2, TimeShown DEF Table
  <2> QED
    BY <1>1, <1>2, <1>3, <2>1, <2>3 DEF Table
<1>4. CASE period_sel' < InitNumber /\ phase_sel' = 0 /\ cutdown' = Time
  <2>1. Time = PhaseTable[period_sel'].Last_Time[0]
    BY <1>1, <1>4 DEF Time
  <2> QED
    BY <1>1, <1>4, <2>1, Limits, TimeShown
<1>5. /\ period_sel < InitNumber - 1 => period_sel + 1 < InitNumber
      /\ period_sel > 0 => period_sel - 1 < InitNumber
      /\ 0 < InitNumber
      /\ phase_sel + 1 # phase_sel /\ phase_sel + 1 # phase_sel - 1
      /\ period_sel = 0 \/ period_sel > 0
      /\ phase_sel = 0 \/ phase_sel > 0
  BY <1>2, Limits DEF Periods, Phases
<1>6. CASE SetNext
  BY <1>2, <1>3, <1>4, <1>5, <1>6 DEF SetNext, SetSelect
<1>7. CASE SetPrevious
  <2>1. \/ period_sel' = period_sel /\ phase_sel' = phase_sel
        \/ period_sel' < InitNumber /\ phase_sel' = 0 /\ cutdown' = Time
        \/ period_sel' = period_sel /\ phase_sel' = phase_sel - 1
    BY <1>2, <1>5, <1>7 DEF SetPrevious, SetSelect
  <2> QED
    BY <1>3, <1>4, <1>5, <2>1
<1> QED
  BY <1>6, <1>7

\* What a save of set_phase leaves.
LEMMA Saved ==
    ASSUME Shape(SUBSET Lamps), SetSave
    PROVE  /\ \A p \in Periods : PhaseTable'[p].Phase_Number = PhaseTable[p].Phase_Number
           /\ \A p \in Periods, f \in Phases : PhaseTable'[p].Last_Time[f] =
                 IF p = period_sel /\ f = phase_sel THEN cutdown ELSE PhaseTable[p].Last_Time[f]
<1> DEFINE T == Table
           R == [T EXCEPT !.Crossway_LED[crossway][phase_sel] = crossway_phase,
                          !.Last_Time[phase_sel] = cutdown]
<1>1. /\ period_sel \in Periods /\ T \in TablesOver(SUBSET Lamps)
      /\ PhaseTable \in [Periods -> TablesOver(SUBSET Lamps)]
  BY Selected
<1>2. PhaseTable' = [PhaseTable EXCEPT ![period_sel] = R]
  BY <1>1 DEF SetSave, Table
<1>3. R.Phase_Number = T.Phase_Number /\ R.Last_Time = [T.Last_Time EXCEPT ![phase_sel] = cutdown]
  BY <1>1 DEF TablesOver
<1>4. T.Last_Time \in [Phases -> 0 .. ByteSize - 1]
  BY <1>1, TableFields
<1> HIDE DEF R
<1>5. \A f \in Phases : R.Last_Time[f] = IF f = phase_sel THEN cutdown ELSE T.Last_Time[f]
  BY <1>3, <1>4
<1>6. \A p \in Periods : PhaseTable'[p] = IF p = period_sel THEN R ELSE PhaseTable[p]
  BY <1>1, <1>2
<1> QED
  BY <1>1, <1>3, <1>5, <1>6 DEF Table

\* The table an addition within the phases of its period, or up to the end of
\* the table, leaves: its phases by what they were.
LEMMA Added ==
    ASSUME Shape(SUBSET Lamps), AddSave, AddAt \in Phases
    PROVE  LET T == Table
               R == PhaseTable'[period_sel]
               n == T.Phase_Number
           IN  /\ R.Phase_Number = n + 1
               /\ \A f \in Phases : R.Last_Time[f] =
                     IF f = AddAt THEN CutMin
                     ELSE IF f \in AddAt + 1 .. n THEN T.Last_Time[f - 1] ELSE T.Last_Time[f]
               /\ \A c \in Rows, f \in Phases : R.Crossway_LED[c][f] =
                     IF f = AddAt THEN AllRed
                     ELSE IF f \in AddAt + 1 .. n THEN T.Crossway_LED[c][f - 1]
                          ELSE T.Crossway_LED[c][f]
               /\ \A t \in Periods : t # period_sel => PhaseTable'[t] = PhaseTable[t]
<1> DEFINE T == Table
           n == T.Phase_Number
           M == MakeRoom(T, AddAt)
           R == PutInitialPhase(M, AddAt)
<1>1. period_sel \in Periods
  BY Selected
<1>2. /\ PhaseTable'[period_sel] = R
      /\ \A t \in Periods : t # period_sel => PhaseTable'[t] = PhaseTable[t]
  BY <1>1 DEF AddSave
<1>3. /\ M.Phase_Number = n
      /\ \A f \in Phases : M.Last_Time[f] =
            IF f \in AddAt + 1 .. n THEN T.Last_Time[f - 1] ELSE T.Last_Time[f]
      /\ \A c \in Rows, f \in Phases : M.Crossway_LED[c][f] =
            IF f \in AddAt + 1 .. n THEN T.Crossway_LED[c][f - 1] ELSE T.Crossway_LED[c][f]
  <2>1. /\ M.Phase_Number = n /\ M.Last_Time = ShiftedUp(T.Last_Time, AddAt, n)
        /\ \A c \in Rows : M.Crossway_LED[c] = ShiftedUp(T.Crossway_LED[c], AddAt, n)
    BY DEF MakeRoom
  <2> QED
    BY <2>1 DEF ShiftedUp
<1> HIDE DEF M
<1>4. /\ R.Phase_Number = n + 1
      /\ \A f \in Phases : R.Last_Time[f] = IF f = AddAt THEN CutMin ELSE M.Last_Time[f]
      /\ \A c \in Rows, f \in Phases : R.Crossway_LED[c][f] =
            IF f = AddAt THEN AllRed ELSE M.Crossway_LED[c][f]
  BY <1>1, <1>3 DEF PutInitialPhase, InitialWord
<1> HIDE DEF R
<1> QED
  BY <1>2, <1>3, <1>4

\* The table a deletion leaves.
LEMMA Closed ==
    ASSUME Inv, DelConfirm, Table.Phase_Number > 1
    PROVE  LET T == Table
               R == PhaseTable'[period_sel]
               last == T.Phase_Number - 1
           IN  /\ R.Phase_Number = last /\ phase_sel' = last - 1
               /\ \A f \in Phases : f < last =>
                     /\ R.Last_Time[f] =
                           IF f < phase_sel THEN T.Last_Time[f] ELSE T.Last_Time[f + 1]
                     /\ \A c \in Rows : R.Crossway_LED[c][f] =
                           IF f < phase_sel THEN T.Crossway_LED[c][f] ELSE T.Crossway_LED[c][f + 1]
               /\ \A t \in Periods : t # period_sel => PhaseTable'[t] = PhaseTable[t]
<1> DEFINE R == CloseGap(Table)
           last == Table.Phase_Number - 1
<1>1. /\ period_sel \in Periods /\ Table.Phase_Number \in 0 .. MaxPhases /\ phase_sel \in Nat
      /\ PhaseTable \in [Periods -> TablesOver(SUBSET Lamps)]
  BY Selected DEF Inv
<1>2. PhaseTable' = [PhaseTable EXCEPT ![period_sel] = R]
      /\ phase_sel' = PhaseTable'[period_sel].Phase_Number - 1
  BY DEF DelConfirm, Table
<1>3. /\ R.Phase_Number = last
      /\ \A f \in Phases : f < last =>
            /\ R.Last_Time[f] =
                  IF f < phase_sel THEN Table.Last_Time[f] ELSE Table.Last_Time[f + 1]
            /\ \A c \in Rows : R.Crossway_LED[c][f] =
                  IF f < phase_sel THEN Table.Crossway_LED[c][f] ELSE Table.Crossway_LED[c][f + 1]
  <2>1. last \in Int /\ phase_sel \in Int
    BY <1>1, Limits
  <2>2. \A f \in Phases : f < last => f # last /\ (f \in phase_sel .. last - 1 <=> ~(f < phase_sel))
    BY <2>1, Limits DEF Phases
  <2> QED
    BY <2>2 DEF CloseGap
<1> HIDE DEF R
<1>4. /\ PhaseTable'[period_sel] = R
      /\ \A t \in Periods : t # period_sel => PhaseTable'[t] = PhaseTable[t]
  BY <1>1, <1>2
<1> QED
  BY <1>2, <1>3, <1>4

\* Only the saves change a table, each in its dialog.
LEMMA TableChanges ==
    ASSUME [Next]_vars, PhaseTable' # PhaseTable
    PROVE  \/ dialog = "set" /\ SetSave
           \/ dialog = "add" /\ AddSave
           \/ dialog = "del" /\ DelConfirm /\ Table.Phase_Number > 1
<1>1. ~\E d \in Uses : OpenDialog(d)
  BY DEF OpenDialog
<1>2. ~(KEY6 \/ CloseDialog \/ MoveCursor)
  BY DEF KEY6, CloseDialog, MoveCursor
<1>3. ~(SetNext \/ SetPrevious \/ SetColour \/ SetTime)
  BY DEF SetNext, SetPrevious, SetSelect, SetColour, SetTime
<1>4. ~(AddSelect \/ DelSelect \/ DelAsk \/ DelToggle \/ DelRefuse)
  BY DEF AddSelect, DelSelect, DelAsk, DelToggle, DelRefuse
<1>5. ~UNCHANGED vars
  BY DEF vars
<1>6. SetSave \/ AddSave \/ DelConfirm
  BY <1>1, <1>2, <1>3, <1>4, <1>5 DEF Next, SetPhase, DelPhase
<1>7. SetSave => dialog = "set"
  BY DEF SetSave, InDialog
<1>8. AddSave => dialog = "add"
  BY DEF AddSave, InDialog
<1>9. DelConfirm => dialog = "del" /\ Table.Phase_Number > 1
  BY DEF DelConfirm, Asked
<1> QED
  BY <1>6, <1>7, <1>8, <1>9

\* A deletion leaves a phase selected.
LEMMA DelConfirmSelects ==
    ASSUME Inv, DelConfirm, PhaseTable'[period_sel].Phase_Number > 0
    PROVE  phase_sel' < PhaseTable'[period_sel].Phase_Number
<1>1. CASE Table.Phase_Number > 1
  <2>1. /\ PhaseTable'[period_sel].Phase_Number = Table.Phase_Number - 1
        /\ phase_sel' = (Table.Phase_Number - 1) - 1
    BY <1>1, Closed
  <2>2. Table.Phase_Number \in Int
    BY Selected DEF Inv
  <2> QED
    BY <2>1, <2>2
<1>2. CASE ~(Table.Phase_Number > 1)
  <2>1. UNCHANGED <<PhaseTable, phase_sel>> /\ dialog = "del"
    BY <1>2 DEF DelConfirm, Asked
  <2> QED
    BY <2>1 DEF Inv, SelInv, Table
<1> QED
  BY <1>1, <1>2

LEMMA SmallMod == ASSUME NEW n \in Nat, NEW b \in Nat, n < b PROVE n % b = n
OBVIOUS

LEMMA DelSelectInv ==
    ASSUME Inv, DelSelect
    PROVE  /\ period_sel' < InitNumber
           /\ PhaseTable[period_sel'].Phase_Number > 0
                => phase_sel' < PhaseTable[period_sel'].Phase_Number
<1> DEFINE n == Table.Phase_Number
<1>1. dialog = "del"
  BY DEF DelSelect, InDialog
<1>2. /\ period_sel \in Periods /\ period_sel < InitNumber /\ phase_sel \in Nat
      /\ n \in 0 .. MaxPhases /\ (n > 0 => phase_sel < n)
  BY <1>1, Selected DEF Inv, SelInv
<1>3. n > 0 => (n - 1) % ByteSize = n - 1
  <2> SUFFICES ASSUME n > 0 PROVE (n - 1) % ByteSize = n - 1
    OBVIOUS
  <2>1. n - 1 \in Nat /\ n - 1 < ByteSize /\ ByteSize \in Nat
    BY <1>2, Limits
  <2> QED
    BY <2>1, SmallMod
<1>4. CASE sel = 1
  <2>1. period_sel \in Int
    BY <1>2, Limits DEF Periods
  <2>2. (period_sel + 1) % InitNumber < InitNumber
        /\ (period_sel + InitNumber - 1) % InitNumber < InitNumber
    BY <2>1, Limits
  <2>3. period_sel' < InitNumber /\ phase_sel' = 0
    BY <1>4, <2>2 DEF DelSelect
  <2> QED
    BY <2>3
<1>5. CASE sel # 1
  <2>1. period_sel' = period_sel
    BY <1>5 DEF DelSelect
  <2>2. \/ phase_sel' = phase_sel
        \/ phase_sel' = IF phase_sel < n - 1 THEN phase_sel + 1 ELSE 0
        \/ phase_sel' = IF phase_sel > 0 THEN phase_sel - 1 ELSE (n - 1) % ByteSize
    BY <1>5 DEF DelSelect
  <2> HIDE DEF n
  <2>3. n > 0 => phase_sel' < n
    <3> SUFFICES ASSUME n > 0 PROVE phase_sel' < n
      OBVIOUS
    <3> DEFINE top == (n - 1) % ByteSize
    <3>1. top = n - 1 /\ n \in Int /\ phase_sel \in Nat /\ phase_sel < n
      BY <1>2, <1>3
    <3> HIDE DEF top
    <3>2. \/ phase_sel' = phase_sel
          \/ phase_sel' = IF phase_sel < n - 1 THEN phase_sel + 1 ELSE 0
          \/ phase_sel' = IF phase_sel > 0 THEN phase_sel - 1 ELSE top
      BY <2>2 DEF top
    <3> QED
      BY <3>1, <3>2
  <2> QED
    BY <1>2, <2>1, <2>3 DEF n, Table
<1> QED
  BY <1>4, <1>5

LEMMA InvInit == ASSUME Init PROVE Inv
BY InitShape, AllWords, ShapeInit DEF Init, Inv, SelInv

LEMMA InvStep == ASSUME Inv, [Next]_vars PROVE Inv'
<1>0. Shape(SUBSET Lamps)'
  BY AllWords, ShapeStep DEF Inv
<1> SUFFICES SelInv'
  BY <1>0 DEF Inv
<1> USE DEF selection, edited
<1>1. ASSUME NEW d \in Uses, OpenDialog(d) PROVE SelInv'
  <2>1. /\ period_sel' = 0 /\ phase_sel' = 0 /\ PhaseTable' = PhaseTable
        /\ dialog' = d /\ (d = "set" => cutdown' = Time)
        /\ Time = PhaseTable[0].Last_Time[0]
    BY <1>1 DEF OpenDialog, Time
  <2>2. PhaseTable[0].Phase_Number > 0 /\ TimesInRange => Time \in CutMin .. CutMax
    BY <2>1, Limits, TimeShown
  <2>3. TimesInRange' => TimesInRange
    BY <2>1, TimesAre, TimesAreNext
  <2> QED
    BY <2>1, <2>2, <2>3, Limits DEF SelInv, Table
<1>t. ASSUME PhaseTable' = PhaseTable PROVE TimesInRange' <=> TimesInRange
  BY <1>t, TimesAre, TimesAreNext
<1>2. CASE KEY6
  BY <1>2, <1>t DEF KEY6, Inv, SelInv, Table
<1>3. CASE CloseDialog
  BY <1>3 DEF CloseDialog, SelInv
<1>4. CASE MoveCursor
  BY <1>4, <1>t DEF MoveCursor, InDialog, Inv, SelInv, Table
<1>5. CASE SetNext \/ SetPrevious
  <2>1. /\ period_sel' < InitNumber
        /\ PhaseTable[period_sel'].Phase_Number > 0
             => phase_sel' < PhaseTable[period_sel'].Phase_Number
        /\ PhaseTable[period_sel'].Phase_Number > 0 /\ TimesInRange
             => cutdown' \in CutMin .. CutMax
    BY <1>5, SetSelectedInv
  <2>2. UNCHANGED <<PhaseTable, dialog>>
    BY <1>5, SetSelected DEF Inv
  <2> QED
    BY <2>1, <2>2, <1>t DEF SelInv, Table
<1>6. CASE SetColour
  BY <1>6, <1>t DEF SetColour, InDialog, Inv, SelInv, Table
<1>7. CASE SetTime
  <2>1. dialog = "set" /\ UNCHANGED <<PhaseTable, dialog, period_sel, phase_sel>>
    BY <1>7 DEF SetTime, InDialog
  <2>2. cutdown \in CutMin .. CutMax => cutdown' \in CutMin .. CutMax
    BY <1>7, Limits DEF SetTime
  <2> QED
    BY <2>1, <2>2, <1>t DEF Inv, SelInv, Table
<1>8. CASE SetSave
  <2>1. dialog = "set" /\ UNCHANGED <<dialog, period_sel, phase_sel, cutdown>>
    BY <1>8 DEF SetSave, InDialog
  <2>2. /\ period_sel \in Periods /\ period_sel < InitNumber /\ phase_sel \in Phases
        /\ Table.Phase_Number > 0 => phase_sel < Table.Phase_Number
    BY <2>1, Selected DEF Inv, SelInv, Shape
  <2>3. /\ PhaseTable'[period_sel].Phase_Number = Table.Phase_Number
        /\ PhaseTable'[period_sel].Last_Time[phase_sel] = cutdown
    BY <1>8, <2>2, Saved DEF Inv, Table
  <2>4. Table.Phase_Number > 0 /\ TimesInRange' => cutdown \in CutMin .. CutMax
    BY <2>2, <2>3, TimesAreNext
  <2> QED
    BY <2>1, <2>2, <2>3, <2>4 DEF SelInv, Table
<1>9. CASE AddSelect
  <2>1. dialog = "add" /\ dialog' = "add"
    BY <1>9 DEF AddSelect, InDialog
  <2>2. period_sel < InitNumber
    BY <2>1 DEF Inv, SelInv
  <2>3. \A p \in 0 .. InitNumber - 1 : p < InitNumber
    BY Limits
  <2>4. period_sel' \in 0 .. InitNumber - 1 \/ period_sel' = period_sel
    BY <1>9 DEF AddSelect
  <2> QED
    BY <2>1, <2>2, <2>3, <2>4 DEF SelInv
<1>10. CASE AddSave
  BY <1>10 DEF AddSave, InDialog, Inv, SelInv
<1>11. CASE DelSelect
  <2>1. dialog = "del" /\ UNCHANGED <<PhaseTable, dialog>>
    BY <1>11 DEF DelSelect, InDialog
  <2> QED
    BY <1>11, <2>1, DelSelectInv DEF SelInv, Table
<1>12. CASE DelAsk \/ DelToggle \/ DelRefuse
  BY <1>12 DEF DelAsk, DelToggle, DelRefuse, InDialog, Asked, Inv, SelInv, Table
<1>13. CASE DelConfirm
  <2>1. dialog = "del" /\ UNCHANGED <<dialog, period_sel>>
    BY <1>13 DEF DelConfirm, Asked
  <2> QED
    BY <1>13, <2>1, DelConfirmSelects DEF Inv, SelInv, Table
<1>14. CASE UNCHANGED vars
  BY <1>14, <1>t DEF vars, Inv, SelInv, Table
<1> QED
  BY <1>1, <1>2, <1>3, <1>4, <1>5, <1>6, <1>7, <1>8, <1>9, <1>10, <1>11, <1>12, <1>13, <1>14
  DEF Next, SetPhase, DelPhase

\* A step from times in range leads to times in range.
LEMMA TimesStep ==
    ASSUME Inv, [Next]_vars, TimesInRange, dialog = "add" => AddAt <= Table.Phase_Number
    PROVE  TimesInRange'
<1>0. /\ period_sel \in Periods /\ phase_sel \in Nat /\ option \in {0, 1}
      /\ Table.Phase_Number \in 0 .. MaxPhases
      /\ \A p \in Periods : PhaseTable[p].Phase_Number \in 0 .. MaxPhases
  BY Selected, Shown DEF Inv
<1>1. CASE PhaseTable' = PhaseTable
  BY <1>1, TimesAre, TimesAreNext
<1>2. CASE dialog = "set" /\ SetSave
  <2> SUFFICES ASSUME NEW p \in Periods, NEW f \in Phases, p < InitNumber,
                      f < PhaseTable'[p].Phase_Number
               PROVE  PhaseTable'[p].Last_Time[f] \in CutMin .. CutMax
    BY TimesAreNext
  <2>1. f < PhaseTable[p].Phase_Number
    BY <1>2, Saved DEF Inv
  <2>2. CASE p = period_sel /\ f = phase_sel
    <3>1. Table.Phase_Number > 0
      BY <1>0, <2>1, <2>2, Limits DEF Table, Phases
    <3>2. cutdown \in CutMin .. CutMax
      BY <1>2, <3>1 DEF Inv, SelInv
    <3> QED
      BY <1>2, <2>2, <3>2, Saved DEF Inv
  <2>3. CASE ~(p = period_sel /\ f = phase_sel)
    BY <1>2, <2>1, <2>3, Saved, TimeShown DEF Inv
  <2> QED
    BY <2>2, <2>3
<1>3. CASE dialog = "add" /\ AddSave
  <2> DEFINE n == Table.Phase_Number
             R == PhaseTable'[period_sel]
  <2>1. AddAt \in 0 .. n /\ AddAt \in Phases /\ n \in Nat
    BY <1>0, <1>3, Limits DEF AddSave, AddAt, Phases
  <2>2. /\ R.Phase_Number = n + 1
        /\ \A f \in Phases : R.Last_Time[f] =
              IF f = AddAt THEN CutMin
              ELSE IF f \in AddAt + 1 .. n THEN Table.Last_Time[f - 1] ELSE Table.Last_Time[f]
        /\ \A t \in Periods : t # period_sel => PhaseTable'[t] = PhaseTable[t]
    BY <1>3, <2>1, Added DEF Inv
  <2> SUFFICES ASSUME NEW p \in Periods, NEW f \in Phases, p < InitNumber,
                      f < PhaseTable'[p].Phase_Number
               PROVE  PhaseTable'[p].Last_Time[f] \in CutMin .. CutMax
    BY TimesAreNext
  <2>3. CASE p # period_sel
    BY <2>2, <2>3, TimeShown
  <2>4. CASE p = period_sel
    <3>1. f < n + 1
      BY <2>2, <2>4
    <3>2. ASSUME NEW g \in Phases, g < n PROVE Table.Last_Time[g] \in CutMin .. CutMax
      BY <2>4, <3>2, TimeShown DEF Table
    <3> HIDE DEF n, R
    <3>3. CASE f = AddAt
      BY <2>2, <2>4, <3>3, Limits DEF R
    <3>4. CASE f # AddAt /\ f \in AddAt + 1 .. n
      <4>1. f - 1 \in Phases /\ f - 1 < n
        BY <2>1, <3>1, <3>4, Limits DEF Phases
      <4> QED
        BY <2>2, <2>4, <3>2, <3>4, <4>1 DEF R
    <3>5. CASE f # AddAt /\ f \notin AddAt + 1 .. n
      <4>1. f < n
        BY <2>1, <3>1, <3>5, Limits DEF Phases
      <4> QED
        BY <2>2, <2>4, <3>2, <3>5, <4>1 DEF R
    <3> QED
      BY <3>3, <3>4, <3>5
  <2> QED
    BY <2>3, <2>4
<1>4. CASE dialog = "del" /\ DelConfirm /\ Table.Phase_Number > 1
  <2> DEFINE n == Table.Phase_Number
             R == PhaseTable'[period_sel]
  <2>1. /\ R.Phase_Number = n - 1
        /\ \A f \in Phases : f < n - 1 => R.Last_Time[f] =
              IF f < phase_sel THEN Table.Last_Time[f] ELSE Table.Last_Time[f + 1]
        /\ \A t \in Periods : t # period_sel => PhaseTable'[t] = PhaseTable[t]
    BY <1>4, Closed
  <2> SUFFICES ASSUME NEW p \in Periods, NEW f \in Phases, p < InitNumber,
                      f < PhaseTable'[p].Phase_Number
               PROVE  PhaseTable'[p].Last_Time[f] \in CutMin .. CutMax
    BY TimesAreNext
  <2>2. CASE p # period_sel
    BY <2>1, <2>2, TimeShown
  <2>3. CASE p = period_sel
    <3>1. f < n - 1 /\ n \in 0 .. MaxPhases
      BY <1>0, <2>1, <2>3
    <3>2. ASSUME NEW g \in Phases, g < n PROVE Table.Last_Time[g] \in CutMin .. CutMax
      BY <2>3, <3>2, TimeShown DEF Table
    <3> HIDE DEF n, R
    <3>3. f < n /\ f + 1 < n /\ f + 1 \in Phases
      BY <3>1, Limits DEF Phases
    <3> QED
      BY <2>1, <2>3, <3>1, <3>2, <3>3 DEF R
  <2> QED
    BY <2>2, <2>3
<1> QED
  BY <1>1, <1>2, <1>3, <1>4, TableChanges

\* No dialog takes a time out of range, a time carried to another phase or
\* period and saved there included, but an addition beyond the phases of its
\* period (RA8806_CTRL.c:3302, 3326, 3414, 3427).
THEOREM TimesKept == Spec => TimesStayInRange
<1>1. Init => Inv
  BY InvInit
<1>2. Inv /\ [Next]_vars => Inv'
  BY InvStep
<1>3. Inv /\ [Next]_vars =>
        [TimesInRange /\ (dialog = "add" => AddAt <= Table.Phase_Number) => TimesInRange']_vars
  BY TimesStep
<1> QED
  BY <1>1, <1>2, <1>3, PTL DEF Spec, TimesStayInRange

\* The phase set_phase and del_phase work on is one its period has, also after
\* the deletion of the last one, unless the period has none
\* (RA8806_CTRL.c:3427, 3798).
THEOREM SelectionKept == Spec => []SelectionInUse
<1>1. Init => Inv
  BY InvInit
<1>2. Inv /\ [Next]_vars => Inv'
  BY InvStep
<1>3. Inv => SelectionInUse
  BY DEF Inv, SelInv, SelectionInUse
<1> QED
  BY <1>1, <1>2, <1>3, PTL DEF Spec

-----------------------------------------------------------------------------
(* Phases as a sequence *)

LEMMA InsertAtIs ==
    ASSUME NEW S, NEW s \in Seq(S), NEW i \in 1 .. Len(s) + 1, NEW e \in S
    PROVE  /\ InsertAt(s, i, e) \in Seq(S) /\ Len(InsertAt(s, i, e)) = Len(s) + 1
           /\ \A j \in 1 .. Len(s) + 1 : InsertAt(s, i, e)[j] =
                 IF j < i THEN s[j] ELSE IF j = i THEN e ELSE s[j - 1]
<1> DEFINE a == SubSeq(s, 1, i - 1)
           b == SubSeq(s, i, Len(s))
<1>1. Len(s) \in Nat /\ \A j \in 1 .. Len(s) : s[j] \in S
  BY LenProperties, ElementOfSeq
<1>0. Len(s) \in Nat /\ i \in Nat /\ i >= 1
  BY <1>1
<1>2. a \in Seq(S) /\ Len(a) = i - 1 /\ \A j \in 1 .. i - 1 : a[j] = s[j]
  <2>1. 1 \in Int /\ i - 1 \in Int /\ \A j \in 1 .. i - 1 : s[j] \in S
    BY <1>1
  <2>2. /\ a \in Seq(S) /\ Len(a) = IF 1 <= i - 1 THEN (i - 1) - 1 + 1 ELSE 0
        /\ \A j \in 1 .. (i - 1) - 1 + 1 : a[j] = s[1 + j - 1]
    BY <2>1, SubSeqProperties
  <2> HIDE DEF a
  <2> QED
    BY <1>1, <2>2
<1>3. b \in Seq(S) /\ Len(b) = Len(s) - i + 1 /\ \A j \in 1 .. Len(s) - i + 1 : b[j] = s[i + j - 1]
  <2>1. i \in Int /\ Len(s) \in Int /\ \A j \in i .. Len(s) : s[j] \in S
    BY <1>1
  <2>2. /\ b \in Seq(S) /\ Len(b) = IF i <= Len(s) THEN Len(s) - i + 1 ELSE 0
        /\ \A j \in 1 .. Len(s) - i + 1 : b[j] = s[i + j - 1]
    BY <2>1, SubSeqProperties
  <2> HIDE DEF b
  <2> QED
    BY <1>1, <2>2
<1>4. <<e>> \in Seq(S) /\ Len(<<e>>) = 1 /\ <<e>>[1] = e
  OBVIOUS
<1> HIDE DEF a, b
<1>5. /\ a \o <<e>> \in Seq(S) /\ Len(a \o <<e>>) = i
      /\ \A j \in 1 .. i : (a \o <<e>>)[j] = IF j < i THEN s[j] ELSE e
  <2>1. /\ a \o <<e>> \in Seq(S) /\ Len(a \o <<e>>) = Len(a) + Len(<<e>>)
        /\ \A j \in 1 .. Len(a) + Len(<<e>>) : (a \o <<e>>)[j] =
              IF j <= Len(a) THEN a[j] ELSE <<e>>[j - Len(a)]
    BY <1>2, <1>4, ConcatProperties
  <2>2. ASSUME NEW j \in 1 .. i PROVE (a \o <<e>>)[j] = IF j < i THEN s[j] ELSE e
    <3>1. CASE j < i
      BY <1>1, <1>2, <1>4, <2>1, <3>1
    <3>2. CASE j = i
      <4>1. (a \o <<e>>)[j] = <<e>>[j - Len(a)] /\ j - Len(a) = 1
        BY <1>1, <1>2, <1>4, <2>1, <3>2
      <4> QED
        BY <1>4, <3>2, <4>1
    <3>3. j < i \/ j = i
      BY <1>0
    <3> QED
      BY <3>1, <3>2, <3>3
  <2> QED
    BY <1>1, <1>2, <1>4, <2>1, <2>2
<1> DEFINE c == a \o <<e>>
<1>6. InsertAt(s, i, e) = c \o b
  BY DEF InsertAt, a, b
<1> HIDE DEF c
<1>7. c \in Seq(S) /\ Len(c) = i /\ \A j \in 1 .. i : c[j] = IF j < i THEN s[j] ELSE e
  BY <1>5 DEF c
<1>8. /\ c \o b \in Seq(S) /\ Len(c \o b) = Len(c) + Len(b)
      /\ \A j \in 1 .. Len(c) + Len(b) : (c \o b)[j] = IF j <= Len(c) THEN c[j] ELSE b[j - Len(c)]
  BY <1>3, <1>7, ConcatProperties
<1>9. ASSUME NEW j \in 1 .. Len(s) + 1
      PROVE  (c \o b)[j] = IF j < i THEN s[j] ELSE IF j = i THEN e ELSE s[j - 1]
  <2>1. CASE j <= i
    BY <1>1, <1>3, <1>8, <1>7, <2>1
  <2>2. CASE j > i
    <3>1. j - i \in 1 .. Len(s) - i + 1 /\ i + (j - i) - 1 = j - 1
      BY <1>1, <2>2
    <3>2. j \in 1 .. Len(c) + Len(b) /\ ~(j <= Len(c)) /\ Len(c) = i
      BY <1>0, <1>3, <1>7, <2>2
    <3>3. (c \o b)[j] = b[j - i]
      BY <1>8, <3>2
    <3>4. b[j - i] = s[i + (j - i) - 1]
      BY <1>3, <3>1
    <3> QED
      BY <1>0, <2>2, <3>1, <3>3, <3>4
  <2>3. j <= i \/ j > i
    BY <1>0
  <2> QED
    BY <2>1, <2>2, <2>3
<1> QED
  BY <1>1, <1>3, <1>6, <1>8, <1>7, <1>9

LEMMA RemoveAtIs ==
    ASSUME NEW S, NEW s \in Seq(S), NEW i \in 1 .. Len(s)
    PROVE  /\ RemoveAt(s, i) \in Seq(S) /\ Len(RemoveAt(s, i)) = Len(s) - 1
           /\ \A j \in 1 .. Len(s) - 1 : RemoveAt(s, i)[j] = IF j < i THEN s[j] ELSE s[j + 1]
<1> DEFINE a == SubSeq(s, 1, i - 1)
           b == SubSeq(s, i + 1, Len(s))
<1>1. Len(s) \in Nat /\ \A j \in 1 .. Len(s) : s[j] \in S
  BY LenProperties, ElementOfSeq
<1>0. Len(s) \in Nat /\ i \in Nat /\ i >= 1
  BY <1>1
<1>2. a \in Seq(S) /\ Len(a) = i - 1 /\ \A j \in 1 .. i - 1 : a[j] = s[j]
  <2>1. 1 \in Int /\ i - 1 \in Int /\ \A j \in 1 .. i - 1 : s[j] \in S
    BY <1>1
  <2>2. /\ a \in Seq(S) /\ Len(a) = IF 1 <= i - 1 THEN (i - 1) - 1 + 1 ELSE 0
        /\ \A j \in 1 .. (i - 1) - 1 + 1 : a[j] = s[1 + j - 1]
    BY <2>1, SubSeqProperties
  <2> HIDE DEF a
  <2> QED
    BY <1>1, <2>2
<1>3. b \in Seq(S) /\ Len(b) = Len(s) - i /\ \A j \in 1 .. Len(s) - i : b[j] = s[i + j]
  <2>1. i + 1 \in Int /\ Len(s) \in Int /\ \A j \in i + 1 .. Len(s) : s[j] \in S
    BY <1>1
  <2>2. /\ b \in Seq(S) /\ Len(b) = IF i + 1 <= Len(s) THEN Len(s) - (i + 1) + 1 ELSE 0
        /\ \A j \in 1 .. Len(s) - (i + 1) + 1 : b[j] = s[(i + 1) + j - 1]
    BY <2>1, SubSeqProperties
  <2> HIDE DEF b
  <2> QED
    BY <1>1, <2>2
<1> HIDE DEF a, b
<1>4. RemoveAt(s, i) = a \o b
  BY DEF RemoveAt, a, b
<1>5. /\ a \o b \in Seq(S) /\ Len(a \o b) = Len(a) + Len(b)
      /\ \A j \in 1 .. Len(a) + Len(b) : (a \o b)[j] = IF j <= Len(a) THEN a[j] ELSE b[j - Len(a)]
  BY <1>2, <1>3, ConcatProperties
<1>6. ASSUME NEW j \in 1 .. Len(s) - 1
      PROVE  (a \o b)[j] = IF j < i THEN s[j] ELSE s[j + 1]
  <2>1. CASE j < i
    BY <1>1, <1>2, <1>3, <1>5, <2>1
  <2>2. CASE j >= i
    <3>1. j - (i - 1) \in 1 .. Len(s) - i /\ i + (j - (i - 1)) = j + 1
      BY <1>1, <2>2
    <3>2. j \in 1 .. Len(a) + Len(b) /\ ~(j <= Len(a)) /\ Len(a) = i - 1
      BY <1>0, <1>2, <1>3, <2>2
    <3>3. (a \o b)[j] = b[j - (i - 1)]
      BY <1>5, <3>2
    <3>4. b[j - (i - 1)] = s[i + (j - (i - 1))]
      BY <1>3, <3>1
    <3> QED
      BY <1>0, <2>2, <3>1, <3>3, <3>4
  <2>3. j < i \/ j >= i
    BY <1>0
  <2> QED
    BY <2>1, <2>2, <2>3
<1> QED
  BY <1>1, <1>2, <1>3, <1>4, <1>5, <1>6

PhaseSet == (0 .. ByteSize - 1) \X [Rows -> SUBSET Lamps]

\* The f-th phase of a table.
PhaseAt(T, f) == <<T.Last_Time[f], [c \in Rows |-> T.Crossway_LED[c][f]]>>

LEMMA PhaseSeqIs ==
    ASSUME NEW T \in TablesOver(SUBSET Lamps)
    PROVE  /\ PhaseSeq(T) \in Seq(PhaseSet) /\ Len(PhaseSeq(T)) = T.Phase_Number
           /\ \A j \in 1 .. T.Phase_Number : PhaseSeq(T)[j] = PhaseAt(T, j - 1)
<1>1. /\ T.Phase_Number \in Nat /\ T.Phase_Number <= MaxPhases
      /\ T.Last_Time \in [Phases -> 0 .. ByteSize - 1]
      /\ T.Crossway_LED \in [Rows -> [Phases -> SUBSET Lamps]]
  BY TableFields, Limits
<1> DEFINE n == T.Phase_Number
<1>2. ASSUME NEW j \in 1 .. n PROVE PhaseAt(T, j - 1) \in PhaseSet
  <2>1. j - 1 \in Phases
    BY <1>1, Limits DEF Phases
  <2>2. T.Last_Time[j - 1] \in 0 .. ByteSize - 1
        /\ [c \in Rows |-> T.Crossway_LED[c][j - 1]] \in [Rows -> SUBSET Lamps]
    BY <1>1, <2>1
  <2> QED
    BY <2>2 DEF PhaseAt, PhaseSet
<1>3. PhaseSeq(T) = [j \in 1 .. n |-> PhaseAt(T, j - 1)]
  BY DEF PhaseSeq, PhaseAt
<1>4. PhaseSeq(T) \in [1 .. n -> PhaseSet]
  BY <1>2, <1>3
<1>5. PhaseSeq(T) \in Seq(PhaseSet)
  BY <1>1, <1>4, SeqDef
<1>6. 1 .. n = 1 .. Len(PhaseSeq(T)) /\ Len(PhaseSeq(T)) \in Nat
  BY <1>4, <1>5, LenProperties
<1> QED
  BY <1>1, <1>3, <1>5, <1>6

LEMMA InitialPhaseType == InitialPhase \in PhaseSet
<1>1. [c \in Rows |-> AllRed] \in [Rows -> SUBSET Lamps]
  BY AllRedType
<1> QED
  BY <1>1, Limits DEF InitialPhase, PhaseSet

\* Two phases of the same time and words are the same.
LEMMA SamePhase ==
    ASSUME NEW T, NEW R, NEW f, NEW g, T.Last_Time[f] = R.Last_Time[g],
           \A c \in Rows : T.Crossway_LED[c][f] = R.Crossway_LED[c][g]
    PROVE  PhaseAt(T, f) = PhaseAt(R, g)
BY DEF PhaseAt

LEMMA AddInserts ==
    ASSUME Shape(SUBSET Lamps), AddSave, AddAt <= Table.Phase_Number
    PROVE  PhaseSeq(PhaseTable'[period_sel]) =
               InsertAt(PhaseSeq(Table), AddAt + 1, InitialPhase)
<1> DEFINE T == Table
           R == PhaseTable'[period_sel]
           n == T.Phase_Number
           at == AddAt
           old == PhaseSeq(T)
           new == PhaseSeq(R)
           k == at + 1
           want == InsertAt(old, k, InitialPhase)
<1>0. /\ phase_sel \in Nat /\ option \in {0, 1} /\ period_sel \in Periods
      /\ T \in TablesOver(SUBSET Lamps) /\ n \in 0 .. MaxPhases /\ n < MaxPhases
  BY Selected DEF AddSave
<1>1. /\ at \in 0 .. n /\ period_sel \in Periods /\ T \in TablesOver(SUBSET Lamps)
      /\ n \in 0 .. MaxPhases /\ n < MaxPhases
  BY <1>0 DEF AddAt
<1>2. R \in TablesOver(SUBSET Lamps)
  BY <1>1, AllWords, AddSaveShape
<1>p. AddAt \in Phases
  BY <1>1, Limits DEF Phases
<1>3. /\ R.Phase_Number = n + 1
      /\ \A f \in Phases : R.Last_Time[f] =
            IF f = at THEN CutMin
            ELSE IF f \in at + 1 .. n THEN T.Last_Time[f - 1] ELSE T.Last_Time[f]
      /\ \A c \in Rows, f \in Phases : R.Crossway_LED[c][f] =
            IF f = at THEN AllRed
            ELSE IF f \in at + 1 .. n THEN T.Crossway_LED[c][f - 1] ELSE T.Crossway_LED[c][f]
  BY <1>p, Added
<1>4. /\ old \in Seq(PhaseSet) /\ Len(old) = n
      /\ \A j \in 1 .. n : old[j] = PhaseAt(T, j - 1)
  BY <1>1, PhaseSeqIs
<1> HIDE DEF T, R, n, at
<1>5. /\ new \in Seq(PhaseSet) /\ Len(new) = n + 1
      /\ \A j \in 1 .. n + 1 : new[j] = PhaseAt(R, j - 1)
  BY <1>2, <1>3, PhaseSeqIs
<1> HIDE DEF old, new
<1>6. k \in 1 .. Len(old) + 1 /\ k = at + 1
  BY <1>1, <1>4
<1> HIDE DEF k
<1>7. /\ want \in Seq(PhaseSet) /\ Len(want) = Len(old) + 1
      /\ \A j \in 1 .. Len(old) + 1 : want[j] =
            IF j < k THEN old[j] ELSE IF j = k THEN InitialPhase ELSE old[j - 1]
  <2>1. old \in Seq(PhaseSet) /\ k \in 1 .. Len(old) + 1 /\ InitialPhase \in PhaseSet
    BY <1>4, <1>6, InitialPhaseType
  <2>2. ASSUME NEW e \in PhaseSet
        PROVE  /\ InsertAt(old, k, e) \in Seq(PhaseSet)
               /\ Len(InsertAt(old, k, e)) = Len(old) + 1
               /\ \A j \in 1 .. Len(old) + 1 : InsertAt(old, k, e)[j] =
                     IF j < k THEN old[j] ELSE IF j = k THEN e ELSE old[j - 1]
    BY <2>1, InsertAtIs
  <2> QED
    BY <2>1, <2>2
<1> HIDE DEF want
<1>8. ASSUME NEW j \in 1 .. n + 1 PROVE new[j] = want[j]
  <2>0. j - 1 \in Phases /\ new[j] = PhaseAt(R, j - 1)
    BY <1>1, <1>5, Limits DEF Phases
  <2>1. CASE j < at + 1
    <3>1. want[j] = PhaseAt(T, j - 1)
      BY <1>1, <1>4, <1>6, <1>7, <2>1
    <3>2. R.Last_Time[j - 1] = T.Last_Time[j - 1]
          /\ \A c \in Rows : R.Crossway_LED[c][j - 1] = T.Crossway_LED[c][j - 1]
      BY <1>1, <1>3, <2>0, <2>1
    <3> QED
      BY <2>0, <3>1, <3>2, SamePhase
  <2>2. CASE j = at + 1
    <3>1. want[j] = InitialPhase
      BY <1>1, <1>4, <1>6, <1>7, <2>2
    <3>2. R.Last_Time[j - 1] = CutMin /\ \A c \in Rows : R.Crossway_LED[c][j - 1] = AllRed
      BY <1>1, <1>3, <2>0, <2>2
    <3> QED
      BY <2>0, <3>1, <3>2 DEF PhaseAt, InitialPhase
  <2>3. CASE j > at + 1
    <3>1. want[j] = PhaseAt(T, (j - 1) - 1)
      BY <1>1, <1>4, <1>6, <1>7, <2>3
    <3>2. R.Last_Time[j - 1] = T.Last_Time[(j - 1) - 1]
          /\ \A c \in Rows : R.Crossway_LED[c][j - 1] = T.Crossway_LED[c][(j - 1) - 1]
      BY <1>1, <1>3, <2>0, <2>3
    <3> QED
      BY <2>0, <3>1, <3>2, SamePhase
  <2>4. j < at + 1 \/ j = at + 1 \/ j > at + 1
    BY <1>1
  <2> QED
    BY <2>1, <2>2, <2>3, <2>4
<1>9. new = want
  BY <1>4, <1>5, <1>7, <1>8, SeqEqual
<1> QED
  BY <1>9 DEF new, want, old, T, R, at, k

\* Beyond the phases of the period the others stay as they were.
LEMMA AddAppends ==
    ASSUME Shape(SUBSET Lamps), AddSave, AddAt \in Phases, ~(AddAt <= Table.Phase_Number)
    PROVE  LET new == PhaseSeq(PhaseTable'[period_sel])
           IN  new # <<>> /\ Front(new) = PhaseSeq(Table)
<1> DEFINE T == Table
           R == PhaseTable'[period_sel]
           n == T.Phase_Number
           old == PhaseSeq(T)
           new == PhaseSeq(R)
           front == SubSeq(new, 1, n)
<1>1. /\ period_sel \in Periods /\ T \in TablesOver(SUBSET Lamps) /\ n \in 0 .. MaxPhases
      /\ n < MaxPhases
  BY Selected DEF AddSave
<1>2. R \in TablesOver(SUBSET Lamps)
  BY <1>1, AllWords, AddSaveShape
<1>3. /\ R.Phase_Number = n + 1
      /\ \A f \in Phases : R.Last_Time[f] =
            IF f = AddAt THEN CutMin
            ELSE IF f \in AddAt + 1 .. n THEN T.Last_Time[f - 1] ELSE T.Last_Time[f]
      /\ \A c \in Rows, f \in Phases : R.Crossway_LED[c][f] =
            IF f = AddAt THEN AllRed
            ELSE IF f \in AddAt + 1 .. n THEN T.Crossway_LED[c][f - 1] ELSE T.Crossway_LED[c][f]
  BY Added
<1>4. /\ old \in Seq(PhaseSet) /\ Len(old) = n
      /\ \A j \in 1 .. n : old[j] = PhaseAt(T, j - 1)
  BY <1>1, PhaseSeqIs
<1>5. AddAt \in Nat /\ n \in Nat /\ n < AddAt
  BY <1>1, Limits DEF Phases
<1> HIDE DEF T, R, n
<1>6. /\ new \in Seq(PhaseSet) /\ Len(new) = n + 1
      /\ \A j \in 1 .. n + 1 : new[j] = PhaseAt(R, j - 1)
  BY <1>2, <1>3, PhaseSeqIs
<1> HIDE DEF old, new
<1>7. /\ front \in Seq(PhaseSet) /\ Len(front) = n
      /\ \A j \in 1 .. n : front[j] = new[j]
  <2>1. 1 \in Int /\ n \in Int /\ \A j \in 1 .. n : new[j] \in PhaseSet
    <3>1. \A j \in 1 .. Len(new) : new[j] \in PhaseSet
      BY <1>6, ElementOfSeq
    <3> QED
      BY <1>5, <1>6, <3>1
  <2>2. /\ front \in Seq(PhaseSet) /\ Len(front) = IF 1 <= n THEN n - 1 + 1 ELSE 0
        /\ \A j \in 1 .. n - 1 + 1 : front[j] = new[1 + j - 1]
    BY <2>1, SubSeqProperties
  <2> HIDE DEF front
  <2> QED
    BY <1>5, <2>2
<1>8. Front(new) = front
  BY <1>5, <1>6 DEF Front
<1> HIDE DEF front
<1>9. ASSUME NEW j \in 1 .. n PROVE front[j] = old[j]
  <2>1. j - 1 \in Phases /\ j - 1 # AddAt /\ j - 1 \notin AddAt + 1 .. n /\ j \in 1 .. n + 1
    BY <1>1, <1>5, Limits DEF Phases
  <2>2. R.Last_Time[j - 1] = T.Last_Time[j - 1]
        /\ \A c \in Rows : R.Crossway_LED[c][j - 1] = T.Crossway_LED[c][j - 1]
    BY <1>3, <2>1
  <2> QED
    BY <1>4, <1>6, <1>7, <2>1, <2>2, SamePhase
<1>10. front = old
  BY <1>4, <1>7, <1>9, SeqEqual
<1>11. new # <<>>
  BY <1>5, <1>6
<1> QED
  BY <1>8, <1>10, <1>11 DEF new, old, T, R

LEMMA DeleteRemoves ==
    ASSUME Inv, DelConfirm, Table.Phase_Number > 1
    PROVE  PhaseSeq(PhaseTable'[period_sel]) = RemoveAt(PhaseSeq(Table), phase_sel + 1)
<1> DEFINE T == Table
           R == PhaseTable'[period_sel]
           n == T.Phase_Number
           at == phase_sel
           old == PhaseSeq(T)
           new == PhaseSeq(R)
           want == RemoveAt(old, at + 1)
<1>1. /\ at \in Phases /\ at < n /\ period_sel \in Periods /\ T \in TablesOver(SUBSET Lamps)
      /\ n \in 1 .. MaxPhases
  <2>1. /\ phase_sel \in Nat /\ period_sel \in Periods /\ T \in TablesOver(SUBSET Lamps)
        /\ n \in 0 .. MaxPhases
    BY Selected DEF Inv
  <2>2. n > 0 => phase_sel < n
    BY DEF DelConfirm, Asked, Inv, SelInv
  <2> QED
    BY <2>1, <2>2, Limits DEF Phases
<1>2. R \in TablesOver(SUBSET Lamps)
  BY <1>1, AllWords, DelConfirmShape DEF Inv
<1>3. /\ R.Phase_Number = n - 1
      /\ \A f \in Phases : f < n - 1 =>
            /\ R.Last_Time[f] = IF f < at THEN T.Last_Time[f] ELSE T.Last_Time[f + 1]
            /\ \A c \in Rows : R.Crossway_LED[c][f] =
                  IF f < at THEN T.Crossway_LED[c][f] ELSE T.Crossway_LED[c][f + 1]
  BY Closed
<1>4. /\ old \in Seq(PhaseSet) /\ Len(old) = n
      /\ \A j \in 1 .. n : old[j] = PhaseAt(T, j - 1)
  BY <1>1, PhaseSeqIs
<1> HIDE DEF T, R, n, at
<1>5. /\ new \in Seq(PhaseSet) /\ Len(new) = n - 1
      /\ \A j \in 1 .. n - 1 : new[j] = PhaseAt(R, j - 1)
  BY <1>2, <1>3, PhaseSeqIs
<1> HIDE DEF old, new
<1>6. at + 1 \in 1 .. Len(old) /\ at \in Int /\ n \in Int
  BY <1>1, <1>4, Limits DEF Phases
<1>7. /\ want \in Seq(PhaseSet) /\ Len(want) = Len(old) - 1
      /\ \A j \in 1 .. Len(old) - 1 : want[j] = IF j < at + 1 THEN old[j] ELSE old[j + 1]
  BY <1>4, <1>6, RemoveAtIs
<1> HIDE DEF want
<1>8. ASSUME NEW j \in 1 .. n - 1 PROVE new[j] = want[j]
  <2>0. j - 1 \in Phases /\ j - 1 < n - 1 /\ new[j] = PhaseAt(R, j - 1)
    BY <1>1, <1>5, <1>6, Limits DEF Phases
  <2>1. CASE j < at + 1
    <3>1. want[j] = PhaseAt(T, j - 1)
      BY <1>4, <1>6, <1>7, <2>1
    <3>2. R.Last_Time[j - 1] = T.Last_Time[j - 1]
          /\ \A c \in Rows : R.Crossway_LED[c][j - 1] = T.Crossway_LED[c][j - 1]
      BY <1>3, <1>6, <2>0, <2>1
    <3> QED
      BY <2>0, <3>1, <3>2, SamePhase
  <2>2. CASE j >= at + 1
    <3>1. want[j] = PhaseAt(T, (j - 1) + 1)
      BY <1>4, <1>6, <1>7, <2>2
    <3>2. R.Last_Time[j - 1] = T.Last_Time[(j - 1) + 1]
          /\ \A c \in Rows : R.Crossway_LED[c][j - 1] = T.Crossway_LED[c][(j - 1) + 1]
      BY <1>3, <1>6, <2>0, <2>2
    <3> QED
      BY <2>0, <3>1, <3>2, SamePhase
  <2>3. j < at + 1 \/ j >= at + 1
    BY <1>6
  <2> QED
    BY <2>1, <2>2, <2>3
<1>9. new = want
  BY <1>4, <1>5, <1>7, <1>8, SeqEqual
<1> QED
  BY <1>9 DEF new, want, old, T, R, at

\* In a table of any length an addition puts the initial phase above or below
\* the selected one and keeps the others, in order, up to the last place; with
\* a phase selected in a longer period the others stay and one nobody chose
\* comes last (RA8806_CTRL.c:3984-4076).
THEOREM AdditionInserts == Spec => AddInsertsPhase
<1>1. Init => Shape(SUBSET Lamps)
  BY InitShape, AllWords, ShapeInit
<1>2. Shape(SUBSET Lamps) /\ [Next]_vars => Shape(SUBSET Lamps)'
  BY AllWords, ShapeStep
<1>3. Shape(SUBSET Lamps) /\ [Next]_vars =>
        [dialog = "add" /\ PhaseTable' # PhaseTable /\ AddAt \in Phases =>
           LET old == PhaseSeq(Table)
               new == PhaseSeq(PhaseTable'[period_sel])
           IN  IF AddAt <= Table.Phase_Number THEN new = InsertAt(old, AddAt + 1, InitialPhase)
               ELSE new # <<>> /\ Front(new) = old]_vars
  <2> SUFFICES ASSUME Shape(SUBSET Lamps), [Next]_vars,
                      dialog = "add", PhaseTable' # PhaseTable, AddAt \in Phases
               PROVE  LET old == PhaseSeq(Table)
                          new == PhaseSeq(PhaseTable'[period_sel])
                      IN  IF AddAt <= Table.Phase_Number
                          THEN new = InsertAt(old, AddAt + 1, InitialPhase)
                          ELSE new # <<>> /\ Front(new) = old
    OBVIOUS
  <2>1. AddSave
    BY TableChanges
  <2>2. CASE AddAt <= Table.Phase_Number
    BY <2>1, <2>2, AddInserts
  <2>3. CASE ~(AddAt <= Table.Phase_Number)
    BY <2>1, <2>3, AddAppends
  <2> QED
    BY <2>2, <2>3
<1> QED
  BY <1>1, <1>2, <1>3, PTL DEF Spec, AddInsertsPhase

\* A deletion takes out the selected phase alone, with any number of periods
\* (RA8806_CTRL.c:3797-3809).
THEOREM DeletionRemoves == Spec => DeleteRemovesPhase
<1>1. Init => Inv
  BY InvInit
<1>2. Inv /\ [Next]_vars => Inv'
  BY InvStep
<1>3. Inv /\ [Next]_vars =>
        [dialog = "del" /\ PhaseTable' # PhaseTable
           => PhaseSeq(PhaseTable'[period_sel]) = RemoveAt(PhaseSeq(Table), phase_sel + 1)]_vars
  BY TableChanges, DeleteRemoves
<1> QED
  BY <1>1, <1>2, <1>3, PTL DEF Spec, DeleteRemovesPhase
=============================================================================

---------------------------- MODULE PhaseEditor ----------------------------
(***************************************************************************)
(* The three dialogs that change the phases of a period: set one crossway  *)
(* of a phase and its time, add a phase, delete a phase.  As in            *)
(* PeriodEditor a guarded save is one step.                                *)
(*                                                                         *)
(* A 16-bit lamp word is the set of its lamps, each a movement and a       *)
(* colour; ^ and | on words become symmetric difference and union.         *)
(***************************************************************************)
EXTENDS Integers, Sequences, SequencesExt

CONSTANTS
    MaxPeriods,     \* PhaseTable[16] of Schedule_TypeDef
    MaxPhases,      \* Last_Time[16] of PhaseTable_TypeDef
    Crossways,      \* 6, the rows of Crossway_LED
    Movements,      \* the movements in the order of the screen's fields
    CutMin,         \* 7 and 99, what set_phase keeps a time between
    CutMax,
    ByteSize,       \* 256
    InitNumber,     \* TimeTable_Number; these dialogs do not change it
    InitTables,     \* the phase tables Get_Schedule loads
    Uses            \* the dialogs the operator opens

Periods == 0 .. MaxPeriods - 1
Phases  == 0 .. MaxPhases - 1
Rows    == 0 .. Crossways - 1
Walks   == {"SideWalk1", "SideWalk2"}
MovementSet == ToSet(Movements)

ColoursOf(m) == IF m \in Walks THEN {"Green", "Red"} ELSE {"Green", "Yellow", "Red"}
Lamps  == {x \in MovementSet \X {"Green", "Yellow", "Red"} : x[2] \in ColoursOf(x[1])}
AllRed == MovementSet \X {"Red"}      \* 0xFC00

PhaseTables == [Phase_Number : 0 .. MaxPhases,
                Last_Time    : [Phases -> 0 .. ByteSize - 1],
                Crossway_LED : [Rows -> [Phases -> SUBSET Lamps]]]

ASSUME LimitsAssumption ==
    /\ MaxPeriods \in Nat \ {0} /\ MaxPhases \in Nat \ {0} /\ Crossways \in Nat \ {0}
    /\ CutMin \in Nat /\ CutMax \in Nat /\ ByteSize \in Nat
    /\ CutMin <= CutMax /\ CutMax < ByteSize /\ MaxPhases <= ByteSize
\* The fields, a question's two answers among them, are told apart by a byte.
ASSUME FieldsAssumption ==
    Movements \in Seq(MovementSet) /\ Len(Movements) + 3 < ByteSize /\ 5 < ByteSize
ASSUME InitialAssumption ==
    /\ InitNumber \in 1 .. MaxPeriods
    /\ InitTables \in [Periods -> PhaseTables]
    /\ \A t \in 0 .. InitNumber - 1 : InitTables[t].Phase_Number >= 1
ASSUME DialogsAssumption == Uses \subseteq {"set", "add", "del"}

VARIABLES
    PhaseTable,     \* of my_Schedule
    dialog, state,  \* the dialog that is open and its lcd_appstate
    sel,            \* the field under the cursor
    period_sel, phase_sel, crossway,    \* the selection
    option,         \* add_phase: 0 inserts above, 1 below the selection
    cutdown, crossway_phase             \* set_phase: the time and word under edit

selection == <<period_sel, phase_sel, crossway>>
edited    == <<cutdown, crossway_phase>>
vars == <<PhaseTable, dialog, state, sel, selection, option, edited>>

TypeOK ==
    /\ PhaseTable \in [Periods -> PhaseTables]
    /\ dialog \in {"menu", "set", "add", "del"}
    /\ state \in {"ready", "cmd", "need_confirm", "saved", "return"}
    /\ sel \in 0 .. ByteSize - 1
    /\ period_sel \in Periods /\ phase_sel \in 0 .. ByteSize - 1 /\ crossway \in Rows
    /\ option \in {0, 1}
    /\ cutdown \in 0 .. ByteSize - 1 /\ crossway_phase \in SUBSET Lamps

\* No dialog has data.
Fresh ==
    /\ sel = 0 /\ period_sel = 0 /\ phase_sel = 0 /\ crossway = 0 /\ option = 0
    /\ cutdown = 0 /\ crossway_phase = AllRed

Init == PhaseTable = InitTables /\ dialog = "menu" /\ state = "ready" /\ Fresh

Table == PhaseTable[period_sel]

\* What a screen shows of the phase a key selects.
Time == PhaseTable[period_sel'].Last_Time[phase_sel']
Word == PhaseTable[period_sel'].Crossway_LED[crossway'][phase_sel']

-----------------------------------------------------------------------------
(* Opening and leaving.  set_phase and del_phase draw their screen at once, *)
(* so does add_phase; the key after KEY6 frees the dialog's data.           *)

OpenDialog(d) ==
    /\ dialog = "menu" /\ d \in Uses
    /\ dialog' = d /\ state' = "cmd" /\ sel' = 0
    /\ period_sel' = 0 /\ phase_sel' = 0 /\ crossway' = 0 /\ option' = 0
    /\ IF d = "set" THEN cutdown' = Time /\ crossway_phase' = Word ELSE UNCHANGED edited
    /\ UNCHANGED PhaseTable

KEY6 ==
    /\ dialog # "menu" /\ state \in {"cmd", "saved"} /\ state' = "return"
    /\ UNCHANGED <<PhaseTable, dialog, sel, selection, option, edited>>

CloseDialog ==
    /\ state = "return" /\ dialog' = "menu" /\ state' = "ready"
    /\ sel' = 0 /\ period_sel' = 0 /\ phase_sel' = 0 /\ crossway' = 0 /\ option' = 0
    /\ cutdown' = 0 /\ crossway_phase' = AllRed
    /\ UNCHANGED PhaseTable

InDialog(d) ==
    /\ dialog = d /\ state \in {"cmd", "saved"}
    /\ UNCHANGED dialog

\* The last field: the time of set_phase, the button of the others.
LastField == IF dialog = "set" THEN Len(Movements) + 3 ELSE 3

\* The wrap tests for equality: in del_phase a confirmed or refused question
\* leaves the cursor at 4 or 5, from where KEY4 runs on through the byte.
MoveCursor ==
    /\ InDialog("set") \/ InDialog("add") \/ InDialog("del")
    /\ \/ sel' = IF sel = 0 THEN LastField ELSE sel - 1                   \* KEY3
       \/ sel' = IF sel = LastField THEN 0 ELSE (sel + 1) % ByteSize      \* KEY4
    /\ UNCHANGED <<PhaseTable, state, selection, option, edited>>

-----------------------------------------------------------------------------
(* set_phase *)

SetSelect(p, f, c) ==
    /\ InDialog("set")
    /\ period_sel' = p /\ phase_sel' = f /\ crossway' = c
    /\ crossway_phase' = Word
    /\ UNCHANGED <<PhaseTable, state, sel, option>>

SetNext ==
    /\ \/ sel = 0 /\ SetSelect(period_sel, phase_sel, (crossway + 1) % Crossways)
       \/ /\ sel = 1
          /\ SetSelect(IF period_sel < InitNumber - 1 THEN period_sel + 1 ELSE period_sel,
                       0, crossway)
       \/ /\ sel = 2
          /\ SetSelect(period_sel, IF phase_sel < Table.Phase_Number - 1
                                   THEN phase_sel + 1 ELSE phase_sel, crossway)
    /\ cutdown' = Time

\* Going back a phase, or a crossway, reloads the word and not the time.
SetPrevious ==
    \/ /\ sel = 0
       /\ SetSelect(period_sel, phase_sel, (crossway + Crossways - 1) % Crossways)
       /\ UNCHANGED cutdown
    \/ /\ sel = 1
       /\ SetSelect(IF period_sel > 0 THEN period_sel - 1 ELSE 0, 0, crossway)
       /\ cutdown' = Time
    \/ /\ sel = 2
       /\ SetSelect(period_sel, IF phase_sel > 0 THEN phase_sel - 1 ELSE 0, crossway)
       /\ UNCHANGED cutdown

Xor(word, lamp)    == (word \ {lamp}) \cup ({lamp} \ word)
Turn(word, from, to) == Xor(word, from) \cup {to}

\* Mutant: green turns red and stays green.
NextColourKeepsGreen(word, m) ==
    IF <<m, "Green">> \in word THEN word \cup {<<m, "Red">>}
    ELSE IF <<m, "Red">> \in word
         THEN IF m \in Walks THEN Xor(word, <<m, "Red">>)
              ELSE Turn(word, <<m, "Red">>, <<m, "Yellow">>)
    ELSE IF <<m, "Yellow">> \in word THEN Xor(word, <<m, "Yellow">>)
    ELSE word \cup {<<m, "Green">>}

\* KEY1: green, red, yellow, off and round again; a walk has no yellow.
NextColour(word, m) ==
    IF <<m, "Green">> \in word THEN Turn(word, <<m, "Green">>, <<m, "Red">>)
    ELSE IF <<m, "Red">> \in word
         THEN IF m \in Walks THEN Xor(word, <<m, "Red">>)
              ELSE Turn(word, <<m, "Red">>, <<m, "Yellow">>)
    ELSE IF <<m, "Yellow">> \in word THEN Xor(word, <<m, "Yellow">>)
    ELSE word \cup {<<m, "Green">>}

\* The lamp whose bit KEY2 tests for a colour of a movement: straight on
\* tests left's yellow, right turn and turning back left's red and yellow.
Tested(m, colour) ==
    IF \/ m = "Straight" /\ colour = "Yellow"
       \/ m \in {"Right", "Back"} /\ colour \in {"Red", "Yellow"}
    THEN <<"Left", colour>> ELSE <<m, colour>>

\* Mutant: KEY2 turns red on green and leaves it red.
PreviousColourKeepsRed(word, m) ==
    IF <<m, "Green">> \in word THEN Xor(word, <<m, "Green">>)
    ELSE IF Tested(m, "Red") \in word THEN word \cup {<<m, "Green">>}
    ELSE IF m \in Walks THEN word \cup {<<m, "Red">>}
    ELSE IF Tested(m, "Yellow") \in word THEN Turn(word, <<m, "Yellow">>, <<m, "Red">>)
    ELSE word \cup {<<m, "Yellow">>}

\* KEY2: the other way round.
PreviousColour(word, m) ==
    IF <<m, "Green">> \in word THEN Xor(word, <<m, "Green">>)
    ELSE IF Tested(m, "Red") \in word THEN Turn(word, <<m, "Red">>, <<m, "Green">>)
    ELSE IF m \in Walks THEN word \cup {<<m, "Red">>}
    ELSE IF Tested(m, "Yellow") \in word THEN Turn(word, <<m, "Yellow">>, <<m, "Red">>)
    ELSE word \cup {<<m, "Yellow">>}

SetColour ==
    /\ InDialog("set")
    /\ sel \in 3 .. LastField - 1
    /\ crossway_phase' \in {NextColour(crossway_phase, Movements[sel - 2]),
                            PreviousColour(crossway_phase, Movements[sel - 2])}
    /\ UNCHANGED <<PhaseTable, state, sel, selection, option, cutdown>>

\* Mutant: the time may be lowered to zero.
SetTimeToZero ==
    /\ InDialog("set") /\ sel = LastField
    /\ \/ cutdown < CutMax /\ cutdown' = cutdown + 1
       \/ cutdown > 0 /\ cutdown' = cutdown - 1
    /\ UNCHANGED <<PhaseTable, state, sel, selection, option, crossway_phase>>

SetTime ==
    /\ InDialog("set") /\ sel = LastField
    /\ \/ cutdown < CutMax /\ cutdown' = cutdown + 1
       \/ cutdown > CutMin /\ cutdown' = cutdown - 1
    /\ UNCHANGED <<PhaseTable, state, sel, selection, option, crossway_phase>>

SetSave ==
    /\ InDialog("set") /\ state' = "saved"
    /\ PhaseTable' = [PhaseTable EXCEPT
                        ![period_sel].Crossway_LED[crossway][phase_sel] = crossway_phase,
                        ![period_sel].Last_Time[phase_sel] = cutdown]
    /\ UNCHANGED <<sel, selection, option, edited>>

SetPhase == SetNext \/ SetPrevious \/ SetColour \/ SetTime \/ SetSave

-----------------------------------------------------------------------------
(* add_phase *)

AddSelect ==
    /\ InDialog("add")
    /\ \/ /\ sel = 0
          /\ period_sel' \in {p \in {period_sel - 1, period_sel + 1} :
                                p \in 0 .. InitNumber - 1}
          /\ UNCHANGED <<phase_sel, option>>
       \/ /\ sel = 1
          /\ \/ phase_sel < Table.Phase_Number - 1 /\ phase_sel' = phase_sel + 1
             \/ phase_sel > 0 /\ phase_sel' = phase_sel - 1
          /\ UNCHANGED <<period_sel, option>>
       \/ sel = 2 /\ option' = 1 - option /\ UNCHANGED <<period_sel, phase_sel>>
    /\ UNCHANGED <<PhaseTable, state, sel, crossway, edited>>

\* The last phase copied up by the loops for(i=Phase_Number; i>from; i--).
ShiftedUp(a, from, n) == [f \in Phases |-> IF f \in from + 1 .. n THEN a[f - 1] ELSE a[f]]

\* Mutant: the shift stops one phase early.
MakeRoomShort(T, at) ==
    [Phase_Number |-> T.Phase_Number,
     Last_Time    |-> ShiftedUp(T.Last_Time, at + 1, T.Phase_Number),
     Crossway_LED |-> [c \in Rows |-> ShiftedUp(T.Crossway_LED[c], at + 1, T.Phase_Number)]]

MakeRoom(T, at) ==
    [Phase_Number |-> T.Phase_Number,
     Last_Time    |-> ShiftedUp(T.Last_Time, at, T.Phase_Number),
     Crossway_LED |-> [c \in Rows |-> ShiftedUp(T.Crossway_LED[c], at, T.Phase_Number)]]

\* Writing the initial phase at an index of a table.  One past the table, a
\* row runs into phase 0 of the next row, Last_Time into a padding byte, and
\* the last row into Phase_Number and Last_Time[0] of the next table (0xFC00,
\* low byte first).
InitialWord(at, c, f) == IF at \in Phases THEN f = at ELSE f = 0 /\ c > 0
PutInitialPhase(T, at) ==
    [Phase_Number |-> T.Phase_Number + 1,
     Last_Time    |-> [f \in Phases |-> IF f = at THEN CutMin ELSE T.Last_Time[f]],
     Crossway_LED |-> [c \in Rows |-> [f \in Phases |->
                         IF InitialWord(at, c, f) THEN AllRed ELSE T.Crossway_LED[c][f]]]]
RunInto(T) ==
    [Phase_Number |-> 0,
     Last_Time    |-> [f \in Phases |-> IF f = 0 THEN 252 % ByteSize ELSE T.Last_Time[f]],
     Crossway_LED |-> T.Crossway_LED]

AddAt == phase_sel + option

AddSave ==
    /\ InDialog("add") /\ sel = 3 /\ state' = "saved"
    /\ Table.Phase_Number < MaxPhases
    /\ PhaseTable' = [t \in Periods |->
                        IF t = period_sel THEN PutInitialPhase(MakeRoom(Table, AddAt), AddAt)
                        ELSE IF t = period_sel + 1 /\ AddAt \notin Phases
                             THEN RunInto(PhaseTable[t])
                        ELSE PhaseTable[t]]
    /\ UNCHANGED <<sel, selection, option, edited>>

-----------------------------------------------------------------------------
(* del_phase.  Its keys wrap round; the state never goes back to lcdapp_cmd *)
(* after an answer, since the menu loop delivers no Nothing.                *)

DelSelect ==
    /\ InDialog("del")
    /\ \/ /\ sel = 1
          /\ period_sel' \in {(period_sel + 1) % InitNumber,
                              (period_sel + InitNumber - 1) % InitNumber}
          /\ phase_sel' = 0 /\ UNCHANGED crossway
       \/ /\ sel = 2
          /\ \/ phase_sel' = IF phase_sel < Table.Phase_Number - 1 THEN phase_sel + 1 ELSE 0
             \/ phase_sel' = IF phase_sel > 0 THEN phase_sel - 1
                             ELSE (Table.Phase_Number - 1) % ByteSize
          /\ UNCHANGED <<period_sel, crossway>>
       \/ /\ sel = 0
          /\ crossway' \in {(crossway + 1) % Crossways, (crossway + Crossways - 1) % Crossways}
          /\ UNCHANGED <<period_sel, phase_sel>>
    /\ UNCHANGED <<PhaseTable, state, sel, option, edited>>

DelAsk ==
    /\ InDialog("del") /\ state = "cmd" /\ sel = 3
    /\ state' = "need_confirm" /\ sel' = 4
    /\ UNCHANGED <<PhaseTable, selection, option, edited>>

Asked == dialog = "del" /\ state = "need_confirm" /\ UNCHANGED <<dialog, option, edited>>

DelToggle ==
    /\ Asked /\ sel' = IF sel = 4 THEN 5 ELSE 4
    /\ UNCHANGED <<PhaseTable, state, selection>>

DelRefuse ==    \* KEY5 on "no", or KEY6: lcdapp_notsaved acts as lcdapp_saved
    /\ Asked /\ state' = "saved"
    /\ UNCHANGED <<PhaseTable, sel, selection>>

\* Mutant: one phase short of closing the gap.
CloseGapShort(T) ==
    LET last == T.Phase_Number - 1
        Gone(a, empty) == [f \in Phases |-> IF f = last THEN empty
                                            ELSE IF f \in phase_sel .. last - 2
                                                 THEN a[f + 1] ELSE a[f]]
    IN  [Phase_Number |-> last,
         Last_Time    |-> Gone(T.Last_Time, 0),
         Crossway_LED |-> [c \in Rows |-> Gone(T.Crossway_LED[c], AllRed)]]

CloseGap(T) ==
    LET last == T.Phase_Number - 1
        Gone(a, empty) == [f \in Phases |-> IF f = last THEN empty
                                            ELSE IF f \in phase_sel .. last - 1
                                                 THEN a[f + 1] ELSE a[f]]
    IN  [Phase_Number |-> last,
         Last_Time    |-> Gone(T.Last_Time, 0),
         Crossway_LED |-> [c \in Rows |-> Gone(T.Crossway_LED[c], AllRed)]]

\* Mutant: the last phase of a period can go as well.
DelConfirmLast ==
    /\ Asked /\ sel = 4 /\ state' = "saved"
    /\ PhaseTable' = [PhaseTable EXCEPT ![period_sel] = CloseGap(@)]
    /\ phase_sel' = PhaseTable'[period_sel].Phase_Number - 1
    /\ UNCHANGED <<sel, period_sel, crossway>>

\* Mutant: the selection stays where it was.
DelConfirmKeepsSel ==
    /\ Asked /\ sel = 4 /\ state' = "saved"
    /\ IF Table.Phase_Number > 1
       THEN PhaseTable' = [PhaseTable EXCEPT ![period_sel] = CloseGap(@)]
       ELSE UNCHANGED PhaseTable
    /\ UNCHANGED <<sel, selection>>

\* A period keeps its last phase.
DelConfirm ==
    /\ Asked /\ sel = 4 /\ state' = "saved"
    /\ IF Table.Phase_Number > 1
       THEN /\ PhaseTable' = [PhaseTable EXCEPT ![period_sel] = CloseGap(@)]
            /\ phase_sel' = PhaseTable'[period_sel].Phase_Number - 1
       ELSE UNCHANGED <<PhaseTable, phase_sel>>
    /\ UNCHANGED <<sel, period_sel, crossway>>

DelPhase == DelSelect \/ DelAsk \/ DelToggle \/ DelRefuse \/ DelConfirm

Next == \/ \E d \in Uses : OpenDialog(d)
        \/ KEY6 \/ CloseDialog \/ MoveCursor
        \/ SetPhase \/ AddSelect \/ AddSave \/ DelPhase

Spec == Init /\ [][Next]_vars

-----------------------------------------------------------------------------
(* Properties *)

InUse == {x \in Periods \X Phases : x[1] < InitNumber /\ x[2] < PhaseTable[x[1]].Phase_Number}

\* Every phase task1 can come to lasts between 7 and 99 seconds.
TimesInRange == \A x \in InUse : PhaseTable[x[1]].Last_Time[x[2]] \in CutMin .. CutMax

\* Nothing takes a time out of range, a time carried from phase to phase and
\* period to period before it is saved included, but an addition beyond the
\* phases of its period (RA8806_CTRL.c:3302 and 3414 bound only what the keys
\* do to the copy, and 3427 saves whatever it holds).
TimesStayInRange ==
    [][TimesInRange /\ (dialog = "add" => AddAt <= Table.Phase_Number) => TimesInRange']_vars

\* The phase under edit is one its period has, also after a deletion; only a
\* period that an addition written past the table before has emptied has none
\* (RA8806_CTRL.c:3427 and 3798 index with it unchecked).
SelectionInUse ==
    dialog \in {"set", "del"} =>
        /\ period_sel < InitNumber
        /\ Table.Phase_Number > 0 => phase_sel < Table.Phase_Number

OneIn(word, m) ==
    \A k, l \in ColoursOf(m) : <<m, k>> \in word /\ <<m, l>> \in word => k = l
OneColourOf(m) ==
    \A x \in InUse, c \in Rows : OneIn(PhaseTable[x[1]].Crossway_LED[c][x[2]], m)

\* No phase lights two colours of left turn or of a walk, the movements whose
\* keys test their own lamps, whatever the keys of the others do: the screen
\* shows one colour, or a cross for none (RA8806_CTRL.c:3046, 3164).
OwnMovements == {m \in MovementSet : \A k \in {"Red", "Yellow"} : Tested(m, k) = <<m, k>>}
OwnOneColour == \A m \in OwnMovements : OneColourOf(m)

\* No phase lights two colours of any movement.
OneColour == \A m \in MovementSet : OneColourOf(m)

\* The keys give a second colour to straight on, right turn and turning back
\* only, and only where left turn's red or yellow differs from the movement's
\* own: the sixteen cases of each key are right but for whose lamp they test
\* (RA8806_CTRL.c:3217-3412).
SecondColourFromLeft ==
    [][\A m \in MovementSet :
          dialog = "set" /\ sel > 2 /\ OneIn(crossway_phase, m) /\ ~OneIn(crossway_phase', m) =>
              /\ m \in {"Straight", "Right", "Back"}
              /\ \E k \in {"Red", "Yellow"} :
                    (<<m, k>> \in crossway_phase) # (<<"Left", k>> \in crossway_phase)]_vars

\* A period as the sequence of phases task1 runs.
PhaseSeq(T) ==
    [f \in 1 .. T.Phase_Number |->
        <<T.Last_Time[f - 1], [c \in Rows |-> T.Crossway_LED[c][f - 1]]>>]
InitialPhase == <<CutMin, [c \in Rows |-> AllRed]>>

\* "Add an initial phase at the selected period and phase"
\* (RA8806_CTRL.c:3984): the others stay, in order.  With a phase selected in
\* another, longer period the initial phase is lost and one nobody chose comes
\* last (RA8806_CTRL.c:4018); the others stay all the same.  One place more,
\* and the write leaves the table (AddLeavesOtherPeriods).
AddInsertsPhase ==
    [][dialog = "add" /\ PhaseTable' # PhaseTable /\ AddAt \in Phases =>
         LET old == PhaseSeq(Table)
             new == PhaseSeq(PhaseTable'[period_sel])
         IN  IF AddAt <= Table.Phase_Number THEN new = InsertAt(old, AddAt + 1, InitialPhase)
             ELSE new # <<>> /\ Front(new) = old]_vars

\* Deleting takes out the selected phase and no other (RA8806_CTRL.c:3797-3809).
DeleteRemovesPhase ==
    [][dialog = "del" /\ PhaseTable' # PhaseTable
         => PhaseSeq(PhaseTable'[period_sel]) = RemoveAt(PhaseSeq(Table), phase_sel + 1)]_vars

\* A phase is added to the selected period only (RA8806_CTRL.c:3984, 4028).
AddLeavesOtherPeriods ==
    [][dialog = "add" => \A t \in Periods \ {period_sel} : PhaseTable'[t] = PhaseTable[t]]_vars

\* "Hold OK to save, otherwise the settings are lost" (RA8806_CTRL.c:3172):
\* a time that was not saved does not follow to another phase.
UnsavedTimeIsLost ==
    [][dialog = "set" /\ phase_sel' # phase_sel
         => cutdown' = PhaseTable[period_sel'].Last_Time[phase_sel']]_vars
=============================================================================

---------------------------- MODULE PeriodEditor ----------------------------
(***************************************************************************)
(* The three dialogs that change the time table of the schedule (set, add  *)
(* and delete a period) and the scan that picks the period for a time of   *)
(* day.  A dialog lives in task2 only; how its one guarded write meets     *)
(* task1 is module TrafficControl's business, so a save is one step here.  *)
(* The phase table of a period is a member of Tables.                      *)
(***************************************************************************)
EXTENDS Integers

CONSTANTS
    MaxPeriods,     \* TimeTable[16] of Schedule_TypeDef
    MaxHour,        \* 23
    MaxMin,         \* 59
    MaxSec,         \* 59
    ByteSize,       \* 256, a uint8_t hour wraps here
    Noon,           \* the time add_period starts from, 12:00:00
    Tables,         \* phase tables a period can have
    FirstPhase,     \* the table of a new period: one phase, all red
    InitNumber,     \* the time table Get_Schedule loads
    InitTimes,
    InitTables,
    Uses            \* the dialogs the operator opens

Slots == 0 .. MaxPeriods - 1
\* Only the hour of a period can leave its range: see set_period.
Times == [hour : 0 .. ByteSize - 1, min : 0 .. MaxMin, sec : 0 .. MaxSec]
Clock == [hour : 0 .. MaxHour, min : 0 .. MaxMin, sec : 0 .. MaxSec]

ASSUME LimitsAssumption ==
    /\ MaxPeriods \in Nat \ {0}
    /\ MaxHour \in Nat /\ MaxMin \in Nat /\ MaxSec \in Nat
    /\ ByteSize \in Nat /\ ByteSize > MaxHour
    /\ Noon \in Clock /\ FirstPhase \in Tables
ASSUME InitialAssumption ==
    /\ InitNumber \in 1 .. MaxPeriods
    /\ InitTimes \in [Slots -> Clock] /\ InitTables \in [Slots -> Tables]
ASSUME DialogsAssumption == Uses \subseteq {"set", "add", "del"}

VARIABLES
    TimeTable_Number, TimeTable, PhaseTable,    \* of my_Schedule
    dialog,         \* the dialog that is open
    state,          \* lcd_appstate of the dialog
    sel,            \* the field under the cursor
    period_sel,     \* the period under edit
    time            \* the time under edit

schedule == <<TimeTable_Number, TimeTable, PhaseTable>>
vars == <<schedule, dialog, state, sel, period_sel, time>>

TypeOK ==
    /\ TimeTable_Number \in 1 .. MaxPeriods
    /\ TimeTable \in [Slots -> Times] /\ PhaseTable \in [Slots -> Tables]
    /\ dialog \in {"menu", "set", "add", "del"}
    /\ state \in {"ready", "cmd", "return"}
    /\ sel \in 0 .. 3
    /\ period_sel \in 0 .. MaxPeriods
    /\ time \in Times

Init ==
    /\ TimeTable_Number = InitNumber
    /\ TimeTable = InitTimes /\ PhaseTable = InitTables
    /\ dialog = "menu" /\ state = "ready" /\ sel = 0
    /\ period_sel = 0 /\ time = Noon

Live == 0 .. TimeTable_Number - 1

\* The comparison cascade over hour, minute and second.
Before(s, t) ==
    \/ s.hour < t.hour
    \/ s.hour = t.hour /\ s.min < t.min
    \/ s.hour = t.hour /\ s.min = t.min /\ s.sec < t.sec

\* Mutant: a period counts as begun one second late.
JudgeLate(now) ==
    LET scan[i \in 0 .. MaxPeriods] ==
            IF i = 0 THEN TimeTable_Number - 1
            ELSE IF Before(TimeTable[i - 1], now) THEN i - 1 ELSE scan[i - 1]
    IN  scan[TimeTable_Number]

\* The period for a time of day: scan from the last, stop at the first that
\* has begun; the last period when none has.
Time_JudgeTimeTable(now) ==
    LET scan[i \in 0 .. MaxPeriods] ==
            IF i = 0 THEN TimeTable_Number - 1
            ELSE IF Before(now, TimeTable[i - 1]) THEN scan[i - 1] ELSE i - 1
    IN  scan[TimeTable_Number]

-----------------------------------------------------------------------------
(* Opening and leaving.  The first key draws the screen, the key after     *)
(* KEY6 frees the dialog's data.                                           *)

OpenDialog(d) ==
    /\ dialog = "menu" /\ d \in Uses
    /\ dialog' = d /\ state' = "ready" /\ sel' = 0 /\ period_sel' = 0
    /\ time' = IF d = "add" THEN Noon ELSE TimeTable[0]
    /\ UNCHANGED schedule

DrawScreen ==
    /\ dialog # "menu" /\ state = "ready" /\ state' = "cmd"
    /\ UNCHANGED <<schedule, dialog, sel, period_sel, time>>

KEY6 ==
    /\ dialog # "menu" /\ state = "cmd" /\ state' = "return"
    /\ UNCHANGED <<schedule, dialog, sel, period_sel, time>>

CloseDialog ==
    /\ state = "return" /\ dialog' = "menu"
    /\ state' = "ready" /\ sel' = 0 /\ period_sel' = 0 /\ time' = Noon
    /\ UNCHANGED schedule

InDialog(d) == dialog = d /\ state = "cmd" /\ UNCHANGED <<dialog, state>>

\* KEY3 and KEY4.  del_period has two fields and KEY3 runs into KEY4.
MoveCursor ==
    /\ \/ InDialog("set") \/ InDialog("add") \/ InDialog("del")
    /\ IF dialog = "del" THEN sel' = 1 - sel
       ELSE sel' \in {(sel + 1) % 4, (sel + 3) % 4}
    /\ UNCHANGED <<schedule, period_sel, time>>

Select(p) == period_sel' = p /\ time' = TimeTable[p] /\ UNCHANGED <<schedule, sel>>

SelectNext ==
    /\ InDialog("set") \/ InDialog("del")
    /\ sel = 0 /\ period_sel < TimeTable_Number - 1
    /\ Select(period_sel + 1)

SelectPrevious ==
    /\ InDialog("set") \/ InDialog("del")
    /\ sel = 0 /\ period_sel > 0
    /\ Select(period_sel - 1)

-----------------------------------------------------------------------------
(* set_period *)

Tune(t) == time' = t /\ UNCHANGED <<schedule, sel, period_sel>>
HasNext == period_sel < TimeTable_Number - 1
HasPrevious == period_sel > 0
After == TimeTable[period_sel + 1]
Prior == TimeTable[period_sel - 1]

\* Past the next period's hour the hour is still raised, without a limit,
\* whenever minute and second do not exceed the next period's.
SetHourUp ==
    /\ InDialog("set") /\ sel = 1
    /\ IF HasNext
       THEN \/ time.hour < After.hour - 1
            \/ time.min <= After.min /\ time.sec <= After.sec
       ELSE time.hour < MaxHour
    /\ Tune([time EXCEPT !.hour = (@ + 1) % ByteSize])

SetHourDown ==
    /\ InDialog("set") /\ sel = 1
    /\ IF HasPrevious
       THEN \/ time.hour > Prior.hour + 1
            \/ time.min >= Prior.min /\ time.sec > Prior.sec + 1
       ELSE time.hour > 0
    /\ Tune([time EXCEPT !.hour = (@ - 1) % ByteSize])

SetMinUp ==
    /\ InDialog("set") /\ sel = 2
    /\ IF HasNext /\ time.hour = After.hour
       THEN time.min < After.min ELSE time.min < MaxMin
    /\ Tune([time EXCEPT !.min = @ + 1])

SetMinDown ==
    /\ InDialog("set") /\ sel = 2
    /\ IF HasPrevious /\ time.hour = Prior.hour
       THEN time.min > Prior.min ELSE time.min > 0
    /\ Tune([time EXCEPT !.min = @ - 1])

SetSecUp ==
    /\ InDialog("set") /\ sel = 3
    /\ IF HasNext /\ time.hour = After.hour /\ time.min = After.min
       THEN time.sec < After.sec - 1 ELSE time.sec < MaxSec
    /\ Tune([time EXCEPT !.sec = @ + 1])

SetSecDown ==
    /\ InDialog("set") /\ sel = 3
    /\ IF HasPrevious /\ time.hour = Prior.hour /\ time.min = Prior.min
       THEN time.sec > Prior.sec + 1 ELSE time.sec > 0
    /\ Tune([time EXCEPT !.sec = @ - 1])

SetSave ==
    /\ InDialog("set")
    /\ TimeTable' = [TimeTable EXCEPT ![period_sel] = time]
    /\ UNCHANGED <<TimeTable_Number, PhaseTable, sel, period_sel, time>>

-----------------------------------------------------------------------------
(* add_period *)

AddTurn(field, max) ==
    /\ InDialog("add")
    /\ \E step \in {1, max} :   \* KEY1, KEY2: round the clock
         Tune([time EXCEPT ![field] = (@ + step) % (max + 1)])

AddTurnTime == \/ sel = 0 /\ AddTurn("hour", MaxHour)
               \/ sel = 1 /\ AddTurn("min", MaxMin)
               \/ sel = 2 /\ AddTurn("sec", MaxSec)

NotPassed == {i \in Live : ~Before(TimeTable[i], time)}

\* Mutant: the new period goes in after the one it should precede.
InsertAtLate ==
    IF NotPassed = {} THEN TimeTable_Number
    ELSE (CHOOSE i \in NotPassed : \A j \in NotPassed : i <= j) + 1

\* The first period that starts later, or the end.
InsertAt ==
    IF NotPassed = {} THEN TimeTable_Number
    ELSE CHOOSE i \in NotPassed : \A j \in NotPassed : i <= j

\* Mutant: the period that the new one displaces is overwritten.
ShiftedUpShort(a, at, new) ==
    [i \in Slots |-> IF i = at THEN new
                     ELSE IF i \in at + 2 .. TimeTable_Number THEN a[i - 1] ELSE a[i]]

ShiftedUp(a, at, new) ==
    [i \in Slots |-> IF i = at THEN new
                     ELSE IF i \in at + 1 .. TimeTable_Number THEN a[i - 1] ELSE a[i]]

Repeated == InsertAt \in Live /\ TimeTable[InsertAt] = time

AddSave ==
    /\ InDialog("add") /\ sel = 3
    /\ TimeTable_Number < MaxPeriods
    /\ ~Repeated
    /\ period_sel' = InsertAt
    /\ TimeTable' = ShiftedUp(TimeTable, InsertAt, time)
    /\ PhaseTable' = ShiftedUp(PhaseTable, InsertAt, FirstPhase)
    /\ TimeTable_Number' = TimeTable_Number + 1
    /\ UNCHANGED <<sel, time>>

\* The scan has set period_sel before it meets the repeated time.
AddRefused ==
    /\ InDialog("add") /\ sel = 3
    /\ TimeTable_Number < MaxPeriods
    /\ Repeated
    /\ period_sel' = TimeTable_Number
    /\ UNCHANGED <<schedule, sel, time>>

-----------------------------------------------------------------------------
(* del_period *)

\* The loop ends at TimeTable_Number-3, one short of the last period.
ShiftedDown(a) ==
    [i \in Slots |-> IF i \in period_sel .. TimeTable_Number - 3 THEN a[i + 1] ELSE a[i]]

\* Mutant: the selection stays where it was.
DelSaveKeepsSel ==
    /\ InDialog("del") /\ sel = 1
    /\ TimeTable_Number > 1
    /\ TimeTable' = ShiftedDown(TimeTable)
    /\ PhaseTable' = ShiftedDown(PhaseTable)
    /\ TimeTable_Number' = TimeTable_Number - 1
    /\ UNCHANGED <<sel, period_sel, time>>

\* Mutant: the last period can go as well.
DelSaveAll ==
    /\ InDialog("del") /\ sel = 1
    /\ TimeTable' = ShiftedDown(TimeTable)
    /\ PhaseTable' = ShiftedDown(PhaseTable)
    /\ TimeTable_Number' = TimeTable_Number - 1
    /\ period_sel' = IF period_sel > 0 THEN period_sel - 1 ELSE 0
    /\ time' = TimeTable'[period_sel']
    /\ UNCHANGED sel

DelSave ==
    /\ InDialog("del") /\ sel = 1
    /\ TimeTable_Number > 1
    /\ TimeTable' = ShiftedDown(TimeTable)
    /\ PhaseTable' = ShiftedDown(PhaseTable)
    /\ TimeTable_Number' = TimeTable_Number - 1
    /\ period_sel' = IF period_sel > 0 THEN period_sel - 1 ELSE 0
    /\ time' = TimeTable'[period_sel']
    /\ UNCHANGED sel

-----------------------------------------------------------------------------
SetTime == \/ SetHourUp \/ SetHourDown \/ SetMinUp \/ SetMinDown
           \/ SetSecUp \/ SetSecDown

Next == \/ \E d \in Uses : OpenDialog(d)
        \/ DrawScreen \/ KEY6 \/ CloseDialog
        \/ MoveCursor \/ SelectNext \/ SelectPrevious
        \/ SetTime \/ SetSave
        \/ AddTurnTime \/ AddSave \/ AddRefused
        \/ DelSave

Spec == Init /\ [][Next]_vars

-----------------------------------------------------------------------------
(* Properties *)

\* The order the scan depends on (TIME_OP.c:80-81).
InOrder == \A i, j \in Live : i < j => ~Before(TimeTable[j], TimeTable[i])

\* In an ordered table, whatever has been added and deleted, the scan returns
\* at any time of day a period whose start is the latest not in the future,
\* or, before the first start, the latest of all (TIME_OP.c:98).
Begun(now) == {i \in Live : ~Before(now, TimeTable[i])}
ScanFindsPeriod ==
    InOrder => \A now \in Clock :
        LET found == Time_JudgeTimeTable(now)
            among == IF Begun(now) = {} THEN Live ELSE Begun(now)
        IN  found \in among /\ \A i \in among : ~Before(TimeTable[found], TimeTable[i])

\* Whatever the time table holds, the period selected and the period under
\* edit are periods in use (main.c:195, RA8806_CTRL.c:4347 and 4569 index
\* with them unchecked).
SelectionsInUse ==
    /\ \A now \in Clock : Time_JudgeTimeTable(now) \in Live
    /\ dialog \in {"set", "del"} => period_sel \in Live

\* The periods in use: when they start and what they run.
Plan == {<<TimeTable[i], PhaseTable[i]>> : i \in Live}

\* Adding a period adds that one and keeps every other with its own phases
\* (RA8806_CTRL.c:4781-4794).
AddKeepsOthers ==
    [][dialog = "add" /\ TimeTable_Number' # TimeTable_Number
         => Plan' = Plan \cup {<<time, FirstPhase>>}]_vars

\* The other two dialogs rely on the order and keep it: an addition goes where
\* the scan expects it and never starts together with a period there is
\* (RA8806_CTRL.c:4752-4779), a deletion leaves no later start in front.
Unused(t) == \A i \in Live : TimeTable[i] # t
OrderKept ==
    [][/\ dialog \in {"add", "del"} /\ InOrder
       /\ TimeTable_Number' # TimeTable_Number
       => InOrder' /\ (dialog = "add" => Unused(time))]_vars

\* RA8806_CTRL.c:4496: "delete the selected period".
DeleteRemovesSelected ==
    [][dialog = "del" /\ TimeTable_Number' # TimeTable_Number
         => Plan' = Plan \ {<<TimeTable[period_sel], PhaseTable[period_sel]>>}]_vars
=============================================================================

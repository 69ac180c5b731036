--------------------------- MODULE TrafficControl ---------------------------
(***************************************************************************)
(* The heart of the controller: the two timer interrupts, the one-slot     *)
(* mailbox they share, task1 (priority 2), which counts phases down and    *)
(* lights the lamps, and task2 (priority 10), which runs the keypad menus  *)
(* and rewrites the data task1 lives on.  task1 preempts task2 between any *)
(* two of its steps; task2 runs only while task1 is blocked.               *)
(*                                                                         *)
(* A row of lamps (Crossway_LED[0..5][phase]) is one member of Rows; which *)
(* lamps it puts on the street is the business of module LampWords.        *)
(***************************************************************************)
EXTENDS Integers

CONSTANTS
    Rows,           \* lamp combinations a phase can light
    NoLamps,        \* the combination with every bit clear
    AllRed,         \* 0xFC00, what a new phase lights
    MaxPeriods,     \* PhaseTable[16] of Schedule_TypeDef
    MaxPhases,      \* Last_Time[16] of PhaseTable_TypeDef
    CutMax,         \* 99, the longest time the menus let a phase have
    NewPhaseTime,   \* 7, the time a new phase is given
    Tables,         \* phase tables the operator may leave behind with an edit
    InitSchedule,   \* the schedule Get_Schedule loads
    Uses,           \* what the operator does, a subset of AllUses
    RtcMayFail,     \* whether the 32 kHz oscillator may stop
    Prompt          \* whether task1 always runs before the next tick

AllUses == {"adjust", "edit", "LEDCheck", "CutDown", "TimePhase", "cancel"}

Periods == 0 .. MaxPeriods - 1
Phases  == 0 .. MaxPhases - 1

PhaseTables == [Phase_Number : 0 .. MaxPhases,
                Last_Time    : [Phases -> 0 .. CutMax],
                Crossway_LED : [Phases -> Rows]]

Schedules == [TimeTable_Number : 1 .. MaxPeriods,
              PhaseTable       : [Periods -> PhaseTables]]

\* Every period in use has a phase to run.
Runnable(s) ==
    \A t \in 0 .. s.TimeTable_Number - 1 : s.PhaseTable[t].Phase_Number >= 1

ASSUME SizesAssumption ==
    /\ MaxPeriods \in Nat \ {0}
    /\ MaxPhases \in Nat \ {0}
    /\ CutMax \in Nat /\ CutMax > 16
    /\ NewPhaseTime \in 0 .. CutMax
ASSUME RowsAssumption == {NoLamps, AllRed} \subseteq Rows
ASSUME TablesAssumption ==
    Tables \subseteq {T \in PhaseTables : T.Phase_Number >= 1}
ASSUME InitAssumption == InitSchedule \in Schedules /\ Runnable(InitSchedule)
ASSUME UsesAssumption == Uses \subseteq AllUses
ASSUME FlagsAssumption == RtcMayFail \in BOOLEAN /\ Prompt \in BOOLEAN

-----------------------------------------------------------------------------
VARIABLES
    rtcIT,              \* RTC second interrupt enabled
    rtcAlive,           \* the 32 kHz oscillator runs
    armed,              \* TIM2 counts towards its one-pulse overflow
    traffic_signal,     \* the byte both interrupts point the mailbox at
    mbox,               \* mbox_traffic_signal holds a message
    t1,                 \* task1: pending, holding a message, deleted
    Manual_FLAG,
    Current_CutDown,
    Current_PhaseTable,
    Current_TimeTable,
    Phase_OneShot,      \* the copy of the period's table that is running
    my_Schedule,
    Crossway,           \* Current_Crossway_LED and its companions: the row
                        \* interpreted, and whether all of it is there yet
    lamps,              \* temp_Current_Crossway_LED, what a second shows
    mask,               \* temp_Crossway_LED_Die, what a half second inverts
                        \* on the ports, which show lamps ^ mask
    t2,                 \* where task2 is
    dialog,             \* the menu function task2 has open
    reg,                \* a value task2 read and has not used yet
    op,                 \* the adjustment task2 is making
    job,                \* the edit task2 is making
    tickSpent           \* a timer interrupt already fell into this window

ticks   == <<rtcIT, rtcAlive, armed>>
mail    == <<traffic_signal, mbox>>
street  == <<lamps, mask>>
plan    == <<Current_PhaseTable, Current_TimeTable, Phase_OneShot>>
screen  == <<dialog, reg, op, job>>
vars    == <<ticks, mail, t1, Manual_FLAG, Current_CutDown, plan, my_Schedule,
             Crossway, street, t2, screen, tickSpent>>

\* Stages in which task2 waits for a key, and stages of a short run of
\* statements.  The runs take far less than the time between two timer
\* interrupts, so at most one interrupt falls into each.
KeyStages == {"menu", "locked", "unlocked", "cmd", "return"}
Window == {"load", "store", "off", "half", "rest", "on",
           "takeOver", "takeOverLit", "lockPhase", "lockClear", "lockLit", "lockCut",
           "retJudge", "retCopy", "retCut", "retClear", "retLit", "retFlag"}
Stages == KeyStages \cup Window \cup {"waitCycle"}

Ops     == {"none", "inc", "dec", "inc10", "dec10", "incdec"}
Dialogs == {"none", "LEDCheck", "CutDown", "TimePhase"}
NoJob(s) == [before |-> s, half |-> s, after |-> s]

\* The arrays with the whole of a row, and with a part of it (or nothing) yet.
Whole(r) == [row |-> r, whole |-> TRUE]
Part(r)  == [row |-> r, whole |-> FALSE]
Pictures == [row : Rows, whole : BOOLEAN]

\* What the half second takes from the arrays: the lamps that always flash,
\* the lit ones that may flash too, or those of the yellow stage instead.
MaskStages == {"none", "flash", "lit", "yellow"}
NoMask == [of |-> Whole(NoLamps), stage |-> "none"]

TypeOK ==
    /\ rtcIT \in BOOLEAN /\ rtcAlive \in BOOLEAN /\ armed \in BOOLEAN
    /\ traffic_signal \in {0, 1, 2}
    /\ mbox \in BOOLEAN
    /\ t1 \in {"pend", "got", "deleted"}
    /\ Manual_FLAG \in {0, 1}
    /\ Current_CutDown \in 0 .. CutMax
    /\ Current_PhaseTable \in Phases
    /\ Current_TimeTable \in Periods
    /\ Phase_OneShot \in PhaseTables
    /\ my_Schedule \in Schedules
    /\ Crossway \in Pictures
    /\ lamps \in [of : Pictures, yellow : BOOLEAN]
    /\ mask \in [of : Pictures, stage : MaskStages]
    /\ t2 \in Stages
    /\ dialog \in Dialogs
    /\ reg \in 0 .. CutMax \cup Phases
    /\ op \in Ops
    /\ job \in [before : Schedules, half : Schedules, after : Schedules]
    /\ tickSpent \in BOOLEAN

\* State after LED_Init and OSStart.
Init ==
    /\ rtcIT = TRUE /\ rtcAlive = TRUE /\ armed = FALSE
    /\ traffic_signal = 0 /\ mbox = FALSE /\ t1 = "pend"
    /\ Manual_FLAG = 0
    /\ my_Schedule = InitSchedule
    /\ Current_TimeTable \in 0 .. InitSchedule.TimeTable_Number - 1
    /\ Current_PhaseTable = 0
    /\ Phase_OneShot = my_Schedule.PhaseTable[Current_TimeTable]
    /\ Current_CutDown = Phase_OneShot.Last_Time[0]
    /\ Crossway = Whole(Phase_OneShot.Crossway_LED[0])
    /\ lamps = [of |-> Whole(NoLamps), yellow |-> FALSE] /\ mask = NoMask
    /\ t2 = "menu" /\ dialog = "none" /\ reg = 0 /\ op = "none"
    /\ job = NoJob(InitSchedule)
    /\ tickSpent = FALSE

-----------------------------------------------------------------------------
(* Interrupts.  The one-pulse timer is started by each second interrupt    *)
(* and overflows before the next, so the two alternate.                    *)

\* OSMboxPost to a mailbox that is full fails and leaves it as it is; the
\* byte the queued pointer designates has changed all the same.
PostSignal(value) ==
    /\ t2 \in Window => ~tickSpent
    /\ tickSpent' = (t2 \in Window)
    /\ Prompt => ~mbox /\ t1 # "got"
    /\ traffic_signal' = value
    /\ mbox' = TRUE
    /\ UNCHANGED <<rtcIT, rtcAlive, t1, Manual_FLAG, Current_CutDown, plan,
                   my_Schedule, Crossway, street, t2, screen>>

RTC_IRQHandler  == rtcAlive /\ rtcIT /\ ~armed /\ armed' = TRUE /\ PostSignal(1)
TIM2_IRQHandler == armed /\ armed' = FALSE /\ PostSignal(2)

\* The oscillator stops: no second interrupt ever again.
OscillatorFails ==
    /\ RtcMayFail /\ rtcAlive
    /\ rtcAlive' = FALSE
    /\ UNCHANGED <<rtcIT, armed, mail, t1, Manual_FLAG, Current_CutDown, plan,
                   my_Schedule, Crossway, street, t2, screen, tickSpent>>

-----------------------------------------------------------------------------
(* task1_traffic_control                                                   *)

\* OSMboxPend returns; the byte the message points at is read later.
TakeMessage ==
    /\ t1 = "pend" /\ mbox
    /\ t1' = "got" /\ mbox' = FALSE
    /\ UNCHANGED <<ticks, traffic_signal, Manual_FLAG, Current_CutDown, plan,
                   my_Schedule, Crossway, street, t2, screen, tickSpent>>

\* No message for 200 ticks, two seconds: task1 deletes itself.
PendTimeout ==
    /\ t1 = "pend" /\ ~mbox /\ ~armed /\ ~rtcAlive
    /\ t1' = "deleted"
    /\ UNCHANGED <<ticks, mail, Manual_FLAG, Current_CutDown, plan,
                   my_Schedule, Crossway, street, t2, screen, tickSpent>>

Handle(value) ==
    /\ t1 = "got" /\ traffic_signal = value
    /\ t1' = "pend"
    /\ UNCHANGED <<ticks, mail, Manual_FLAG, my_Schedule, t2, screen, tickSpent>>

\* Mutant: the last second of a phase is shown green again.
LED_Sec_DisplayLate ==
    /\ Handle(1)
    /\ lamps' = [of |-> Crossway, yellow |-> Current_CutDown \in {1, 2}]
    /\ mask' = NoMask
    /\ UNCHANGED <<Current_CutDown, plan, Crossway>>

\* Green turns yellow when fewer than three seconds are left.
LED_Sec_Display ==
    /\ Handle(1)
    /\ lamps' = [of |-> Crossway, yellow |-> Current_CutDown < 3]
    /\ mask' = NoMask
    /\ UNCHANGED <<Current_CutDown, plan, Crossway>>

\* The half second first writes the ports again, from what the second left
\* and the arrays as they are now, then counts.
LED_HalfSec_Display ==
    /\ Handle(2)
    /\ mask' = [of    |-> Crossway,
                stage |-> CASE Current_CutDown > 6      -> "flash"
                            [] Current_CutDown \in 3 .. 6 -> "lit"
                            [] Current_CutDown < 3      -> "yellow"]
    /\ UNCHANGED lamps

\* Mutant: counts on below zero.
CountDownPastZero ==
    /\ LED_HalfSec_Display
    /\ Current_CutDown' = Current_CutDown - 1
    /\ UNCHANGED <<plan, Crossway>>

CountDown ==
    /\ LED_HalfSec_Display
    /\ Current_CutDown > 0
    /\ Current_CutDown' = Current_CutDown - 1
    /\ UNCHANGED <<plan, Crossway>>

NextPhase ==
    /\ LED_HalfSec_Display
    /\ Manual_FLAG = 0 /\ Current_CutDown = 0
    /\ Current_PhaseTable < Phase_OneShot.Phase_Number - 1
    /\ Current_PhaseTable' = Current_PhaseTable + 1
    /\ Current_CutDown' = Phase_OneShot.Last_Time[Current_PhaseTable']
    /\ Crossway' = Whole(Phase_OneShot.Crossway_LED[Current_PhaseTable'])
    /\ UNCHANGED <<Current_TimeTable, Phase_OneShot>>

\* Which period the clock selects is the business of module PeriodEditor; any
\* period in use may be the one.
Time_JudgeTimeTable == Current_TimeTable' \in 0 .. my_Schedule.TimeTable_Number - 1

NewCycle ==
    /\ LED_HalfSec_Display
    /\ Manual_FLAG = 0 /\ Current_CutDown = 0
    /\ Current_PhaseTable >= Phase_OneShot.Phase_Number - 1
    /\ Current_PhaseTable' = 0
    /\ Time_JudgeTimeTable
    /\ Phase_OneShot' = my_Schedule.PhaseTable[Current_TimeTable']
    /\ Current_CutDown' = Phase_OneShot'.Last_Time[0]
    /\ Crossway' = Whole(Phase_OneShot'.Crossway_LED[0])

\* In manual mode the phase is repeated, timed from the stored schedule.
RepeatPhase ==
    /\ LED_HalfSec_Display
    /\ Manual_FLAG = 1 /\ Current_CutDown = 0
    /\ Current_CutDown' =
         my_Schedule.PhaseTable[Current_TimeTable].Last_Time[Current_PhaseTable]
    /\ UNCHANGED <<plan, Crossway>>

Task1 == \/ TakeMessage \/ PendTimeout \/ LED_Sec_Display \/ CountDown
         \/ NextPhase \/ NewCycle \/ RepeatPhase

-----------------------------------------------------------------------------
(* task2_key_control_screen.  A step runs only while task1 is blocked.     *)

Task2Runs == t1 = "deleted" \/ (t1 = "pend" /\ ~mbox)

Task2Step(from, to) ==
    /\ Task2Runs /\ t2 = from /\ t2' = to
    /\ tickSpent' = (tickSpent /\ to \in Window)
    /\ UNCHANGED <<rtcAlive, armed, mail, t1, street>>

Home == IF dialog = "none" THEN "menu" ELSE "cmd"

\* LED_Interpretation clears the arrays first and fills them from the
\* running copy; its period argument is not used.
ClearRow(phase) == Crossway' = Part(Phase_OneShot.Crossway_LED[phase]) /\ reg' = phase
LightRow        == Crossway' = Whole(Phase_OneShot.Crossway_LED[reg]) /\ reg' = 0

(* Adjusting the seconds left of the current phase. *)

Delta(o) == CASE o \in {"inc", "incdec"} -> 1 [] o = "dec"   -> -1
              [] o = "inc10" -> 10            [] o = "dec10" -> -10
              [] o = "none"  -> 0

\* Mutant: ten seconds may be taken off whenever there are ten.
MayAdjustTen(o, cut) ==
    CASE o \in {"inc", "incdec"} -> cut < CutMax /\ cut > 6
      [] o = "dec"               -> cut > 7
      [] o = "inc10"             -> cut < CutMax - 9 /\ cut > 6
      [] o = "dec10"             -> cut > 10
      [] o = "none"              -> FALSE

MayAdjust(o, cut) ==
    CASE o \in {"inc", "incdec"} -> cut < CutMax /\ cut > 6
      [] o = "dec"               -> cut > 7
      [] o = "inc10"             -> cut < CutMax - 9 /\ cut > 6
      [] o = "dec10"             -> cut > 16
      [] o = "none"              -> FALSE

AdjustFrame == UNCHANGED <<rtcIT, Manual_FLAG, plan, my_Schedule, Crossway,
                           dialog, job>>

\* A held key in a menu ("incdec" is KEY1_Cont of menu_keywork_mode1, whose
\* missing break runs the decrement too), or a key of the CutDown dialog.
AdjustKey(o) ==
    /\ Task2Step(Home, "load")
    /\ \/ "adjust" \in Uses /\ dialog = "none" /\ o \in {"inc", "dec", "incdec"}
       \/ dialog = "CutDown" /\ o \in {"inc", "dec", "inc10", "dec10"}
    /\ MayAdjust(o, Current_CutDown)
    /\ op' = o
    /\ UNCHANGED <<Current_CutDown, reg>> /\ AdjustFrame

AdjustLoad ==
    /\ Task2Step("load", "store")
    /\ reg' = Current_CutDown
    /\ UNCHANGED <<Current_CutDown, op>> /\ AdjustFrame

\* The missing break goes on to test and load for the decrement.
AdjustStore ==
    /\ Current_CutDown' = reg + Delta(op)
    /\ LET again == op = "incdec" /\ MayAdjust("dec", Current_CutDown')
       IN  /\ Task2Step("store", IF again THEN "load" ELSE Home)
           /\ op' = IF again THEN "dec" ELSE "none"
    /\ reg' = 0
    /\ AdjustFrame

(* Editing the stored schedule: wait until the running copy is not about   *)
(* to be renewed, stop the second interrupt, write, restart it.            *)

EditFrame == UNCHANGED <<Manual_FLAG, Current_CutDown, plan, Crossway, dialog,
                         reg, op>>

\* set_phase, add_phase and del_phase write lamp rows, then times and count.
PhaseJobs ==
    {[before |-> my_Schedule,
      half   |-> [my_Schedule EXCEPT !.PhaseTable[t] =
                                   [@ EXCEPT !.Crossway_LED = T.Crossway_LED]],
      after  |-> [my_Schedule EXCEPT !.PhaseTable[t] = T]] :
        t \in 0 .. my_Schedule.TimeTable_Number - 1, T \in Tables}

FirstPhase(T) == [T EXCEPT !.Phase_Number = 1, !.Last_Time[0] = NewPhaseTime,
                           !.Crossway_LED[0] = AllRed]

\* add_period: shift the later tables up, then overwrite the freed one.
AddPeriodJobs ==
    LET n == my_Schedule.TimeTable_Number
        Up(i) == [my_Schedule EXCEPT !.PhaseTable =
                    [t \in Periods |-> IF t \in i + 1 .. n THEN @[t - 1] ELSE @[t]]]
    IN  IF n < MaxPeriods
        THEN {[before |-> my_Schedule,
               half   |-> Up(i),
               after  |-> [TimeTable_Number |-> n + 1,
                           PhaseTable |-> [Up(i).PhaseTable EXCEPT
                                             ![i] = FirstPhase(@)]]] :
                 i \in 0 .. n}
        ELSE {}

\* del_period: the loop stops at n - 3, one short of closing the gap.
DelPeriodJobs ==
    LET n == my_Schedule.TimeTable_Number
        Down(i) == [my_Schedule EXCEPT !.PhaseTable =
                      [t \in Periods |-> IF t \in i .. n - 3 THEN @[t + 1] ELSE @[t]]]
    IN  IF n > 1
        THEN {[before |-> my_Schedule,
               half   |-> Down(i),
               after  |-> [TimeTable_Number |-> n - 1,
                           PhaseTable |-> Down(i).PhaseTable]] :
                 i \in 0 .. n - 1}
        ELSE {}

EditKey ==
    /\ "edit" \in Uses
    /\ Task2Step("menu", "waitCycle")
    /\ job' \in PhaseJobs \cup AddPeriodJobs \cup DelPeriodJobs
    /\ UNCHANGED <<rtcIT, my_Schedule>> /\ EditFrame

\* Mutants: no wait before an edit; a wait with || for &&.
CycleNeverEnds == FALSE
CycleMayEndEither ==
    Current_CutDown = 0 \/ Current_PhaseTable = Phase_OneShot.Phase_Number - 1

\* while(Current_CutDown==0 && Current_PhaseTable==Phase_OneShot.Phase_Number-1);
CycleMayEnd ==
    Current_CutDown = 0 /\ Current_PhaseTable = Phase_OneShot.Phase_Number - 1

EditWait ==
    /\ ~CycleMayEnd
    /\ Task2Step("waitCycle", "off")
    /\ UNCHANGED <<rtcIT, my_Schedule, job>> /\ EditFrame

EditRtcOff ==
    /\ Task2Step("off", "half")
    /\ rtcIT' = FALSE
    /\ UNCHANGED <<my_Schedule, job>> /\ EditFrame

EditHalf ==
    /\ Task2Step("half", "rest")
    /\ my_Schedule' = job.half
    /\ UNCHANGED <<rtcIT, job>> /\ EditFrame

EditRest ==
    /\ Task2Step("rest", "on")
    /\ my_Schedule' = job.after
    /\ job' = NoJob(job.after)
    /\ UNCHANGED rtcIT /\ EditFrame

\* Mutant: the second interrupt stays off.
RtcStaysOff ==
    /\ Task2Step("on", Home)
    /\ UNCHANGED <<rtcIT, my_Schedule, job>> /\ EditFrame

\* RTC_ITConfig(RTC_IT_SEC, ENABLE), the end of every guarded run.
RtcOn ==
    /\ Task2Step("on", Home)
    /\ rtcIT' = TRUE
    /\ UNCHANGED <<my_Schedule, job>> /\ EditFrame

(* The password-protected functions of the manual-mode menu. *)

DialogFrame == UNCHANGED <<my_Schedule, op, job>>

OpenDialog(d) ==
    /\ Task2Step("menu", "locked")
    /\ d \in Uses /\ dialog' = d
    /\ UNCHANGED <<rtcIT, Manual_FLAG, Current_CutDown, plan, Crossway, reg>>
    /\ DialogFrame

EnterCode ==
    /\ Task2Step("locked", "unlocked")
    /\ UNCHANGED <<rtcIT, Manual_FLAG, Current_CutDown, plan, Crossway, reg, dialog>>
    /\ DialogFrame

\* KEY6 on the password screen.
CancelAtLock ==
    /\ "cancel" \in Uses
    /\ Task2Step("locked", "return")
    /\ UNCHANGED <<rtcIT, Manual_FLAG, Current_CutDown, plan, Crossway, reg, dialog>>
    /\ DialogFrame

\* The first key after the code draws the function's own screen.
OpenScreen ==
    /\ dialog \in {"LEDCheck", "CutDown"}
    /\ Task2Step("unlocked", "cmd")
    /\ UNCHANGED <<rtcIT, Manual_FLAG, Current_CutDown, plan, Crossway, reg, dialog>>
    /\ DialogFrame

\* ManualMode_TimePhase_interface: take the cycle over, show phase 0.
StartTakeOver ==
    /\ dialog = "TimePhase"
    /\ Task2Step("unlocked", "takeOver")
    /\ rtcIT' = FALSE
    /\ UNCHANGED <<Manual_FLAG, Current_CutDown, plan, Crossway, reg, dialog>>
    /\ DialogFrame

\* Mutant: the cycle is not taken over.
TakeOverUnflagged ==
    /\ Task2Step("takeOver", "takeOverLit")
    /\ ClearRow(0)
    /\ UNCHANGED <<rtcIT, Manual_FLAG, Current_CutDown, plan, dialog>> /\ DialogFrame

TakeOver ==
    /\ Task2Step("takeOver", "takeOverLit")
    /\ Manual_FLAG' = 1
    /\ ClearRow(0)
    /\ UNCHANGED <<rtcIT, Current_CutDown, plan, dialog>> /\ DialogFrame

TakeOverLit ==
    /\ Task2Step("takeOverLit", "on")
    /\ LightRow
    /\ UNCHANGED <<rtcIT, Manual_FLAG, Current_CutDown, plan, dialog>> /\ DialogFrame

\* KEY5 of ManualMode_TimePhase: lock the chosen period and phase, first the
\* one index, then the other.  The keys that move the choice keep it inside
\* the stored schedule.
LockPeriod(t, p) ==
    /\ dialog = "TimePhase"
    /\ Task2Step("cmd", "lockPhase")
    /\ t < my_Schedule.TimeTable_Number
    /\ p < my_Schedule.PhaseTable[t].Phase_Number
    /\ Current_TimeTable' = t /\ reg' = p
    /\ UNCHANGED <<rtcIT, Manual_FLAG, Current_CutDown, Current_PhaseTable,
                   Phase_OneShot, Crossway, dialog>>
    /\ DialogFrame

LockPhase ==
    /\ Task2Step("lockPhase", "lockClear")
    /\ Current_PhaseTable' = reg /\ reg' = 0
    /\ UNCHANGED <<rtcIT, Manual_FLAG, Current_CutDown, Current_TimeTable,
                   Phase_OneShot, Crossway, dialog>>
    /\ DialogFrame

\* Mutant: the second interrupt is left on.
LockClearUnguarded ==
    /\ Task2Step("lockClear", "lockLit")
    /\ UNCHANGED rtcIT
    /\ ClearRow(Current_PhaseTable)
    /\ UNCHANGED <<Manual_FLAG, Current_CutDown, plan, dialog>> /\ DialogFrame

LockClear ==
    /\ Task2Step("lockClear", "lockLit")
    /\ rtcIT' = FALSE
    /\ ClearRow(Current_PhaseTable)
    /\ UNCHANGED <<Manual_FLAG, Current_CutDown, plan, dialog>> /\ DialogFrame

LockLit ==
    /\ Task2Step("lockLit", "lockCut")
    /\ LightRow
    /\ UNCHANGED <<rtcIT, Manual_FLAG, Current_CutDown, plan, dialog>> /\ DialogFrame

LockCut ==
    /\ Task2Step("lockCut", "on")
    /\ Current_CutDown' =
         my_Schedule.PhaseTable[Current_TimeTable].Last_Time[Current_PhaseTable]
    /\ UNCHANGED <<rtcIT, Manual_FLAG, plan, Crossway, reg, dialog>> /\ DialogFrame

\* KEY6 of the lamp test and of the lock dialog; the next key returns.
LeaveScreen ==
    /\ dialog \in {"LEDCheck", "TimePhase"}
    /\ Task2Step("cmd", "return")
    /\ UNCHANGED <<rtcIT, Manual_FLAG, Current_CutDown, plan, Crossway, reg, dialog>>
    /\ DialogFrame

\* The adjustment dialog closes at once and touches nothing.
CloseCutDown ==
    /\ dialog = "CutDown"
    /\ Task2Step(t2, "menu") /\ t2 \in {"cmd", "return"}
    /\ dialog' = "none"
    /\ UNCHANGED <<rtcIT, Manual_FLAG, Current_CutDown, plan, Crossway, reg>>
    /\ DialogFrame

\* Mutant: the restart keeps the locked phase index.
RetKeepsPhase ==
    /\ dialog \in {"LEDCheck", "TimePhase"}
    /\ Task2Step("return", "retJudge")
    /\ UNCHANGED <<rtcIT, Manual_FLAG, Current_CutDown, plan, Crossway, reg, dialog>>
    /\ DialogFrame

\* LED_Check_main and ManualMode_TimePhase_main, lcdapp_return: restart the
\* cycle, one global after another, the second interrupt left enabled.
RetReset ==
    /\ dialog \in {"LEDCheck", "TimePhase"}
    /\ Task2Step("return", "retJudge")
    /\ Current_PhaseTable' = 0
    /\ UNCHANGED <<rtcIT, Manual_FLAG, Current_CutDown, Current_TimeTable,
                   Phase_OneShot, Crossway, reg, dialog>>
    /\ DialogFrame

RetJudge ==
    /\ Task2Step("retJudge", "retCopy")
    /\ Time_JudgeTimeTable
    /\ UNCHANGED <<rtcIT, Manual_FLAG, Current_CutDown, Current_PhaseTable,
                   Phase_OneShot, Crossway, reg, dialog>>
    /\ DialogFrame

RetCopy ==
    /\ Task2Step("retCopy", "retCut")
    /\ Phase_OneShot' = my_Schedule.PhaseTable[Current_TimeTable]
    /\ UNCHANGED <<rtcIT, Manual_FLAG, Current_CutDown, Current_PhaseTable,
                   Current_TimeTable, Crossway, reg, dialog>>
    /\ DialogFrame

RetCut ==
    /\ Task2Step("retCut", "retClear")
    /\ Current_CutDown' = Phase_OneShot.Last_Time[Current_PhaseTable]
    /\ UNCHANGED <<rtcIT, Manual_FLAG, plan, Crossway, reg, dialog>> /\ DialogFrame

RetClear ==
    /\ Task2Step("retClear", "retLit")
    /\ ClearRow(Current_PhaseTable)
    /\ UNCHANGED <<rtcIT, Manual_FLAG, Current_CutDown, plan, dialog>> /\ DialogFrame

RetLit ==
    /\ Task2Step("retLit", "retFlag")
    /\ LightRow
    /\ UNCHANGED <<rtcIT, Manual_FLAG, Current_CutDown, plan, dialog>> /\ DialogFrame

RetFlag ==
    /\ Task2Step("retFlag", "menu")
    /\ Manual_FLAG' = IF dialog = "TimePhase" THEN 0 ELSE Manual_FLAG
    /\ dialog' = "none"
    /\ UNCHANGED <<rtcIT, Current_CutDown, plan, Crossway, reg>> /\ DialogFrame

Adjust == AdjustLoad \/ AdjustStore \/ \E o \in Ops \ {"none"} : AdjustKey(o)
EditJob == EditKey \/ EditWait \/ EditRtcOff \/ EditHalf \/ EditRest \/ RtcOn
Dialog == \/ \E d \in Dialogs \ {"none"} : OpenDialog(d)
          \/ EnterCode \/ CancelAtLock \/ OpenScreen
          \/ StartTakeOver \/ TakeOver \/ TakeOverLit
          \/ \E t \in Periods, p \in Phases : LockPeriod(t, p)
          \/ LockPhase \/ LockClear \/ LockLit \/ LockCut
          \/ LeaveScreen \/ CloseCutDown
Restart == RetReset \/ RetJudge \/ RetCopy \/ RetCut \/ RetClear \/ RetLit \/ RetFlag

Task2 == Adjust \/ EditJob \/ Dialog \/ Restart
Interrupt == RTC_IRQHandler \/ TIM2_IRQHandler \/ OscillatorFails

Next == Interrupt \/ Task1 \/ Task2

Spec == Init /\ [][Next]_vars

\* The timers keep interrupting, a second that ends while its interrupt is
\* disabled interrupts as soon as it is enabled (SECF stays set), task1 is the
\* highest-priority task, task2 gets the processor whenever task1 blocks and
\* its wait loop samples far more often than the timers tick.
FinishesRuns == AdjustLoad \/ AdjustStore \/ EditRtcOff \/ EditHalf \/ EditRest
                \/ RtcOn \/ TakeOver \/ TakeOverLit \/ LockPhase \/ LockClear
                \/ LockLit \/ LockCut \/ Restart
Fairness ==
    /\ SF_vars(RTC_IRQHandler) /\ SF_vars(TIM2_IRQHandler)
    /\ WF_vars(Task1)
    /\ SF_vars(EditWait) /\ SF_vars(FinishesRuns)

FairSpec == Spec /\ Fairness

-----------------------------------------------------------------------------
(* Properties *)

\* The operator never leaves a restart half done under an automatic cycle:
\* the password screens are not left with KEY6 and the lamp test is not used.
NoRestartWhileAutomatic == Uses \cap {"cancel", "LEDCheck"} = {}

\* task1 only ever times and lights a phase that the running table has
\* (main.c:184-200 index Phase_OneShot without a check).
PhaseInTable ==
    Manual_FLAG = 0 => Current_PhaseTable < Phase_OneShot.Phase_Number

\* The schedule as of the last edit that was complete.
Committed == IF t2 = "rest" THEN job.before ELSE my_Schedule

Cycle == INSTANCE CycleSnapshot WITH
    schedule <- Committed,
    running  <- Phase_OneShot,
    pos      <- IF Manual_FLAG = 0 THEN Current_PhaseTable ELSE 0,
    manual   <- Manual_FLAG = 1

\* Phases are served in order and a cycle starts with one whole table of a
\* schedule that no edit was in the middle of (main.c:184-198 against the
\* wait loops and RTC_ITConfig of the edit functions).
ImplementsCycle == Cycle!Spec

\* An adjustment lands in 6..CutMax and never touches a phase whose flashing
\* or yellow stage has begun, although task1 may count between the test, the
\* load and the store (KEY_OP.c:400-401, RA8806_CTRL.c:1408-1413).
AdjustKeepsClearance ==
    [][t2 = "store" /\ t2' # "store"
         => Current_CutDown >= 6 /\ Current_CutDown' \in 6 .. CutMax]_vars

\* With the cycle taken over, no second is shown from arrays that are half
\* written (RTC_ITConfig around RA8806_CTRL.c:1533 and 1568).  The half second
\* the last second has armed may still be (main.c:175, LED_OP.c:315-351): its
\* mask stays only until the next signal, which is shown from whole arrays.
\* The restart at RA8806_CTRL.c:1630 leaves the interrupt on and promises
\* neither.
NeverLitHalfway ==
    [][t2 # "retLit" /\ street' # street =>
         /\ lamps' # lamps => lamps'.of.whole
         /\ ~mask.of.whole => mask'.of.whole]_vars

\* What seconds show leaves a row only through its yellow stage
\* (LED_OP.c:287-298).
GreenThenYellow ==
    [][lamps'.of # lamps.of /\ lamps.of # Whole(NoLamps) => lamps.yellow]_vars

\* An edit that was started is finished: its wait loop does not spin forever.
EditEnds == t2 = "waitCycle" ~> t2 = "menu"

\* The countdown keeps reaching zero, through any number of edits, unless the
\* operator holds the adjusting keys for ever: no edit and no order of
\* interrupts stops the cycle.
CycleGoesOn == []<>(Current_CutDown = 0 /\ t1 # "deleted") \/ []<>(t2 = "store")

\* main.c:187: a cycle ends in the last phase of its table.
CycleEndsInLastPhase ==
    [][Current_CutDown = 0 /\ Manual_FLAG = 0 /\ t1 = "got" /\ traffic_signal = 2
         /\ Current_PhaseTable >= Phase_OneShot.Phase_Number - 1 /\ t1' = "pend"
         => Current_PhaseTable = Phase_OneShot.Phase_Number - 1]_vars

\* A lock lights the phase chosen last, as the running copy has it, wherever
\* task1 and the interrupts fall into it: LED_Interpretation ignores the
\* period it is asked for (LED_OP.c:144-162), so the row is the chosen
\* period's where the two tables agree, and only there.
LockShowsRunning ==
    t2 = "lockCut" => Crossway = Whole(Phase_OneShot.Crossway_LED[Current_PhaseTable])

\* RA8806_CTRL.c:1524: KEY5 locks the chosen period and phase.
LockShowsChosen ==
    [][t2 = "lockLit" /\ t2' = "lockCut"
         => Crossway' = Whole(my_Schedule.PhaseTable[Current_TimeTable]
                                  .Crossway_LED[Current_PhaseTable])]_vars
=============================================================================

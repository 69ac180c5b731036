----------------------- MODULE TrafficControl_proofs -----------------------
(***************************************************************************)
(* Proofs about TrafficControl, for every schedule and every size.  The    *)
(* first part needs nothing of the operator; the second assumes that no    *)
(* restart runs under an automatic cycle (NoRestartWhileAutomatic); the    *)
(* third is about the lamps: arrays half written, the yellow stage (under  *)
(* AutomaticInTime) and what a lock lights.                                *)
(***************************************************************************)
EXTENDS TrafficControl, TLAPS

-----------------------------------------------------------------------------
(* The inductive invariant of the first part *)

\* A tick task1 has still to work off.
Pending == t1 = "got" \/ mbox

\* Inside a short run of task2 at most one tick is on its way, and if there
\* is one it is the one the run may see.
WindowInv ==
    t2 \in Window /\ t1 # "deleted" =>
        (Pending => tickSpent) /\ ~(t1 = "got" /\ mbox)

\* The countdown an adjustment may still meet after its test succeeded.
Least(o) == CASE o = "dec" -> 7 [] o = "dec10" -> 16 [] OTHER -> 6
Most(o)  == CASE o \in {"inc", "incdec"} -> CutMax - 1
              [] o = "inc10"             -> CutMax - 10
              [] OTHER                   -> CutMax

AdjustInv ==
    t2 \in {"load", "store"} =>
        /\ op # "none"
        /\ Current_CutDown \in Least(op) .. Most(op)
        /\ \/ t1 = "deleted"
           \/ Current_CutDown > Least(op)
           \/ tickSpent /\ ~Pending
        /\ t2 = "store" => reg \in Least(op) .. Most(op)

\* The argument of a half-done LED_Interpretation is a phase index, and a
\* restart copies a period in use.
RegInv ==
    /\ t2 \in {"takeOverLit", "lockPhase", "lockLit", "retLit"} => reg \in Phases
    /\ t2 = "retCopy" => Current_TimeTable < my_Schedule.TimeTable_Number

\* Every schedule in sight can be run.
RunInv ==
    /\ Runnable(my_Schedule) /\ Runnable(job.half) /\ Runnable(job.after)
    /\ Phase_OneShot.Phase_Number >= 1

Inv == TypeOK /\ WindowInv /\ AdjustInv /\ RegInv /\ RunInv

-----------------------------------------------------------------------------
(* Lemmas about schedules *)

\* Reading a phase table out of a schedule, and a phase out of a table.
LEMMA ScheduleParts ==
    ASSUME NEW s \in Schedules, NEW t \in Periods
    PROVE  /\ s.TimeTable_Number \in 1 .. MaxPeriods
           /\ s.PhaseTable[t] \in PhaseTables
BY DEF Schedules

LEMMA TableParts ==
    ASSUME NEW T \in PhaseTables, NEW p \in Phases
    PROVE  /\ T.Phase_Number \in 0 .. MaxPhases
           /\ T.Last_Time[p] \in 0 .. CutMax
           /\ T.Crossway_LED[p] \in Rows
BY DEF PhaseTables

LEMMA FirstIndices == 0 \in Periods /\ 0 \in Phases
BY SizesAssumption DEF Periods, Phases

\* What the arrays hold while a row is interpreted, and after.
LEMMA PicturesTyped ==
    ASSUME NEW r \in Rows
    PROVE  Whole(r) \in Pictures /\ Part(r) \in Pictures
BY DEF Whole, Part, Pictures

LEMMA NoMaskTyped == NoMask \in [of : Pictures, stage : MaskStages]
BY RowsAssumption, PicturesTyped DEF NoMask, MaskStages

\* The half-second display handles its signal and writes a mask.
LEMMA HalfDisplay ==
    ASSUME TypeOK, LED_HalfSec_Display
    PROVE  /\ Handle(2) /\ lamps' = lamps /\ mask'.of = Crossway
           /\ mask' \in [of : Pictures, stage : MaskStages]
BY SizesAssumption DEF LED_HalfSec_Display, TypeOK, MaskStages

\* An index below the number of periods in use is an index of the array.
LEMMA InUse ==
    ASSUME NEW s \in Schedules, NEW t \in 0 .. s.TimeTable_Number - 1
    PROVE  t \in Periods
BY SizesAssumption DEF Schedules, Periods

\* Replacing tables by tables gives a schedule.
LEMMA WithTables ==
    ASSUME NEW s \in Schedules, NEW f \in [Periods -> PhaseTables]
    PROVE  [s EXCEPT !.PhaseTable = f] \in Schedules
BY DEF Schedules

\* The table add_period leaves in the freed slot.
LEMMA FirstPhaseTyped ==
    ASSUME NEW T \in PhaseTables
    PROVE  FirstPhase(T) \in PhaseTables /\ FirstPhase(T).Phase_Number = 1
<1>1. 0 \in Phases /\ 1 \in 0 .. MaxPhases
  BY SizesAssumption DEF Phases
<1> QED
  BY <1>1, SizesAssumption, RowsAssumption DEF FirstPhase, PhaseTables

\* Putting one runnable table into a runnable schedule.
LEMMA ReplaceTable ==
    ASSUME NEW s \in Schedules, Runnable(s), NEW t \in Periods,
           NEW T \in PhaseTables, T.Phase_Number >= 1
    PROVE  /\ [s EXCEPT !.PhaseTable[t] = T] \in Schedules
           /\ Runnable([s EXCEPT !.PhaseTable[t] = T])
BY DEF Schedules, Runnable

\* What a phase edit writes, half done and done, is a runnable schedule.
LEMMA PhaseJobsTyped ==
    ASSUME my_Schedule \in Schedules, Runnable(my_Schedule), NEW j \in PhaseJobs
    PROVE  /\ j \in [before : Schedules, half : Schedules, after : Schedules]
           /\ Runnable(j.half) /\ Runnable(j.after)
<1>1. PICK t \in 0 .. my_Schedule.TimeTable_Number - 1, T \in Tables :
        j = [before |-> my_Schedule,
             half   |-> [my_Schedule EXCEPT !.PhaseTable[t] =
                           [@ EXCEPT !.Crossway_LED = T.Crossway_LED]],
             after  |-> [my_Schedule EXCEPT !.PhaseTable[t] = T]]
  BY DEF PhaseJobs
<1> DEFINE Mixed == [my_Schedule.PhaseTable[t] EXCEPT !.Crossway_LED = T.Crossway_LED]
<1>2. t \in Periods
  BY InUse
<1>3. T \in PhaseTables /\ T.Phase_Number >= 1
  BY TablesAssumption
<1>4. Mixed \in PhaseTables /\ Mixed.Phase_Number >= 1
  <2>1. my_Schedule.PhaseTable[t] \in PhaseTables
    BY <1>2, ScheduleParts
  <2>2. my_Schedule.PhaseTable[t].Phase_Number >= 1
    BY DEF Runnable
  <2> QED
    BY <2>1, <2>2, <1>3 DEF PhaseTables
<1>5. [my_Schedule EXCEPT !.PhaseTable[t] =
         [@ EXCEPT !.Crossway_LED = T.Crossway_LED]]
        = [my_Schedule EXCEPT !.PhaseTable[t] = Mixed]
  OBVIOUS
<1>6. /\ [my_Schedule EXCEPT !.PhaseTable[t] = Mixed] \in Schedules
      /\ Runnable([my_Schedule EXCEPT !.PhaseTable[t] = Mixed])
  BY <1>2, <1>4, ReplaceTable
<1>7. /\ [my_Schedule EXCEPT !.PhaseTable[t] = T] \in Schedules
      /\ Runnable([my_Schedule EXCEPT !.PhaseTable[t] = T])
  BY <1>2, <1>3, ReplaceTable
<1> QED
  BY <1>1, <1>5, <1>6, <1>7

\* The same for add_period.
LEMMA AddPeriodJobsTyped ==
    ASSUME my_Schedule \in Schedules, Runnable(my_Schedule), NEW j \in AddPeriodJobs
    PROVE  /\ j \in [before : Schedules, half : Schedules, after : Schedules]
           /\ Runnable(j.half) /\ Runnable(j.after)
<1> DEFINE n == my_Schedule.TimeTable_Number
           Up(k) == [my_Schedule EXCEPT !.PhaseTable =
                       [t \in Periods |-> IF t \in k + 1 .. n THEN @[t - 1] ELSE @[t]]]
<1>1. n < MaxPeriods
  BY DEF AddPeriodJobs
<1>2. PICK i \in 0 .. n :
        j = [before |-> my_Schedule,
             half   |-> Up(i),
             after  |-> [TimeTable_Number |-> n + 1,
                         PhaseTable |-> [Up(i).PhaseTable EXCEPT ![i] = FirstPhase(@)]]]
  BY <1>1 DEF AddPeriodJobs
<1> DEFINE tabs == my_Schedule.PhaseTable
           up == [t \in Periods |-> IF t \in i + 1 .. n THEN tabs[t - 1] ELSE tabs[t]]
           after == [TimeTable_Number |-> n + 1,
                     PhaseTable |-> [up EXCEPT ![i] = FirstPhase(@)]]
<1>3. n \in 1 .. MaxPeriods /\ i \in Periods /\ tabs \in [Periods -> PhaseTables]
  BY <1>1, SizesAssumption DEF Schedules, Periods
<1>4. \A t \in 0 .. n - 1 : tabs[t].Phase_Number >= 1
  BY DEF Runnable
<1>5. up \in [Periods -> PhaseTables]
  BY <1>3, SizesAssumption DEF Periods
<1>6. \A t \in 0 .. n : t # i => up[t].Phase_Number >= 1
  BY <1>1, <1>3, <1>4, SizesAssumption DEF Periods
<1>7. Up(i) = [TimeTable_Number |-> n, PhaseTable |-> up]
  BY <1>3 DEF Schedules
<1>9. Up(i) \in Schedules /\ Runnable(Up(i))
  <2>1. Up(i) \in Schedules
    BY <1>3, <1>5, <1>7 DEF Schedules
  <2>2. \A t \in 0 .. n - 1 : up[t].Phase_Number >= 1
    BY <1>3, <1>4, SizesAssumption DEF Periods
  <2> QED
    BY <2>1, <2>2, <1>7 DEF Runnable
<1>10. after \in Schedules /\ Runnable(after)
  <2>1. FirstPhase(up[i]) \in PhaseTables /\ FirstPhase(up[i]).Phase_Number = 1
    BY <1>3, <1>5, FirstPhaseTyped
  <2>2. after.PhaseTable \in [Periods -> PhaseTables]
    BY <2>1, <1>5
  <2>3. after \in Schedules
    BY <2>2, <1>1, <1>3, SizesAssumption DEF Schedules
  <2>4. \A t \in 0 .. n : after.PhaseTable[t].Phase_Number >= 1
    <3> SUFFICES ASSUME NEW t \in 0 .. n
                 PROVE  after.PhaseTable[t].Phase_Number >= 1
      OBVIOUS
    <3>1. t \in Periods
      BY <1>1, <1>3, SizesAssumption DEF Periods
    <3> HIDE DEF up, n
    <3>2. CASE t = i
      BY <3>1, <3>2, <2>1, <1>5
    <3>3. CASE t # i
      BY <3>1, <3>3, <1>5, <1>6
    <3> QED
      BY <3>2, <3>3
  <2> QED
    BY <2>3, <2>4, <1>3 DEF Runnable
<1> QED
  BY <1>2, <1>7, <1>9, <1>10

\* The same for del_period.
LEMMA DelPeriodJobsTyped ==
    ASSUME my_Schedule \in Schedules, Runnable(my_Schedule), NEW j \in DelPeriodJobs
    PROVE  /\ j \in [before : Schedules, half : Schedules, after : Schedules]
           /\ Runnable(j.half) /\ Runnable(j.after)
<1> DEFINE n == my_Schedule.TimeTable_Number
           Down(k) == [my_Schedule EXCEPT !.PhaseTable =
                         [t \in Periods |-> IF t \in k .. n - 3 THEN @[t + 1] ELSE @[t]]]
<1>1. n > 1
  BY DEF DelPeriodJobs
<1>2. PICK i \in 0 .. n - 1 :
        j = [before |-> my_Schedule,
             half   |-> Down(i),
             after  |-> [TimeTable_Number |-> n - 1,
                         PhaseTable |-> Down(i).PhaseTable]]
  BY <1>1 DEF DelPeriodJobs
<1> DEFINE tabs == my_Schedule.PhaseTable
           down == [t \in Periods |-> IF t \in i .. n - 3 THEN tabs[t + 1] ELSE tabs[t]]
<1>3. n \in 1 .. MaxPeriods /\ tabs \in [Periods -> PhaseTables]
  BY DEF Schedules
<1>4. \A t \in 0 .. n - 1 : tabs[t].Phase_Number >= 1
  BY DEF Runnable
<1>5. down \in [Periods -> PhaseTables]
  BY <1>3, SizesAssumption DEF Periods
<1>6. \A t \in 0 .. n - 1 : down[t].Phase_Number >= 1
  BY <1>3, <1>4, SizesAssumption DEF Periods
<1>7. Down(i) = [TimeTable_Number |-> n, PhaseTable |-> down]
  BY <1>3 DEF Schedules
<1>9. Down(i) \in Schedules /\ Runnable(Down(i))
  BY <1>3, <1>5, <1>6, <1>7 DEF Schedules, Runnable
<1>10. /\ [TimeTable_Number |-> n - 1, PhaseTable |-> down] \in Schedules
       /\ Runnable([TimeTable_Number |-> n - 1, PhaseTable |-> down])
  BY <1>1, <1>3, <1>5, <1>6, SizesAssumption DEF Schedules, Runnable
<1> QED
  BY <1>2, <1>7, <1>9, <1>10


-----------------------------------------------------------------------------
(* The invariant holds initially and every step keeps it                   *)

LEMMA InitInv == Init => Inv
<1> SUFFICES ASSUME Init PROVE Inv
  OBVIOUS
<1>1. InitSchedule \in Schedules /\ Runnable(InitSchedule)
  BY InitAssumption
<1>2. Current_TimeTable \in Periods /\ 0 \in Phases
  BY <1>1, InUse, FirstIndices DEF Init
<1>3. Phase_OneShot \in PhaseTables /\ Phase_OneShot.Phase_Number >= 1
  BY <1>1, <1>2, ScheduleParts DEF Init, Runnable
<1>4. Current_CutDown \in 0 .. CutMax /\ Crossway \in Pictures
  BY <1>2, <1>3, TableParts, PicturesTyped DEF Init
<1>6. lamps \in [of : Pictures, yellow : BOOLEAN] /\ mask \in [of : Pictures, stage : MaskStages]
  BY RowsAssumption, PicturesTyped, NoMaskTyped DEF Init
<1>5. TypeOK
  BY <1>1, <1>6, <1>2, <1>3, <1>4, RowsAssumption, SizesAssumption
     DEF Init, TypeOK, Stages, KeyStages, Ops, Dialogs, NoJob
<1> QED
  BY <1>1, <1>3, <1>5
     DEF Init, Inv, WindowInv, AdjustInv, RegInv, RunInv, Window, NoJob

LEMMA InterruptInv == Inv /\ Interrupt => Inv'
<1> SUFFICES ASSUME Inv, Interrupt PROVE Inv'
  OBVIOUS
<1> USE SizesAssumption DEF Inv, TypeOK, RunInv, RegInv
<1>1. ASSUME NEW v \in {1, 2}, PostSignal(v), armed' \in BOOLEAN
      PROVE  Inv'
  <2>1. TypeOK' /\ RunInv' /\ RegInv'
    BY <1>1 DEF PostSignal, plan, street, screen
  <2>2. WindowInv'
    BY <1>1 DEF PostSignal, screen, WindowInv, Pending
  <2>3. AdjustInv'
    BY <1>1 DEF PostSignal, screen, WindowInv, AdjustInv, Pending, Window, Least, Most
  <2> QED
    BY <2>1, <2>2, <2>3
<1>2. CASE RTC_IRQHandler
  BY <1>1, <1>2 DEF RTC_IRQHandler
<1>3. CASE TIM2_IRQHandler
  BY <1>1, <1>3 DEF TIM2_IRQHandler
<1>4. CASE OscillatorFails
  <2> USE <1>4 DEF OscillatorFails, mail, plan, street, screen
  <2>1. rtcAlive' \in BOOLEAN
    OBVIOUS
  <2>2. TypeOK'
    BY <2>1
  <2>3. RunInv' /\ RegInv'
    OBVIOUS
  <2>4. WindowInv' /\ AdjustInv'
    BY DEF WindowInv, AdjustInv, Pending, Least, Most
  <2> QED
    BY <2>2, <2>3, <2>4
<1> QED
  BY <1>2, <1>3, <1>4 DEF Interrupt

LEMMA Task1Inv == Inv /\ Task1 => Inv'
<1> SUFFICES ASSUME Inv, Task1 PROVE Inv'
  OBVIOUS
<1> USE SizesAssumption DEF Inv, TypeOK, RunInv, RegInv, mail, ticks, plan, street, screen
<1>1. CASE TakeMessage
  <2>1. TypeOK' /\ RunInv' /\ RegInv'
    BY <1>1 DEF TakeMessage
  <2>2. WindowInv'
    BY <1>1 DEF TakeMessage, WindowInv, Pending
  <2>3. AdjustInv'
    BY <1>1 DEF TakeMessage, AdjustInv, Pending, Least, Most
  <2> QED
    BY <2>1, <2>2, <2>3
<1>2. CASE PendTimeout
  <2>1. TypeOK' /\ RunInv' /\ RegInv'
    BY <1>2 DEF PendTimeout
  <2>2. WindowInv' /\ AdjustInv'
    BY <1>2 DEF PendTimeout, WindowInv, AdjustInv, Pending, Least, Most
  <2> QED
    BY <2>1, <2>2
<1>3. ASSUME NEW v \in {1, 2}, Handle(v)
      PROVE  WindowInv'
  BY <1>3 DEF Handle, WindowInv, Pending
<1>4. CASE LED_Sec_Display
  <2>0. lamps' \in [of : Pictures, yellow : BOOLEAN] /\ mask' \in [of : Pictures, stage : MaskStages]
    BY <1>4, NoMaskTyped DEF LED_Sec_Display
  <2>1. TypeOK' /\ RunInv' /\ RegInv'
    BY <1>4, <2>0 DEF LED_Sec_Display, Handle
  <2>2. AdjustInv'
    BY <1>4 DEF LED_Sec_Display, Handle, WindowInv, AdjustInv, Pending, Window, Least, Most
  <2> QED
    BY <1>3, <1>4, <2>1, <2>2 DEF LED_Sec_Display
<1>10. ASSUME LED_HalfSec_Display
       PROVE  /\ Handle(2) /\ lamps' \in [of : Pictures, yellow : BOOLEAN]
              /\ mask' \in [of : Pictures, stage : MaskStages]
  BY <1>10, HalfDisplay
<1>5. CASE CountDown
  <2>0. Handle(2) /\ UNCHANGED <<plan, Crossway>> /\ Current_CutDown > 0
        /\ Current_CutDown' = Current_CutDown - 1
    BY <1>5, <1>10 DEF CountDown
  <2>1. TypeOK' /\ RunInv' /\ RegInv'
    BY <1>5, <1>10, <2>0 DEF CountDown, Handle
  <2>2. AdjustInv'
    BY <2>0 DEF Handle, WindowInv, AdjustInv, Pending, Window, Least, Most
  <2> QED
    BY <1>3, <2>0, <2>1, <2>2
<1>6. ASSUME NEW v \in {1, 2}, Handle(v), Current_CutDown = 0
      PROVE  AdjustInv'
  BY <1>6 DEF Handle, AdjustInv, Least, Most
<1>7. CASE NextPhase
  <2>1. Current_PhaseTable' \in Phases
    BY <1>7 DEF NextPhase, Phases, PhaseTables
  <2>2. TypeOK' /\ RunInv' /\ RegInv'
    BY <1>7, <1>10, <2>1, TableParts, PicturesTyped DEF NextPhase, Handle
  <2> QED
    BY <1>3, <1>6, <1>7, <1>10, <2>2 DEF NextPhase
<1>8. CASE NewCycle
  <2>1. Current_TimeTable' \in Periods /\ 0 \in Phases
    BY <1>8, InUse, FirstIndices DEF NewCycle, Time_JudgeTimeTable
  <2>2. Phase_OneShot' \in PhaseTables
    BY <1>8, <2>1, ScheduleParts DEF NewCycle
  <2>3. Phase_OneShot'.Phase_Number >= 1
    BY <1>8 DEF NewCycle, Time_JudgeTimeTable, Runnable
  <2>4. TypeOK' /\ RunInv' /\ RegInv'
    BY <1>8, <1>10, <2>1, <2>2, <2>3, TableParts, ScheduleParts, PicturesTyped
       DEF NewCycle, Handle, Time_JudgeTimeTable
  <2> QED
    BY <1>3, <1>6, <1>8, <1>10, <2>4 DEF NewCycle
<1>9. CASE RepeatPhase
  <2>1. Current_CutDown' \in 0 .. CutMax
    BY <1>9, ScheduleParts, TableParts DEF RepeatPhase
  <2>2. TypeOK' /\ RunInv' /\ RegInv'
    BY <1>9, <1>10, <2>1 DEF RepeatPhase, Handle
  <2> QED
    BY <1>3, <1>6, <1>9, <1>10, <2>2 DEF RepeatPhase
<1> QED
  BY <1>1, <1>2, <1>4, <1>5, <1>7, <1>8, <1>9 DEF Task1

\* task2 runs only while nothing is pending, so a run that begins or goes on
\* starts its next step with a clean window.
LEMMA Task2Window ==
    ASSUME NEW from, NEW to, Task2Step(from, to), TypeOK
    PROVE  WindowInv' /\ (t1' # "deleted" => ~Pending')
BY DEF Task2Step, Task2Runs, mail, WindowInv, Pending, TypeOK

\* The test of an adjustment leaves room for one more tick.
LEMMA MayAdjustRoom ==
    ASSUME NEW o \in Ops \ {"none"}, NEW cut \in 0 .. CutMax, MayAdjust(o, cut)
    PROVE  cut > Least(o) /\ cut <= Most(o)
<1> USE SizesAssumption DEF MayAdjust, Least, Most
<1>1. CASE o = "inc"
  BY <1>1
<1>2. CASE o = "dec"
  BY <1>2
<1>3. CASE o = "inc10"
  BY <1>3
<1>4. CASE o = "dec10"
  BY <1>4
<1>5. CASE o = "incdec"
  BY <1>5
<1> QED
  BY <1>1, <1>2, <1>3, <1>4, <1>5 DEF Ops

\* The step's own flag is a Boolean.
LEMMA Task2Flag ==
    ASSUME NEW from, NEW to, Task2Step(from, to), TypeOK
    PROVE  tickSpent' \in BOOLEAN
BY Zenon DEF Task2Step

LEMMA AdjustKeepsInv == Inv /\ Adjust => Inv'
<1> SUFFICES ASSUME Inv, Adjust PROVE Inv'
  OBVIOUS
<1> USE SizesAssumption
    DEF Inv, TypeOK, RunInv, RegInv, mail, ticks, plan, street, screen, AdjustFrame,
        Task2Step, Window, Stages, KeyStages, Home
<1>1. ASSUME NEW o \in Ops \ {"none"}, AdjustKey(o)
      PROVE  Inv'
  <2>1. WindowInv' /\ (t1' # "deleted" => ~Pending')
    BY <1>1, Task2Window DEF AdjustKey
  <2>2. TypeOK' /\ RunInv' /\ RegInv'
    BY <1>1 DEF AdjustKey
  <2>3. Current_CutDown > Least(o) /\ Current_CutDown <= Most(o)
    BY <1>1, MayAdjustRoom DEF AdjustKey
  <2>4. Least(o) \in Int /\ Most(o) \in Int
    BY DEF Least, Most
  <2>5. AdjustInv'
    BY <1>1, <2>1, <2>3, <2>4 DEF AdjustKey, AdjustInv
  <2> QED
    BY <2>1, <2>2, <2>5
<1>2. CASE AdjustLoad
  <2>1. WindowInv' /\ (t1' # "deleted" => ~Pending')
    BY <1>2, Task2Window DEF AdjustLoad
  <2>2. TypeOK' /\ RunInv' /\ RegInv'
    BY <1>2 DEF AdjustLoad
  <2>3. AdjustInv'
    BY <1>2, <2>1 DEF AdjustLoad, AdjustInv, Task2Runs, Pending, Least, Most
  <2> QED
    BY <2>1, <2>2, <2>3
<1>3. CASE AdjustStore
  <2> DEFINE again == op = "incdec" /\ MayAdjust("dec", Current_CutDown')
  <2>1. /\ Current_CutDown' \in 6 .. CutMax
        /\ op # "none"
    BY <1>3 DEF AdjustStore, AdjustInv, Delta, Least, Most, Ops
  <2>2. Task2Step("store", IF again THEN "load" ELSE Home)
    BY <1>3 DEF AdjustStore
  <2>3. WindowInv' /\ (t1' # "deleted" => ~Pending')
    BY <2>2, Task2Window
  <2>4. TypeOK' /\ RunInv' /\ RegInv'
    BY <1>3, <2>1 DEF AdjustStore, Ops
  <2>5. AdjustInv'
    BY <1>3, <2>1, <2>3 DEF AdjustStore, AdjustInv, MayAdjust, Least, Most
  <2> QED
    BY <2>3, <2>4, <2>5
<1> QED
  BY <1>1, <1>2, <1>3 DEF Adjust

LEMMA EditKeepsInv == Inv /\ EditJob => Inv'
<1> SUFFICES ASSUME Inv, EditJob PROVE Inv'
  OBVIOUS
<1> USE DEF Inv, TypeOK, RunInv, RegInv, mail, ticks, plan, street, EditFrame, Task2Step,
            Window, Stages, KeyStages, Home
<1>1. ASSUME NEW from, NEW to, Task2Step(from, to), to \notin {"load", "store"}
      PROVE  WindowInv' /\ AdjustInv'
  BY <1>1, Task2Window DEF AdjustInv
<1>2. CASE EditKey
  <2>1. /\ job' \in [before : Schedules, half : Schedules, after : Schedules]
        /\ Runnable(job'.half) /\ Runnable(job'.after)
    BY <1>2, PhaseJobsTyped, AddPeriodJobsTyped, DelPeriodJobsTyped DEF EditKey
  <2> QED
    BY <1>1, <1>2, <2>1 DEF EditKey
<1>3. CASE EditWait
  BY <1>1, <1>3 DEF EditWait
<1>4. CASE EditRtcOff
  <2>1. rtcIT' \in BOOLEAN /\ tickSpent' \in BOOLEAN
    BY <1>4, Task2Flag DEF EditRtcOff
  <2> QED
    BY <1>1, <1>4, <2>1 DEF EditRtcOff
<1>5. CASE EditHalf
  BY <1>1, <1>5 DEF EditHalf
<1>6. CASE EditRest
  BY <1>1, <1>6 DEF EditRest, NoJob
<1>7. CASE RtcOn
  BY <1>1, <1>7 DEF RtcOn
<1> QED
  BY <1>2, <1>3, <1>4, <1>5, <1>6, <1>7 DEF EditJob

LEMMA DialogKeepsInv == Inv /\ Dialog => Inv'
<1> SUFFICES ASSUME Inv, Dialog PROVE Inv'
  OBVIOUS
<1> USE DEF Inv, TypeOK, RunInv, RegInv, mail, ticks, plan, street, DialogFrame, Task2Step,
            Window, Stages, KeyStages
<1>1. ASSUME NEW from, NEW to, Task2Step(from, to), to \notin {"load", "store"}
      PROVE  WindowInv' /\ AdjustInv'
  BY <1>1, Task2Window DEF AdjustInv
<1>2. ASSUME NEW d \in Dialogs \ {"none"}, OpenDialog(d)
      PROVE  Inv'
  BY <1>1, <1>2 DEF OpenDialog
<1>3. CASE EnterCode
  BY <1>1, <1>3 DEF EnterCode
<1>4. CASE CancelAtLock
  BY <1>1, <1>4 DEF CancelAtLock
<1>5. CASE OpenScreen
  BY <1>1, <1>5 DEF OpenScreen
<1>6. CASE StartTakeOver
  <2>1. rtcIT' \in BOOLEAN /\ tickSpent' \in BOOLEAN
    BY <1>6, Task2Flag DEF StartTakeOver
  <2> QED
    BY <1>1, <1>6, <2>1 DEF StartTakeOver
<1>7. CASE TakeOver
  BY <1>1, <1>7, TableParts, PicturesTyped, FirstIndices DEF TakeOver, ClearRow
<1>8. CASE TakeOverLit
  BY <1>1, <1>8, TableParts, PicturesTyped, FirstIndices DEF TakeOverLit, LightRow
<1>9. ASSUME NEW t \in Periods, NEW p \in Phases, LockPeriod(t, p)
      PROVE  Inv'
  BY <1>1, <1>9 DEF LockPeriod
<1>15. CASE LockPhase
  BY <1>1, <1>15, FirstIndices DEF LockPhase
<1>10. CASE LockClear
  <2>1. rtcIT' \in BOOLEAN /\ tickSpent' \in BOOLEAN
    BY <1>10, Task2Flag DEF LockClear
  <2> QED
    BY <1>1, <1>10, <2>1, TableParts, PicturesTyped DEF LockClear, ClearRow
<1>11. CASE LockLit
  BY <1>1, <1>11, TableParts, PicturesTyped, FirstIndices DEF LockLit, LightRow
<1>12. CASE LockCut
  BY <1>1, <1>12, ScheduleParts, TableParts DEF LockCut
<1>13. CASE LeaveScreen
  BY <1>1, <1>13 DEF LeaveScreen
<1>14. CASE CloseCutDown
  BY <1>1, <1>14 DEF CloseCutDown, Dialogs
<1> QED
  BY <1>2, <1>3, <1>4, <1>5, <1>6, <1>7, <1>8, <1>9, <1>10, <1>11, <1>12, <1>13,
     <1>14, <1>15 DEF Dialog

LEMMA RestartKeepsInv == Inv /\ Restart => Inv'
<1> SUFFICES ASSUME Inv, Restart PROVE Inv'
  OBVIOUS
<1> USE DEF Inv, TypeOK, RunInv, RegInv, mail, ticks, plan, street, DialogFrame, Task2Step,
            Window, Stages, KeyStages
<1>1. ASSUME NEW from, NEW to, Task2Step(from, to), to \notin {"load", "store"}
      PROVE  WindowInv' /\ AdjustInv'
  BY <1>1, Task2Window DEF AdjustInv
<1>2. CASE RetReset
  BY <1>1, <1>2, FirstIndices DEF RetReset
<1>3. CASE RetJudge
  <2>1. /\ Current_TimeTable' \in Periods
        /\ Current_TimeTable' < my_Schedule.TimeTable_Number
    BY <1>3, InUse, ScheduleParts, FirstIndices DEF RetJudge, Time_JudgeTimeTable
  <2> QED
    BY <1>1, <1>3, <2>1 DEF RetJudge
<1>4. CASE RetCopy
  <2>1. Current_TimeTable \in 0 .. my_Schedule.TimeTable_Number - 1
    BY <1>4, ScheduleParts, SizesAssumption DEF RetCopy, Periods
  <2>2. /\ my_Schedule.PhaseTable[Current_TimeTable] \in PhaseTables
        /\ my_Schedule.PhaseTable[Current_TimeTable].Phase_Number >= 1
    BY <2>1, ScheduleParts DEF Runnable
  <2> QED
    BY <1>1, <1>4, <2>2 DEF RetCopy
<1>5. CASE RetCut
  BY <1>1, <1>5, TableParts DEF RetCut
<1>6. CASE RetClear
  BY <1>1, <1>6, TableParts, PicturesTyped DEF RetClear, ClearRow
<1>7. CASE RetLit
  BY <1>1, <1>7, TableParts, PicturesTyped, FirstIndices DEF RetLit, LightRow
<1>8. CASE RetFlag
  BY <1>1, <1>8 DEF RetFlag, Dialogs
<1> QED
  BY <1>2, <1>3, <1>4, <1>5, <1>6, <1>7, <1>8 DEF Restart

LEMMA StutterInv == Inv /\ UNCHANGED vars => Inv'
BY DEF Inv, TypeOK, WindowInv, AdjustInv, RegInv, RunInv, Pending, Least, Most, vars,
       ticks, mail, plan, street, screen

LEMMA StepInv == Inv /\ [Next]_vars => Inv'
BY InterruptInv, Task1Inv, AdjustKeepsInv, EditKeepsInv, DialogKeepsInv,
   RestartKeepsInv, StutterInv DEF Next, Task2

\* Inv holds in every reachable state, whatever the operator does.
THEOREM Invariance == Spec => []Inv
BY InitInv, StepInv, PTL DEF Spec

\* Every variable keeps its type: the countdown never wraps below zero or
\* passes CutMax and no index leaves its array (main.c:164-216,
\* RA8806_CTRL.c:1402-1636, KEY_OP.c:391-425).
THEOREM TypeCorrect == Spec => []TypeOK
<1>1. Inv => TypeOK
  BY DEF Inv
<1> QED
  BY <1>1, Invariance, PTL

\* Only the store of an adjustment leaves the stage before it.
LEMMA OnlyStoreLeaves ==
    ASSUME Next, t2 = "store", t2' # "store"
    PROVE  AdjustStore
<1>1. ~Interrupt
  BY DEF Interrupt, RTC_IRQHandler, TIM2_IRQHandler, PostSignal, OscillatorFails
<1>2. ~Task1
  BY DEF Task1, TakeMessage, PendTimeout, LED_Sec_Display, CountDown, NextPhase,
         NewCycle, RepeatPhase, LED_HalfSec_Display, Handle
<1>3. ~EditJob
  BY DEF EditJob, EditKey, EditWait, EditRtcOff, EditHalf, EditRest, RtcOn, Task2Step
<1>4. ~Dialog
  BY DEF Dialog, OpenDialog, EnterCode, CancelAtLock, OpenScreen, StartTakeOver,
         TakeOver, TakeOverLit, LockPeriod, LockPhase, LockClear, LockLit, LockCut, LeaveScreen,
         CloseCutDown, Task2Step
<1>5. ~Restart
  BY DEF Restart, RetReset, RetJudge, RetCopy, RetCut, RetClear, RetLit, RetFlag,
         Task2Step
<1>6. ~AdjustLoad /\ \A o \in Ops \ {"none"} : ~AdjustKey(o)
  BY DEF AdjustLoad, AdjustKey, Task2Step, Home
<1> QED
  BY <1>1, <1>2, <1>3, <1>4, <1>5, <1>6 DEF Next, Task2, Adjust

\* A store lands in 6..CutMax and leaves a phase that is about to end alone.
LEMMA StoreLands ==
    ASSUME Inv, AdjustStore
    PROVE  Current_CutDown >= 6 /\ Current_CutDown' \in 6 .. CutMax
<1>1. reg \in Least(op) .. Most(op) /\ Current_CutDown \in Least(op) .. Most(op)
  BY DEF AdjustStore, Task2Step, Inv, AdjustInv
<1>2. op \in Ops \ {"none"}
  BY DEF AdjustStore, Task2Step, Inv, TypeOK, AdjustInv
<1> QED
  BY <1>1, <1>2, SizesAssumption DEF AdjustStore, Delta, Least, Most, Ops

\* An adjustment lands in 6..CutMax and leaves a phase that is about to end
\* alone (KEY_OP.c:400-401, RA8806_CTRL.c:1408-1413).
THEOREM AdjustmentsKeepClearance == Spec => AdjustKeepsClearance
<1>1. ASSUME Inv, [Next]_vars, t2 = "store", t2' # "store"
      PROVE  Current_CutDown >= 6 /\ Current_CutDown' \in 6 .. CutMax
  BY <1>1, OnlyStoreLeaves, StoreLands DEF vars
<1>2. Inv /\ [Next]_vars
        => [t2 = "store" /\ t2' # "store"
              => Current_CutDown >= 6 /\ Current_CutDown' \in 6 .. CutMax]_vars
  BY <1>1
<1> QED
  BY <1>2, Invariance, PTL DEF Spec, AdjustKeepsClearance

-----------------------------------------------------------------------------
(* The second part: no restart under an automatic cycle                    *)

RetRun   == {"retJudge", "retCopy", "retCut", "retClear", "retLit", "retFlag"}
HandsOn  == RetRun \cup {"takeOverLit", "lockPhase", "lockClear", "lockLit", "lockCut"}
EditRun  == {"off", "half", "rest"}

\* Where task2 can be with which function open, and when the operator has
\* the cycle.
ManualInv ==
    /\ dialog # "LEDCheck"
    /\ t2 \in {"menu", "waitCycle"} \cup EditRun => dialog = "none"
    /\ t2 \in {"load", "store"} => dialog \in {"none", "CutDown"}
    /\ t2 = "on" => dialog \in {"none", "TimePhase"}
    /\ t2 \in HandsOn \cup {"takeOver", "return"} => dialog = "TimePhase"
    /\ t2 \in {"locked", "unlocked", "cmd"} => dialog # "none"
    /\ Manual_FLAG = 1 <=> dialog = "TimePhase" /\ t2 \in HandsOn \cup {"cmd", "return", "on"}

\* While an edit writes, task1 cannot come to renew the running copy.
EditInv ==
    t2 \in EditRun => \/ t1 = "deleted"
                      \/ ~CycleMayEnd
                      \/ tickSpent /\ ~Pending

SafeInv ==
    /\ Inv
    /\ ManualInv
    /\ PhaseInTable
    /\ t2 \in RetRun => Current_PhaseTable = 0
    /\ EditInv

LEMMA InitSafe == Init => SafeInv
<1> SUFFICES ASSUME Init PROVE SafeInv
  OBVIOUS
<1>1. Inv
  BY InitInv
<1>2. Phase_OneShot.Phase_Number >= 1 /\ Phase_OneShot.Phase_Number \in Int
  BY <1>1 DEF Inv, RunInv, TypeOK, PhaseTables
<1> QED
  BY <1>1, <1>2 DEF Init, SafeInv, ManualInv, PhaseInTable, EditInv, HandsOn, RetRun,
                    EditRun

\* task1 in a state where it can reach a new cycle: no edit is writing.
LEMMA NoEditAtNewCycle ==
    ASSUME SafeInv, NewCycle
    PROVE  /\ t2 \notin EditRun
           /\ Current_PhaseTable = Phase_OneShot.Phase_Number - 1
<1>1. /\ Current_PhaseTable \in Int /\ Phase_OneShot.Phase_Number \in Int
  BY SizesAssumption DEF SafeInv, Inv, TypeOK, Phases, PhaseTables
<1>2. Current_PhaseTable = Phase_OneShot.Phase_Number - 1
  BY <1>1 DEF NewCycle, SafeInv, PhaseInTable
<1>3. CycleMayEnd
  BY <1>2 DEF NewCycle, CycleMayEnd
<1> QED
  BY <1>2, <1>3 DEF NewCycle, LED_HalfSec_Display, Handle, SafeInv, EditInv, Pending

LEMMA InterruptSafe == SafeInv /\ Interrupt => SafeInv'
<1> SUFFICES ASSUME SafeInv, Interrupt PROVE SafeInv'
  OBVIOUS
<1> USE DEF Interrupt, RTC_IRQHandler, TIM2_IRQHandler, PostSignal, OscillatorFails,
            plan, screen
<1>1. Inv'
  BY InterruptInv DEF SafeInv
<1>2. ManualInv' /\ PhaseInTable' /\ (t2 \in RetRun => Current_PhaseTable = 0)'
  BY DEF SafeInv, ManualInv, PhaseInTable
<1>3. EditInv'
  BY DEF SafeInv, Inv, TypeOK, WindowInv, EditInv, CycleMayEnd, Pending, Window, EditRun,
         mail
<1> QED
  BY <1>1, <1>2, <1>3 DEF SafeInv

LEMMA Task1Safe == SafeInv /\ Task1 => SafeInv'
<1> SUFFICES ASSUME SafeInv, Task1 PROVE SafeInv'
  OBVIOUS
<1>1. Inv'
  BY Task1Inv DEF SafeInv
<1>2. UNCHANGED <<t2, dialog, Manual_FLAG, tickSpent>>
  BY DEF Task1, TakeMessage, PendTimeout, LED_Sec_Display, CountDown, NextPhase,
         NewCycle, RepeatPhase, LED_HalfSec_Display, Handle, screen
<1>3. ManualInv'
  BY <1>2 DEF SafeInv, ManualInv
<1>4. CASE TakeMessage \/ PendTimeout \/ LED_Sec_Display
  <2>1. UNCHANGED <<plan, Current_CutDown>>
    BY <1>4 DEF TakeMessage, PendTimeout, LED_Sec_Display
  <2>2. EditInv'
    BY <1>2, <1>4, <2>1
       DEF SafeInv, EditInv, CycleMayEnd, plan, Pending, TakeMessage, PendTimeout,
           LED_Sec_Display, Handle, mail
  <2> QED
    BY <1>1, <1>2, <1>3, <2>1, <2>2 DEF SafeInv, PhaseInTable, plan
<1>5. ASSUME Handle(2)
      PROVE  EditInv'
  BY <1>2, <1>5 DEF SafeInv, Inv, WindowInv, EditInv, Handle, Pending, mail, Window, EditRun
<1>6. CASE CountDown \/ RepeatPhase
  BY <1>1, <1>2, <1>3, <1>5, <1>6
     DEF SafeInv, PhaseInTable, CountDown, RepeatPhase, LED_HalfSec_Display, plan
<1>7. Current_PhaseTable \in Int /\ Phase_OneShot.Phase_Number \in Int
  BY SizesAssumption DEF SafeInv, Inv, TypeOK, Phases, PhaseTables
<1>8. CASE NextPhase
  BY <1>1, <1>2, <1>3, <1>5, <1>7, <1>8
     DEF SafeInv, PhaseInTable, ManualInv, NextPhase, LED_HalfSec_Display, HandsOn
<1>9. CASE NewCycle
  <2>1. Phase_OneShot'.Phase_Number >= 1 /\ Phase_OneShot'.Phase_Number \in Int
    BY <1>1 DEF Inv, RunInv, TypeOK, PhaseTables
  <2> QED
    BY <1>1, <1>2, <1>3, <1>5, <1>9, <2>1
       DEF SafeInv, PhaseInTable, NewCycle, LED_HalfSec_Display
<1> QED
  BY <1>4, <1>6, <1>8, <1>9 DEF Task1

\* What a step of task2 that leaves the plan and the flag alone must show.
LEMMA QuietSafe ==
    ASSUME SafeInv, Inv', ManualInv', NEW from, NEW to, Task2Step(from, to),
           UNCHANGED <<plan, Manual_FLAG>>, to \notin EditRun \cup RetRun
    PROVE  SafeInv'
BY DEF SafeInv, PhaseInTable, EditInv, plan, Task2Step

LEMMA AdjustSafe == SafeInv /\ Adjust => SafeInv'
<1> SUFFICES ASSUME SafeInv, Adjust PROVE SafeInv'
  OBVIOUS
<1>1. Inv'
  BY AdjustKeepsInv DEF SafeInv
<1> USE DEF Home, HandsOn, RetRun, EditRun, AdjustFrame, plan
<1>2. ASSUME NEW o \in Ops \ {"none"}, AdjustKey(o)
      PROVE  SafeInv'
  <2>1. ManualInv'
    BY <1>2 DEF AdjustKey, Task2Step, SafeInv, ManualInv
  <2> QED
    BY <1>1, <1>2, <2>1, QuietSafe DEF AdjustKey
<1>3. CASE AdjustLoad
  <2>1. ManualInv'
    BY <1>3 DEF AdjustLoad, Task2Step, SafeInv, ManualInv
  <2> QED
    BY <1>1, <1>3, <2>1, QuietSafe DEF AdjustLoad
<1>4. CASE AdjustStore
  <2>1. PICK to \in {"load", Home} : Task2Step("store", to)
    BY <1>4 DEF AdjustStore
  <2>2. UNCHANGED <<plan, Manual_FLAG, dialog>>
    BY <1>4 DEF AdjustStore
  <2>3. ManualInv'
    BY <2>1, <2>2 DEF Task2Step, SafeInv, ManualInv
  <2> QED
    BY <1>1, <2>1, <2>2, <2>3, QuietSafe
<1> QED
  BY <1>2, <1>3, <1>4 DEF Adjust

LEMMA EditSafe == SafeInv /\ EditJob => SafeInv'
<1> SUFFICES ASSUME SafeInv, EditJob PROVE SafeInv'
  OBVIOUS
<1>1. Inv'
  BY EditKeepsInv DEF SafeInv
<1> USE DEF HandsOn, RetRun, EditRun, EditFrame, plan
<1>2. ManualInv'
  BY DEF EditJob, EditKey, EditWait, EditRtcOff, EditHalf, EditRest, RtcOn, Task2Step,
         Home, SafeInv, ManualInv
<1>3. PhaseInTable'
  BY DEF EditJob, EditKey, EditWait, EditRtcOff, EditHalf, EditRest, RtcOn, SafeInv,
         PhaseInTable
<1>4. EditInv'
  BY DEF EditJob, EditKey, EditWait, EditRtcOff, EditHalf, EditRest, RtcOn, Task2Step,
         Home, SafeInv, EditInv, CycleMayEnd, Pending, mail, Window
<1>5. (t2 \in RetRun => Current_PhaseTable = 0)'
  BY DEF EditJob, EditKey, EditWait, EditRtcOff, EditHalf, EditRest, RtcOn, Task2Step,
         Home
<1> QED
  BY <1>1, <1>2, <1>3, <1>4, <1>5 DEF SafeInv

LEMMA DialogSafe == NoRestartWhileAutomatic /\ SafeInv /\ Dialog => SafeInv'
<1> SUFFICES ASSUME NoRestartWhileAutomatic, SafeInv, Dialog PROVE SafeInv'
  OBVIOUS
<1>1. Inv'
  BY DialogKeepsInv DEF SafeInv
<1> USE DEF HandsOn, RetRun, EditRun, DialogFrame, plan, SafeInv, ManualInv
<1>2. ASSUME NEW d \in Dialogs \ {"none"}, OpenDialog(d)
      PROVE  SafeInv'
  <2>1. d # "LEDCheck"
    BY <1>2 DEF NoRestartWhileAutomatic, OpenDialog
  <2>2. ManualInv'
    BY <1>2, <2>1 DEF OpenDialog, Task2Step, Dialogs
  <2> QED
    BY <1>1, <1>2, <2>2, QuietSafe DEF OpenDialog
<1>3. CASE EnterCode
  <2>1. ManualInv'
    BY <1>3 DEF EnterCode, Task2Step
  <2> QED
    BY <1>1, <1>3, <2>1, QuietSafe DEF EnterCode
<1>4. CASE CancelAtLock
  BY <1>4 DEF CancelAtLock, NoRestartWhileAutomatic
<1>5. CASE OpenScreen
  <2>1. ManualInv'
    BY <1>5 DEF OpenScreen, Task2Step
  <2> QED
    BY <1>1, <1>5, <2>1, QuietSafe DEF OpenScreen
<1>6. CASE StartTakeOver
  <2>1. ManualInv'
    BY <1>6 DEF StartTakeOver, Task2Step
  <2> QED
    BY <1>1, <1>6, <2>1, QuietSafe DEF StartTakeOver
<1>7. ASSUME NEW from, NEW to, Task2Step(from, to), to \notin EditRun \cup RetRun,
             Manual_FLAG' = 1, ManualInv'
      PROVE  SafeInv'
  BY <1>1, <1>7 DEF PhaseInTable, EditInv, Task2Step
<1>8. CASE TakeOver
  <2>1. ManualInv'
    BY <1>8 DEF TakeOver, Task2Step
  <2> QED
    BY <1>7, <1>8, <2>1 DEF TakeOver
<1>9. ASSUME NEW from \in {"cmd", "takeOverLit", "lockPhase", "lockClear", "lockLit", "lockCut"},
             NEW to \in {"return", "lockPhase", "lockClear", "lockLit", "lockCut", "on"},
             Task2Step(from, to), UNCHANGED <<Manual_FLAG, dialog>>, dialog = "TimePhase"
      PROVE  SafeInv'
  <2>1. Manual_FLAG' = 1 /\ ManualInv'
    BY <1>9 DEF Task2Step
  <2> QED
    BY <1>7, <1>9, <2>1
<1>10. CASE TakeOverLit
  BY <1>9, <1>10 DEF TakeOverLit, Task2Step
<1>11. ASSUME NEW t \in Periods, NEW p \in Phases, LockPeriod(t, p)
       PROVE  SafeInv'
  BY <1>9, <1>11 DEF LockPeriod
<1>17. CASE LockPhase
  BY <1>9, <1>17 DEF LockPhase, Task2Step
<1>12. CASE LockClear
  BY <1>9, <1>12 DEF LockClear, Task2Step
<1>13. CASE LockLit
  BY <1>9, <1>13 DEF LockLit, Task2Step
<1>14. CASE LockCut
  BY <1>9, <1>14 DEF LockCut, Task2Step
<1>15. CASE LeaveScreen
  BY <1>9, <1>15 DEF LeaveScreen
<1>16. CASE CloseCutDown
  <2>1. ManualInv'
    BY <1>16 DEF CloseCutDown, Task2Step
  <2> QED
    BY <1>1, <1>16, <2>1, QuietSafe DEF CloseCutDown
<1> QED
  BY <1>2, <1>3, <1>4, <1>5, <1>6, <1>8, <1>10, <1>11, <1>12, <1>13, <1>14, <1>15,
     <1>16, <1>17 DEF Dialog

LEMMA RestartSafe == SafeInv /\ Restart => SafeInv'
<1> SUFFICES ASSUME SafeInv, Restart PROVE SafeInv'
  OBVIOUS
<1>1. Inv'
  BY RestartKeepsInv DEF SafeInv
<1> USE DEF HandsOn, RetRun, EditRun, DialogFrame, plan, SafeInv, ManualInv,
            PhaseInTable, EditInv, Task2Step
<1>2. CASE RetReset
  BY <1>1, <1>2 DEF RetReset
<1>3. CASE RetJudge
  BY <1>1, <1>3 DEF RetJudge
<1>4. CASE RetCopy
  BY <1>1, <1>4 DEF RetCopy
<1>5. CASE RetCut
  BY <1>1, <1>5 DEF RetCut
<1>6. CASE RetClear
  BY <1>1, <1>6 DEF RetClear
<1>7. CASE RetLit
  BY <1>1, <1>7 DEF RetLit
<1>8. CASE RetFlag
  <2>1. Phase_OneShot'.Phase_Number >= 1 /\ Phase_OneShot'.Phase_Number \in Int
    BY <1>1 DEF Inv, RunInv, TypeOK, PhaseTables
  <2> QED
    BY <1>1, <1>8, <2>1 DEF RetFlag
<1> QED
  BY <1>2, <1>3, <1>4, <1>5, <1>6, <1>7, <1>8 DEF Restart

LEMMA StepSafe == NoRestartWhileAutomatic /\ SafeInv /\ [Next]_vars => SafeInv'
<1>1. SafeInv /\ UNCHANGED vars => SafeInv'
  BY StutterInv DEF SafeInv, ManualInv, PhaseInTable, EditInv, CycleMayEnd, Pending,
                    vars, ticks, mail, plan, screen
<1> QED
  BY <1>1, InterruptSafe, Task1Safe, AdjustSafe, EditSafe, DialogSafe, RestartSafe
     DEF Next, Task2

THEOREM Safety == NoRestartWhileAutomatic => (Spec => []SafeInv)
<1> SUFFICES ASSUME NoRestartWhileAutomatic PROVE Spec => []SafeInv
  OBVIOUS
<1>1. Init => SafeInv
  BY InitSafe
<1>2. SafeInv /\ [Next]_vars => SafeInv'
  BY StepSafe
<1> QED
  BY <1>1, <1>2, PTL DEF Spec

\* In automatic mode the phase index always lies inside the running table
\* (main.c:184-200).
THEOREM PhaseStaysInTable == NoRestartWhileAutomatic => (Spec => []PhaseInTable)
<1>1. SafeInv => PhaseInTable
  BY DEF SafeInv
<1> QED
  BY <1>1, Safety, PTL

\* Restarts under an automatic cycle are the only way to a cycle that does not
\* end in the last phase of its table (main.c:187).
THEOREM EndsInLastPhase == NoRestartWhileAutomatic => (Spec => CycleEndsInLastPhase)
<1> SUFFICES ASSUME NoRestartWhileAutomatic PROVE Spec => CycleEndsInLastPhase
  OBVIOUS
<1>1. ASSUME SafeInv, Manual_FLAG = 0, Current_PhaseTable >= Phase_OneShot.Phase_Number - 1
      PROVE  Current_PhaseTable = Phase_OneShot.Phase_Number - 1
  BY <1>1, SizesAssumption DEF SafeInv, PhaseInTable, Inv, TypeOK, Phases, PhaseTables
<1>2. SafeInv
        => [Current_CutDown = 0 /\ Manual_FLAG = 0 /\ t1 = "got" /\ traffic_signal = 2
              /\ Current_PhaseTable >= Phase_OneShot.Phase_Number - 1 /\ t1' = "pend"
              => Current_PhaseTable = Phase_OneShot.Phase_Number - 1]_vars
  BY <1>1
<1> QED
  BY <1>2, Safety, PTL DEF Spec, CycleEndsInLastPhase

-----------------------------------------------------------------------------
(* The controller implements the promise of CycleSnapshot                  *)

LEMMA InitCycle == Init => Cycle!Init
<1> SUFFICES ASSUME Init PROVE Cycle!Init
  OBVIOUS
<1>1. Committed = InitSchedule
  BY DEF Init, Committed
<1> QED
  BY <1>1 DEF Init, Cycle!Init, Cycle!Stored

\* A step that leaves the running copy and the automatic position alone is an
\* edit of the stored schedule or nothing at all.
LEMMA QuietCycle ==
    ASSUME UNCHANGED <<Phase_OneShot, Manual_FLAG>>,
           Manual_FLAG = 0 => UNCHANGED Current_PhaseTable
    PROVE  Cycle!Next
BY DEF Cycle!Next, Cycle!Edit

LEMMA Task1Cycle == SafeInv /\ Task1 => Cycle!Next
<1> SUFFICES ASSUME SafeInv, Task1 PROVE Cycle!Next
  OBVIOUS
<1>1. CASE TakeMessage \/ PendTimeout \/ LED_Sec_Display \/ CountDown \/ RepeatPhase
  BY <1>1, QuietCycle DEF TakeMessage, PendTimeout, LED_Sec_Display, CountDown,
                          RepeatPhase, LED_HalfSec_Display, Handle, plan
<1>2. CASE NextPhase
  <2>1. Committed' = Committed
    BY <1>2 DEF NextPhase, LED_HalfSec_Display, Handle, Committed, screen
  <2> QED
    BY <1>2, <2>1 DEF NextPhase, LED_HalfSec_Display, Handle, Cycle!Next, Cycle!NextPhase
<1>3. CASE NewCycle
  <2>1. t2 # "rest" /\ Current_PhaseTable = Phase_OneShot.Phase_Number - 1
    BY <1>3, NoEditAtNewCycle DEF EditRun
  <2>2. Committed' = Committed /\ Committed = my_Schedule
    BY <1>3, <2>1 DEF NewCycle, LED_HalfSec_Display, Handle, Committed, screen
  <2>3. Phase_OneShot' \in Cycle!Stored
    BY <1>3, <2>2 DEF NewCycle, Time_JudgeTimeTable, Cycle!Stored
  <2> QED
    BY <1>3, <2>1, <2>2, <2>3 DEF NewCycle, LED_HalfSec_Display, Handle, Cycle!Next, Cycle!NewCycle
<1> QED
  BY <1>1, <1>2, <1>3 DEF Task1

LEMMA DialogCycle == SafeInv /\ Dialog => Cycle!Next
<1> SUFFICES ASSUME SafeInv, Dialog PROVE Cycle!Next
  OBVIOUS
<1>1. CASE TakeOver
  <2>1. Manual_FLAG = 0
    BY <1>1 DEF TakeOver, Task2Step, SafeInv, ManualInv, HandsOn, RetRun, Inv, TypeOK
  <2>2. Committed' = Committed
    BY <1>1 DEF TakeOver, Task2Step, DialogFrame, Committed
  <2> QED
    BY <1>1, <2>1, <2>2 DEF TakeOver, plan, Cycle!Next, Cycle!TakeOver
<1>2. CASE LockPhase
  <2>1. Manual_FLAG = 1
    BY <1>2 DEF LockPhase, Task2Step, SafeInv, ManualInv, HandsOn
  <2> QED
    BY <1>2, <2>1, QuietCycle DEF LockPhase
<1>4. ASSUME NEW t \in Periods, NEW p \in Phases, LockPeriod(t, p)
      PROVE  Cycle!Next
  BY <1>4, QuietCycle DEF LockPeriod
<1>3. CASE Dialog /\ ~TakeOver /\ ~LockPhase
             /\ ~(\E t \in Periods, p \in Phases : LockPeriod(t, p))
  <2>1. UNCHANGED <<plan, Manual_FLAG>>
    BY <1>3 DEF Dialog, OpenDialog, EnterCode, CancelAtLock, OpenScreen, StartTakeOver,
                TakeOverLit, LockClear, LockLit, LockCut, LeaveScreen, CloseCutDown
  <2> QED
    BY <2>1, QuietCycle DEF plan
<1> QED
  BY <1>1, <1>2, <1>3, <1>4

LEMMA RestartCycle == SafeInv /\ Restart => Cycle!Next
<1> SUFFICES ASSUME SafeInv, Restart PROVE Cycle!Next
  OBVIOUS
<1>1. Manual_FLAG = 1 /\ dialog = "TimePhase"
  BY DEF Restart, RetReset, RetJudge, RetCopy, RetCut, RetClear, RetLit, RetFlag,
         Task2Step, SafeInv, ManualInv, HandsOn, RetRun
<1>2. Committed = my_Schedule /\ Committed' = Committed
  BY DEF Restart, RetReset, RetJudge, RetCopy, RetCut, RetClear, RetLit, RetFlag,
         Task2Step, DialogFrame, Committed
<1>3. CASE RetReset \/ RetJudge \/ RetCut \/ RetClear \/ RetLit
  BY <1>1, <1>3, QuietCycle DEF RetReset, RetJudge, RetCut, RetClear, RetLit, plan
<1>4. CASE RetCopy
  <2>1. /\ Current_TimeTable \in 0 .. my_Schedule.TimeTable_Number - 1
    BY <1>4, SizesAssumption
       DEF RetCopy, Task2Step, SafeInv, Inv, RegInv, TypeOK, Periods, Schedules
  <2>2. Phase_OneShot' \in Cycle!Stored
    BY <1>2, <1>4, <2>1 DEF RetCopy, Cycle!Stored
  <2> QED
    BY <1>1, <1>2, <1>4, <2>2 DEF RetCopy, Cycle!Next, Cycle!Reload
<1>5. CASE RetFlag
  <2>1. Current_PhaseTable = 0
    BY <1>5 DEF RetFlag, Task2Step, SafeInv, RetRun
  <2> QED
    BY <1>1, <1>2, <1>5, <2>1 DEF RetFlag, plan, Cycle!Next, Cycle!HandBack
<1> QED
  BY <1>3, <1>4, <1>5 DEF Restart

LEMMA StepCycle == SafeInv /\ [Next]_vars => [Cycle!Next]_Cycle!vars
<1> SUFFICES ASSUME SafeInv, [Next]_vars PROVE [Cycle!Next]_Cycle!vars
  OBVIOUS
<1>1. CASE UNCHANGED vars
  BY <1>1 DEF vars, plan, screen, Cycle!vars, Committed
<1>2. CASE Interrupt
  BY <1>2, QuietCycle DEF Interrupt, RTC_IRQHandler, TIM2_IRQHandler, PostSignal,
                          OscillatorFails, plan
<1>3. CASE Task1
  BY <1>3, Task1Cycle
<1>4. CASE Adjust
  BY <1>4, QuietCycle DEF Adjust, AdjustKey, AdjustLoad, AdjustStore, AdjustFrame, plan
<1>5. CASE EditJob
  BY <1>5, QuietCycle DEF EditJob, EditKey, EditWait, EditRtcOff, EditHalf, EditRest,
                          RtcOn, EditFrame, plan
<1>6. CASE Dialog
  BY <1>6, DialogCycle
<1>7. CASE Restart
  BY <1>7, RestartCycle
<1> QED
  BY <1>1, <1>2, <1>3, <1>4, <1>5, <1>6, <1>7 DEF Next, Task2

\* Phases are served in order and a cycle always starts with one whole table
\* of a schedule no edit was in the middle of: interrupts, menus and edits
\* together keep the promise of CycleSnapshot.
THEOREM Refinement == NoRestartWhileAutomatic => (Spec => ImplementsCycle)
<1> SUFFICES ASSUME NoRestartWhileAutomatic PROVE Spec => ImplementsCycle
  OBVIOUS
<1>1. Init => Cycle!Init
  BY InitCycle
<1>2. SafeInv /\ [Next]_vars => [Cycle!Next]_Cycle!vars
  BY StepCycle
<1>3. Spec => []SafeInv
  BY Safety
<1> QED
  BY <1>1, <1>2, <1>3, PTL DEF Spec, ImplementsCycle, Cycle!Spec

-----------------------------------------------------------------------------
(* The third part: what reaches the lamps                                  *)

\* The half-second timer runs exactly between a second signal and its own.
ArmedInv == armed <=> traffic_signal = 1

\* The arrays are half written only inside LED_Interpretation, ...
WholeInv == ~Crossway.whole => t2 \in {"takeOverLit", "lockLit", "retLit"}

\* ... and while they are, with the cycle taken over, only the half-second
\* signal can be on its way.
HalfInv ==
    t2 \in {"takeOver", "takeOverLit", "lockLit"} =>
        ~rtcIT /\ (t1 = "deleted" \/ ~Pending \/ traffic_signal = 2)

\* A mask of half-written arrays was made by the last signal: the next is
\* that of a second, and cannot come before the arrays are whole again.
MaskInv ==
    ~mask.of.whole /\ t1 # "deleted" =>
        /\ ~Pending => ~armed
        /\ t2 \in {"takeOverLit", "lockLit"} => ~Pending

PictureInv == ArmedInv /\ WholeInv /\ HalfInv /\ MaskInv

LEMMA InterruptPicture == Inv /\ PictureInv /\ Interrupt => PictureInv'
<1> SUFFICES ASSUME Inv, PictureInv, Interrupt PROVE PictureInv'
  OBVIOUS
<1> USE DEF Interrupt, RTC_IRQHandler, TIM2_IRQHandler, PostSignal, OscillatorFails, mail,
            street, PictureInv, Pending
<1>1. ArmedInv' /\ WholeInv' /\ HalfInv'
  BY DEF ArmedInv, WholeInv, HalfInv
<1>2. MaskInv'
  BY DEF MaskInv, HalfInv, Inv, TypeOK
<1> QED
  BY <1>1, <1>2

LEMMA Task1Picture == Inv /\ PictureInv /\ Task1 => PictureInv'
<1> SUFFICES ASSUME Inv, PictureInv, Task1 PROVE PictureInv'
  OBVIOUS
<1> USE DEF mail, ticks, screen, PictureInv, Pending
<1>1. ArmedInv' /\ HalfInv'
  BY DEF Task1, TakeMessage, PendTimeout, LED_Sec_Display, CountDown, NextPhase,
         NewCycle, RepeatPhase, LED_HalfSec_Display, Handle, ArmedInv, HalfInv
<1>2. CASE TakeMessage \/ PendTimeout
  BY <1>1, <1>2 DEF TakeMessage, PendTimeout, street, WholeInv, MaskInv, Inv, TypeOK
<1>3. CASE LED_Sec_Display
  BY <1>1, <1>3 DEF LED_Sec_Display, NoMask, Whole, Handle, WholeInv, MaskInv
<1>4. CASE CountDown \/ NextPhase \/ NewCycle \/ RepeatPhase
  <2>1. LED_HalfSec_Display
    BY <1>4 DEF CountDown, NextPhase, NewCycle, RepeatPhase
  <2>2. Handle(2) /\ mask'.of = Crossway
    BY <2>1, HalfDisplay DEF Inv
  <2>3. WholeInv'
    BY <1>4, <2>2 DEF CountDown, NextPhase, NewCycle, RepeatPhase, Handle, Whole, WholeInv
  <2>4. MaskInv'
    <3>1. ~armed'
      BY <2>2 DEF Handle, ArmedInv
    <3>2. CASE t2 \in {"takeOverLit", "lockLit"}
      BY <2>2, <3>1, <3>2 DEF Handle, MaskInv, Inv, WindowInv, Window
    <3>3. CASE t2 \notin {"takeOverLit", "lockLit"}
      BY <2>2, <3>1, <3>3 DEF Handle, MaskInv
    <3> QED
      BY <3>2, <3>3
  <2> QED
    BY <1>1, <2>3, <2>4
<1> QED
  BY <1>2, <1>3, <1>4 DEF Task1

\* A step of task2 finds nothing pending; it must not leave a half-written
\* row behind, and with the cycle taken over it writes one only with the
\* second interrupt off.
LEMMA Task2Picture ==
    ASSUME PictureInv, NEW from, NEW to, Task2Step(from, to),
           ~Crossway'.whole => to \in {"takeOverLit", "lockLit", "retLit"},
           to \in {"takeOver", "takeOverLit", "lockLit"} => ~rtcIT'
    PROVE  PictureInv'
BY DEF Task2Step, Task2Runs, mail, street, PictureInv, ArmedInv, WholeInv, HalfInv,
       MaskInv, Pending

LEMMA DialogPicture == PictureInv /\ Dialog => PictureInv'
<1> SUFFICES ASSUME PictureInv, Dialog PROVE PictureInv'
  OBVIOUS
<1>1. CASE StartTakeOver
  BY <1>1, Task2Picture DEF StartTakeOver, Task2Step, PictureInv, WholeInv
<1>2. CASE TakeOver
  <2>1. ~rtcIT
    BY <1>2 DEF TakeOver, Task2Step, PictureInv, HalfInv
  <2> QED
    BY <1>2, <2>1, Task2Picture DEF TakeOver
<1>3. CASE LockClear
  BY <1>3, Task2Picture DEF LockClear
<1>4. CASE TakeOverLit \/ LockLit
  <2>1. Crossway'.whole
    BY <1>4 DEF TakeOverLit, LockLit, LightRow, Whole
  <2> QED
    BY <1>4, <2>1, Task2Picture DEF TakeOverLit, LockLit
<1>5. ASSUME NEW from, NEW to, Task2Step(from, to),
             from \notin {"takeOverLit", "lockLit", "retLit"}, UNCHANGED Crossway, to \notin {"takeOver", "takeOverLit", "lockLit"}
      PROVE  PictureInv'
  BY <1>5, Task2Picture DEF Task2Step, PictureInv, WholeInv
<1>6. CASE ~StartTakeOver /\ ~TakeOver /\ ~LockClear /\ ~TakeOverLit /\ ~LockLit
  <2>1. ASSUME NEW d \in Dialogs \ {"none"}, OpenDialog(d) PROVE PictureInv'
    BY <1>5, <2>1 DEF OpenDialog
  <2>2. ASSUME NEW t \in Periods, NEW p \in Phases, LockPeriod(t, p) PROVE PictureInv'
    BY <1>5, <2>2 DEF LockPeriod
  <2>3. CASE EnterCode \/ CancelAtLock \/ OpenScreen
    BY <1>5, <2>3 DEF EnterCode, CancelAtLock, OpenScreen
  <2>4. CASE LockPhase \/ LockCut
    BY <1>5, <2>4 DEF LockPhase, LockCut
  <2>5. CASE LeaveScreen \/ CloseCutDown
    BY <1>5, <2>5 DEF LeaveScreen, CloseCutDown
  <2> QED
    BY <1>6, <2>1, <2>2, <2>3, <2>4, <2>5 DEF Dialog
<1> QED
  BY <1>1, <1>2, <1>3, <1>4, <1>6

LEMMA RestartPicture == PictureInv /\ Restart => PictureInv'
<1> SUFFICES ASSUME PictureInv, Restart PROVE PictureInv'
  OBVIOUS
<1>1. CASE RetLit
  <2>1. Crossway'.whole
    BY <1>1 DEF RetLit, LightRow, Whole
  <2> QED
    BY <1>1, <2>1, Task2Picture DEF RetLit
<1>2. CASE RetClear
  BY <1>2, Task2Picture DEF RetClear
<1>3. ASSUME NEW from, NEW to, Task2Step(from, to),
             from \notin {"takeOverLit", "lockLit", "retLit"}, UNCHANGED Crossway, to \notin {"takeOver", "takeOverLit", "lockLit"}
      PROVE  PictureInv'
  BY <1>3, Task2Picture DEF Task2Step, PictureInv, WholeInv
<1>4. CASE RetReset \/ RetJudge \/ RetCopy \/ RetCut \/ RetFlag
  BY <1>3, <1>4 DEF RetReset, RetJudge, RetCopy, RetCut, RetFlag
<1> QED
  BY <1>1, <1>2, <1>4 DEF Restart

LEMMA StepPicture == Inv /\ PictureInv /\ [Next]_vars => PictureInv'
<1> SUFFICES ASSUME Inv, PictureInv, [Next]_vars PROVE PictureInv'
  OBVIOUS
<1>1. CASE UNCHANGED vars
  BY <1>1 DEF vars, ticks, mail, street, PictureInv, ArmedInv, WholeInv, HalfInv, MaskInv,
              Pending
<1>2. ASSUME NEW from, NEW to, Task2Step(from, to),
             from \notin {"takeOverLit", "lockLit", "retLit"}, UNCHANGED Crossway, to \notin {"takeOver", "takeOverLit", "lockLit"}
      PROVE  PictureInv'
  BY <1>2, Task2Picture DEF Task2Step, PictureInv, WholeInv
<1>3. CASE Adjust
  <2>1. ASSUME NEW o \in Ops \ {"none"}, AdjustKey(o) PROVE PictureInv'
    BY <1>2, <2>1 DEF AdjustKey, AdjustFrame, Home
  <2>2. CASE AdjustLoad \/ AdjustStore
    BY <1>2, <2>2 DEF AdjustLoad, AdjustStore, AdjustFrame, Home
  <2> QED
    BY <1>3, <2>1, <2>2 DEF Adjust
<1>4. CASE EditJob
  BY <1>2, <1>4 DEF EditJob, EditKey, EditWait, EditRtcOff, EditHalf, EditRest, RtcOn,
                    EditFrame, Home
<1> QED
  BY <1>1, <1>3, <1>4, InterruptPicture, Task1Picture, DialogPicture, RestartPicture
     DEF Next, Task2

\* Only task1 writes the ports.
LEMMA OnlyTask1Shows ==
    ASSUME [Next]_vars, street' # street
    PROVE  Task1
<1>1. ~Interrupt /\ ~UNCHANGED vars
  BY DEF Interrupt, RTC_IRQHandler, TIM2_IRQHandler, PostSignal, OscillatorFails, vars
<1>2. ~Adjust /\ ~EditJob
  BY DEF Adjust, AdjustKey, AdjustLoad, AdjustStore, EditJob, EditKey, EditWait,
         EditRtcOff, EditHalf, EditRest, RtcOn, Task2Step
<1>3. ~Dialog
  BY DEF Dialog, OpenDialog, EnterCode, CancelAtLock, OpenScreen, StartTakeOver,
         TakeOver, TakeOverLit, LockPeriod, LockPhase, LockClear, LockLit, LockCut,
         LeaveScreen, CloseCutDown, Task2Step
<1>4. ~Restart
  BY DEF Restart, RetReset, RetJudge, RetCopy, RetCut, RetClear, RetLit, RetFlag,
         Task2Step
<1> QED
  BY <1>1, <1>2, <1>3, <1>4 DEF Next, Task2

\* Only the second signal changes what seconds show.
LEMMA OnlyDisplayLights ==
    ASSUME [Next]_vars, lamps' # lamps
    PROVE  LED_Sec_Display
<1>1. Task1
  BY OnlyTask1Shows DEF street
<1> QED
  BY <1>1 DEF Task1, TakeMessage, PendTimeout, CountDown, NextPhase, NewCycle, RepeatPhase,
              LED_HalfSec_Display, street

\* With the cycle taken over no second shows half-written arrays, and a mask
\* the half second makes of them is gone at the next signal, however task1
\* and the interrupts fall into the run (RA8806_CTRL.c:1533 and 1568,
\* main.c:175, LED_OP.c:315-351).
THEOREM NothingHalfLit == Spec => NeverLitHalfway
<1>1. Init => PictureInv
  BY DEF Init, PictureInv, ArmedInv, WholeInv, HalfInv, MaskInv, NoMask, Whole, Pending
<1>2. Inv /\ PictureInv /\ [Next]_vars => PictureInv'
  BY StepPicture
<1>3. ASSUME Inv, PictureInv, [Next]_vars, t2 # "retLit", street' # street
      PROVE  /\ lamps' # lamps => lamps'.of.whole
             /\ ~mask.of.whole => mask'.of.whole
  <2>1. Task1
    BY <1>3, OnlyTask1Shows
  <2>2. CASE LED_Sec_Display
    <3>1. t2 \notin {"takeOverLit", "lockLit"}
      BY <1>3, <2>2 DEF PictureInv, HalfInv, LED_Sec_Display, Handle, Pending
    <3>2. Crossway.whole
      BY <1>3, <3>1 DEF PictureInv, WholeInv
    <3> QED
      BY <2>2, <3>2 DEF LED_Sec_Display, NoMask, Whole
  <2>3. CASE CountDown \/ NextPhase \/ NewCycle \/ RepeatPhase
    <3>1. LED_HalfSec_Display
      BY <2>3 DEF CountDown, NextPhase, NewCycle, RepeatPhase
    <3>2. Handle(2) /\ lamps' = lamps /\ mask'.of = Crossway
      BY <1>3, <3>1, HalfDisplay DEF Inv
    <3>3. ~mask.of.whole => t2 \notin {"takeOverLit", "lockLit"}
      BY <1>3, <3>2 DEF Handle, PictureInv, MaskInv, Pending
    <3> QED
      BY <1>3, <3>2, <3>3 DEF PictureInv, WholeInv
  <2>4. ~TakeMessage /\ ~PendTimeout
    BY <1>3 DEF TakeMessage, PendTimeout
  <2> QED
    BY <2>1, <2>2, <2>3, <2>4 DEF Task1
<1>4. Inv /\ PictureInv /\ [Next]_vars
        => [t2 # "retLit" /\ street' # street =>
              /\ lamps' # lamps => lamps'.of.whole
              /\ ~mask.of.whole => mask'.of.whole]_vars
  BY <1>3
<1> QED
  BY <1>1, <1>2, <1>4, Invariance, PTL DEF Spec, NeverLitHalfway

-----------------------------------------------------------------------------
(* Green, yellow, and the next row                                         *)

\* task1 is in time for every tick, and the operator neither tests lamps nor
\* takes the cycle over.
AutomaticInTime == Prompt /\ Uses \cap {"LEDCheck", "TimePhase"} = {}

\* Where task2 never is then, ...
AutoInv ==
    /\ dialog \in {"none", "CutDown"}
    /\ t2 \notin HandsOn \cup {"takeOver"}

\* ... and whose tick is on its way.
TickInv ==
    /\ ~(mbox /\ t1 = "got")
    /\ Pending => traffic_signal = IF armed THEN 1 ELSE 2

\* From the second signal to the next count the lamps show the row at hand,
\* yellow if it is about to end.
Shown ==
    lamps.of = Crossway /\ (Current_CutDown < 3 => lamps.yellow)
ShownInv ==
    t1 # "deleted" /\ (IF Pending THEN traffic_signal = 2 ELSE armed) => Shown

\* A row that is no longer at hand and still lit is yellow.
LeftInv ==
    lamps.of # Crossway => lamps.yellow \/ lamps.of = Whole(NoLamps)

GreenInv == AutoInv /\ TickInv /\ ShownInv /\ LeftInv

LEMMA InterruptGreen == AutomaticInTime /\ Inv /\ GreenInv /\ Interrupt => GreenInv'
<1> SUFFICES ASSUME AutomaticInTime, Inv, GreenInv, Interrupt PROVE GreenInv'
  OBVIOUS
<1>1. AutoInv' /\ LeftInv'
  BY DEF Interrupt, RTC_IRQHandler, TIM2_IRQHandler, PostSignal, OscillatorFails, screen,
         street, GreenInv, AutoInv, LeftInv
<1>2. TickInv'
  BY DEF Interrupt, RTC_IRQHandler, TIM2_IRQHandler, PostSignal, OscillatorFails, mail,
         GreenInv, TickInv, Pending, AutomaticInTime
<1>3. ShownInv'
  BY DEF Interrupt, RTC_IRQHandler, TIM2_IRQHandler, PostSignal, OscillatorFails, mail,
         street, GreenInv, ShownInv, Shown, Pending, AutomaticInTime
<1> QED
  BY <1>1, <1>2, <1>3 DEF GreenInv

LEMMA Task1Green == Inv /\ GreenInv /\ Task1 => GreenInv'
<1> SUFFICES ASSUME Inv, GreenInv, Task1 PROVE GreenInv'
  OBVIOUS
<1>1. AutoInv'
  BY DEF Task1, TakeMessage, PendTimeout, LED_Sec_Display, CountDown, NextPhase,
         NewCycle, RepeatPhase, LED_HalfSec_Display, Handle, screen, GreenInv, AutoInv
<1>2. TickInv'
  BY DEF Task1, TakeMessage, PendTimeout, LED_Sec_Display, CountDown, NextPhase,
         NewCycle, RepeatPhase, LED_HalfSec_Display, Handle, mail, ticks, GreenInv, TickInv, Pending
<1>3. CASE TakeMessage \/ PendTimeout
  <2>1. ShownInv' /\ LeftInv'
    BY <1>3 DEF TakeMessage, PendTimeout, mail, ticks, street, GreenInv, TickInv, ShownInv, Shown,
                LeftInv, Pending
  <2> QED
    BY <1>1, <1>2, <2>1 DEF GreenInv
<1>4. CASE LED_Sec_Display
  <2>1. Shown' /\ LeftInv'
    BY <1>4 DEF LED_Sec_Display, Shown, LeftInv
  <2> QED
    BY <1>1, <1>2, <2>1 DEF GreenInv, ShownInv
<1>5. CASE CountDown \/ NextPhase \/ NewCycle \/ RepeatPhase
  <2>1. Handle(2) /\ UNCHANGED lamps
    BY <1>5 DEF CountDown, NextPhase, NewCycle, RepeatPhase, LED_HalfSec_Display
  <2>2. Shown /\ ~armed' /\ ~Pending'
    BY <2>1 DEF Handle, mail, ticks, GreenInv, TickInv, ShownInv, Pending
  <2>3. LeftInv'
    BY <1>5, <2>1, <2>2
       DEF CountDown, NextPhase, NewCycle, RepeatPhase, Shown, LeftInv, GreenInv, plan
  <2> QED
    BY <1>1, <1>2, <2>2, <2>3 DEF GreenInv, ShownInv
<1> QED
  BY <1>3, <1>4, <1>5 DEF Task1

\* Of task2's steps only a store changes what Shown speaks of, and it leaves
\* the yellow stage alone.
LEMMA Task2Green == AutomaticInTime /\ Inv /\ GreenInv /\ Task2 => GreenInv'
<1> SUFFICES ASSUME AutomaticInTime, Inv, GreenInv, Task2 PROVE GreenInv'
  OBVIOUS
<1>1. PICK from, to : Task2Step(from, to)
  BY Zenon DEF Task2, Adjust, AdjustKey, AdjustLoad, AdjustStore,
         EditJob, EditKey, EditWait, EditRtcOff, EditHalf, EditRest, RtcOn,
         Dialog, OpenDialog, EnterCode, CancelAtLock, OpenScreen, StartTakeOver,
         TakeOver, TakeOverLit, LockPeriod, LockPhase, LockClear, LockLit, LockCut, LeaveScreen,
         CloseCutDown, Restart, RetReset, RetJudge, RetCopy, RetCut, RetClear, RetLit,
         RetFlag
<1>2. TickInv' /\ UNCHANGED <<lamps, armed, t1, traffic_signal, mbox>>
  BY <1>1 DEF Task2Step, mail, street, GreenInv, TickInv, Pending
<1>3. ASSUME UNCHANGED Crossway, Current_CutDown' = Current_CutDown \/ Current_CutDown' \in 6 .. CutMax
      PROVE  ShownInv' /\ LeftInv'
  <2>1. Current_CutDown' < 3 => Current_CutDown < 3
    BY <1>3, SizesAssumption DEF Inv, TypeOK
  <2>2. Shown => Shown'
    BY <1>2, <1>3, <2>1 DEF Shown
  <2>3. LeftInv'
    BY <1>2, <1>3 DEF GreenInv, LeftInv
  <2> QED
    BY <1>2, <2>2, <2>3 DEF GreenInv, ShownInv, Pending
<1>4. CASE Adjust
  <2>1. UNCHANGED <<Crossway, dialog>> /\ t2' \in {"menu", "cmd", "load", "store"}
    BY <1>4 DEF Adjust, AdjustKey, AdjustLoad, AdjustStore, AdjustFrame, Task2Step, Home
  <2>2. Current_CutDown' = Current_CutDown \/ Current_CutDown' \in 6 .. CutMax
    BY <1>4, StoreLands DEF Adjust, AdjustKey, AdjustLoad
  <2> QED
    BY <1>2, <1>3, <2>1, <2>2 DEF GreenInv, AutoInv, HandsOn, RetRun
<1>5. CASE EditJob
  <2>1. AutoInv' /\ UNCHANGED <<Crossway, Current_CutDown>>
    BY <1>5 DEF EditJob, EditKey, EditWait, EditRtcOff, EditHalf, EditRest, RtcOn,
                EditFrame, Task2Step, Home, GreenInv, AutoInv, HandsOn, RetRun
  <2> QED
    BY <1>2, <1>3, <2>1 DEF GreenInv
<1>6. CASE Dialog
  <2>1. ~TakeOver /\ ~TakeOverLit /\ ~StartTakeOver /\ ~LockPhase /\ ~LockClear /\ ~LockLit /\ ~LockCut
    BY DEF TakeOver, TakeOverLit, StartTakeOver, LockPhase, LockClear, LockLit, LockCut, Task2Step,
           GreenInv, AutoInv, HandsOn
  <2>2. AutoInv' /\ UNCHANGED <<Crossway, Current_CutDown>>
    BY <1>6, <2>1
       DEF Dialog, OpenDialog, EnterCode, CancelAtLock, OpenScreen, LockPeriod,
           LeaveScreen, CloseCutDown, Task2Step, Dialogs, GreenInv, AutoInv, HandsOn,
           RetRun, AutomaticInTime
  <2> QED
    BY <1>2, <1>3, <2>2 DEF GreenInv
<1>7. ~Restart
  BY DEF Restart, RetReset, RetJudge, RetCopy, RetCut, RetClear, RetLit, RetFlag,
         Task2Step, GreenInv, AutoInv, HandsOn, RetRun
<1> QED
  BY <1>4, <1>5, <1>6, <1>7 DEF Task2

\* What seconds show leaves a row only through its yellow stage, whatever is
\* edited and adjusted meanwhile (LED_OP.c:287-298).
THEOREM YellowBeforeChange == AutomaticInTime => (Spec => GreenThenYellow)
<1> SUFFICES ASSUME AutomaticInTime PROVE Spec => GreenThenYellow
  OBVIOUS
<1>1. Init => GreenInv
  BY DEF Init, GreenInv, AutoInv, TickInv, ShownInv, LeftInv, Pending, HandsOn, RetRun
<1>2. Inv /\ GreenInv /\ [Next]_vars => GreenInv'
  <2>1. Inv /\ GreenInv /\ UNCHANGED vars => GreenInv'
    BY DEF vars, ticks, mail, street, screen, GreenInv, AutoInv, TickInv, ShownInv, Shown, LeftInv,
           Pending
  <2> QED
    BY <2>1, InterruptGreen, Task1Green, Task2Green DEF Next
<1>3. ASSUME Inv, GreenInv, [Next]_vars, lamps'.of # lamps.of, lamps.of # Whole(NoLamps)
      PROVE  lamps.yellow
  <2>1. LED_Sec_Display
    BY <1>3, OnlyDisplayLights
  <2> QED
    BY <1>3, <2>1 DEF LED_Sec_Display, GreenInv, LeftInv
<1>4. Inv /\ GreenInv /\ [Next]_vars
        => [lamps'.of # lamps.of /\ lamps.of # Whole(NoLamps) => lamps.yellow]_vars
  BY <1>3
<1> QED
  BY <1>1, <1>2, <1>4, Invariance, PTL DEF Spec, GreenThenYellow
-----------------------------------------------------------------------------
(* A locked phase: two indices, two passes over the arrays, task1 between  *)

\* The picture a run of the lock leaves behind.
Lit(phase) == Crossway = Whole(Phase_OneShot.Crossway_LED[phase])

\* Only the operator who has the cycle reaches a lock, ...
HeldInv ==
    /\ t2 \in {"menu", "load", "store", "waitCycle"} \cup EditRun => dialog # "TimePhase"
    /\ t2 \in {"takeOver", "takeOverLit", "lockPhase", "lockClear", "lockLit", "lockCut"}
         => dialog = "TimePhase"
    /\ dialog = "TimePhase" /\ t2 \in {"takeOverLit", "lockPhase", "lockClear", "lockLit",
                                       "lockCut", "on", "cmd"}
         => Manual_FLAG = 1

\* ... so that task1 keeps its hands off the index between the two passes.
PassInv ==
    /\ t2 = "lockLit" => reg = Current_PhaseTable
    /\ t2 = "lockCut" => Lit(Current_PhaseTable)

LockInv == HeldInv /\ PassInv

LEMMA Task1Lock == LockInv /\ Task1 => LockInv'
<1> SUFFICES ASSUME LockInv, Task1 PROVE LockInv'
  OBVIOUS
<1> USE DEF LockInv, HeldInv, PassInv, Lit, LED_HalfSec_Display, Handle, plan, screen
<1>1. CASE TakeMessage \/ PendTimeout \/ LED_Sec_Display \/ CountDown \/ RepeatPhase
  BY <1>1 DEF TakeMessage, PendTimeout, LED_Sec_Display, CountDown, RepeatPhase
<1>2. CASE NextPhase \/ NewCycle
  BY <1>2 DEF NextPhase, NewCycle
<1> QED
  BY <1>1, <1>2 DEF Task1

LEMMA DialogLock == LockInv /\ Dialog => LockInv'
<1> SUFFICES ASSUME LockInv, Dialog PROVE LockInv'
  OBVIOUS
<1> USE DEF Task2Step, DialogFrame, LockInv, HeldInv, PassInv, Lit, EditRun
<1>1. ASSUME NEW d \in Dialogs \ {"none"}, OpenDialog(d) PROVE LockInv'
  BY <1>1 DEF OpenDialog
<1>2. CASE EnterCode \/ CancelAtLock \/ OpenScreen \/ LeaveScreen \/ CloseCutDown
  BY <1>2 DEF EnterCode, CancelAtLock, OpenScreen, LeaveScreen, CloseCutDown
<1>3. CASE StartTakeOver \/ TakeOver \/ TakeOverLit
  BY <1>3 DEF StartTakeOver, TakeOver, TakeOverLit
<1>4. ASSUME NEW t \in Periods, NEW p \in Phases, LockPeriod(t, p) PROVE LockInv'
  BY <1>4 DEF LockPeriod
<1>5. CASE LockPhase \/ LockClear
  BY <1>5 DEF LockPhase, LockClear, ClearRow, plan
<1>6. CASE LockLit \/ LockCut
  BY <1>6 DEF LockLit, LockCut, LightRow, plan
<1> QED
  BY <1>1, <1>2, <1>3, <1>4, <1>5, <1>6 DEF Dialog

LEMMA StepLock == LockInv /\ [Next]_vars => LockInv'
<1> SUFFICES ASSUME LockInv, [Next]_vars PROVE LockInv'
  OBVIOUS
<1>1. CASE UNCHANGED vars
  BY <1>1 DEF vars, plan, screen, LockInv, HeldInv, PassInv, Lit
<1>2. CASE Interrupt
  BY <1>2 DEF Interrupt, RTC_IRQHandler, TIM2_IRQHandler, PostSignal, OscillatorFails,
              plan, screen, LockInv, HeldInv, PassInv, Lit
<1>3. CASE Adjust
  BY <1>3 DEF Adjust, AdjustKey, AdjustLoad, AdjustStore, AdjustFrame, Task2Step, Home,
              LockInv, HeldInv, PassInv, EditRun
<1>4. CASE EditJob
  BY <1>4 DEF EditJob, EditKey, EditWait, EditRtcOff, EditHalf, EditRest, RtcOn, EditFrame,
              Task2Step, Home, LockInv, HeldInv, PassInv, EditRun
<1>5. CASE Restart
  BY <1>5 DEF Restart, RetReset, RetJudge, RetCopy, RetCut, RetClear, RetLit, RetFlag,
              Task2Step, DialogFrame, LockInv, HeldInv, PassInv, EditRun
<1> QED
  BY <1>1, <1>2, <1>3, <1>4, <1>5, Task1Lock, DialogLock DEF Next, Task2

\* Once its second pass is through, a lock has lit the phase it set, as the
\* running copy has it, for any plan, any number of periods and any edits:
\* task1 may count and the half second may fire anywhere in between, and
\* neither moves the index, the copy or the arrays (RA8806_CTRL.c:1565-1573,
\* LED_OP.c:144-162).
THEOREM LockLightsRunning == Spec => []LockShowsRunning
<1>1. Init => LockInv
  BY DEF Init, LockInv, HeldInv, PassInv, EditRun
<1>2. LockInv /\ [Next]_vars => LockInv'
  BY StepLock
<1>3. LockInv => LockShowsRunning
  BY DEF LockInv, PassInv, Lit, LockShowsRunning
<1> QED
  BY <1>1, <1>2, <1>3, PTL DEF Spec
=============================================================================

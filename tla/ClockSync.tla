----------------------------- MODULE ClockSync -----------------------------
(***************************************************************************)
(* The four places a time of day is kept - the counter of the processor's  *)
(* clock, Current_Time on the screen and in the traffic control, the       *)
(* external clock chip, and the dialog that sets the date - and what moves *)
(* between them: the refresh of task3, the keys of task2, a calibration    *)
(* received by task4, the start after a loss of power.                     *)
(*                                                                         *)
(* task2 (priority 10) is never interrupted by task3 (20) or task4 (25),   *)
(* so what it does at one key is one step; task4 can be interrupted between*)
(* any two of its writes.  That time passes is left out: only what the     *)
(* code writes moves a clock.                                              *)
(***************************************************************************)
EXTENDS Integers, FiniteSets

CONSTANTS
    MinYear, MaxYear,   \* 2000 and 2037
    Cursor,             \* places of the cursor that are visited: 2 .. 13
    Messages,           \* the times a calibration may bring
    Nightfall           \* DayNight_Mode

Fields == {"year", "mon", "mday", "hour", "min", "sec"}
Times  == [year : Nat, mon : 0 .. 11, mday : 1 .. 31, hour : 0 .. 23, min : 0 .. 59, sec : 0 .. 59]
NoTime == [f \in Fields |-> -1]

\* The chip's registers: two digits of the year, months from one.
Chips == [year : 0 .. 99, mon : 1 .. 12, mday : 1 .. 31, hour : 0 .. 23, min : 0 .. 59, sec : 0 .. 59]

ASSUME ClockAssumption ==
    /\ MinYear \in 2000 .. 2012 /\ MaxYear \in 2012 .. 2037
    /\ Cursor \subseteq 2 .. 13
    /\ Messages \subseteq Times /\ \A m \in Messages : m.year \in 2000 .. 2099
    /\ Nightfall \in [hour : 0 .. 23, min : 0 .. 59, sec : 0 .. 59]

VARIABLES
    rtc, rtcIT,         \* the counter, as a calendar time, and its interrupt
    Current_Time,
    chip,
    power,
    screen,             \* "free", or "task3": holding sem_screen in its refresh
    time,               \* the dialog's; NoTime while it is closed
    calibration,        \* the message under way, or NoTime,
    step,               \* and how many of its writes are done
    whole,              \* history: the last time Current_Time held complete,
    saved,              \* what the menu last saved, if no calibration followed,
    begun               \* bound: the dialog and the calibration, each begun once

vars == <<rtc, rtcIT, Current_Time, chip, power, screen, time, calibration, step,
          whole, saved, begun>>

-----------------------------------------------------------------------------
(* The dialog's arithmetic *)

Leap(y) == (y % 4 = 0 /\ y % 100 # 0) \/ y % 400 = 0
Short   == {3, 5, 8, 10}
DaysOf(t) == CASE t.mon \in Short -> 30
               [] t.mon = 1 -> IF Leap(t.year) THEN 29 ELSE 28
               [] OTHER -> 31

FieldAt(s) == CASE s \in 2 .. 3 -> "year" [] s \in 4 .. 5 -> "mon"  [] s \in 6 .. 7 -> "mday"
                [] s \in 8 .. 9 -> "hour" [] s \in 10 .. 11 -> "min" [] OTHER -> "sec"
UnitAt(s)  == IF s % 2 = 0 THEN 10 ELSE 1

Top(f, t) == CASE f = "year" -> MaxYear [] f = "mon" -> 11 [] f = "mday" -> DaysOf(t)
               [] f = "hour" -> 23 [] OTHER -> 59
Bottom(f) == CASE f = "year" -> MinYear [] f = "mday" -> 1 [] OTHER -> 0

\* Mutant: the last day of February is lowered only when there is none.
ClampFebLate(t) ==
    IF t.mon = 1 /\ t.mday > 29 THEN [t EXCEPT !.mday = DaysOf(t)] ELSE t

ClampFeb(t) ==
    IF t.mon = 1 /\ t.mday >= 29 THEN [t EXCEPT !.mday = DaysOf(t)] ELSE t

ClampMonth(t) ==
    IF t.mon \in Short /\ t.mday = 31 THEN [t EXCEPT !.mday = 30] ELSE ClampFeb(t)

\* Ten months on from January is November, month 10; December is asked for.
ClampTenMonths(t) ==
    IF t.mon = 11 /\ t.mday = 31 THEN [t EXCEPT !.mday = 30] ELSE t

Clamp(s, t, tens) == CASE s \in {2, 3} -> ClampFeb(t)
                       [] s = 4 -> tens
                       [] s = 5 -> ClampMonth(t)
                       [] OTHER -> t

\* KEY1
Plus(s, t) ==
    LET f == FieldAt(s)
        u == [t EXCEPT ![f] = @ + UnitAt(s)]
    IN  IF u[f] <= Top(f, t) THEN Clamp(s, u, ClampTenMonths(u)) ELSE t

\* KEY2; one minute less is asked of a negative count of minutes.
Minus(s, t) ==
    LET f == FieldAt(s)
        u == [t EXCEPT ![f] = @ - UnitAt(s)]
    IN  IF s # 11 /\ u[f] >= Bottom(f) THEN Clamp(s, u, ClampFeb(u)) ELSE t

\* mktime: a day the month does not have is one of the next month.
Normal(t) ==
    IF t.mday > DaysOf(t) THEN [t EXCEPT !.mon = @ + 1, !.mday = @ - DaysOf(t)] ELSE t

-----------------------------------------------------------------------------
(* The chip *)

DS1302_SetMin(m) == IF m = 0 THEN 1 ELSE m
DS1302_SetMon(m) == IF m = 0 THEN 1 ELSE m

Stored(t, mon) == [year |-> t.year % 100, mon |-> DS1302_SetMon(mon), mday |-> t.mday,
                   hour |-> t.hour, min |-> DS1302_SetMin(t.min), sec |-> t.sec]

Get_CurrentTime == [year |-> chip.year + 2000, mon |-> chip.mon - 1, mday |-> chip.mday,
                    hour |-> chip.hour, min |-> chip.min, sec |-> chip.sec]

Start ==
    /\ ~power /\ power' = TRUE
    /\ Current_Time' = Get_CurrentTime /\ whole' = Get_CurrentTime
    /\ rtc' = Normal(Get_CurrentTime) /\ rtcIT' = TRUE
    /\ UNCHANGED <<chip, screen, time, calibration, step, saved, begun>>

PowerLoss ==
    /\ power /\ power' = FALSE
    /\ screen' = "free" /\ time' = NoTime
    /\ calibration' = NoTime /\ step' = 0
    /\ rtc' = NoTime /\ Current_Time' = NoTime /\ whole' = NoTime
    /\ UNCHANGED <<rtcIT, chip, saved, begun>>

-----------------------------------------------------------------------------
(* task3, once a second *)

\* The structure is copied a part at a time: task1 may find any of them.
StartRefresh ==
    /\ power /\ screen = "free" /\ screen' = "task3"
    /\ \E part \in SUBSET {f \in Fields : Current_Time[f] # rtc[f]} :
          Current_Time' = [f \in Fields |-> IF f \in part THEN rtc[f] ELSE Current_Time[f]]
    /\ UNCHANGED <<rtc, rtcIT, chip, power, time, calibration, step,
                   whole, saved, begun>>

EndRefresh ==
    /\ power /\ screen = "task3" /\ screen' = "free"
    /\ Current_Time' = rtc /\ whole' = rtc
    /\ UNCHANGED <<rtc, rtcIT, chip, power, time, calibration, step,
                   saved, begun>>

\* Time_JudgeDayOrNight, in task1 at the end of a phase.
Night(t) ==
    \/ t.hour > Nightfall.hour
    \/ t.hour = Nightfall.hour /\ t.min > Nightfall.min
    \/ t.hour = Nightfall.hour /\ t.min = Nightfall.min /\ t.sec > Nightfall.sec

-----------------------------------------------------------------------------
(* task2, which waits for sem_screen before it lets a menu have the key *)

HasScreen == power /\ screen = "free" /\ UNCHANGED <<Current_Time, power, screen, calibration, step,
                                                     whole>>

RTC_SetDate_Init ==
    /\ HasScreen /\ time = NoTime /\ "dialog" \notin begun
    /\ time' = [year |-> 2012, mon |-> 7, mday |-> 18, hour |-> 12, min |-> 0, sec |-> 0]
    /\ begun' = begun \cup {"dialog"}
    /\ UNCHANGED <<rtc, rtcIT, chip, saved>>

\* KEY3 and KEY4 bring the cursor to any place.
RTC_SetDate ==
    /\ HasScreen /\ time # NoTime
    /\ \E s \in Cursor : time' \in {Plus(s, time), Minus(s, time)}
    /\ UNCHANGED <<rtc, rtcIT, chip, saved, begun>>

\* KEY5 switches the interrupt off and on; KEY6 leaves.
LeaveDialog ==
    /\ HasScreen /\ time # NoTime /\ time' = NoTime
    /\ \/ rtc' = Normal(time) /\ rtcIT' = TRUE
       \/ UNCHANGED <<rtc, rtcIT>>
    /\ UNCHANGED <<chip, saved, begun>>

\* Mutant: the menu item runs without the screen.
SaveAnytime ==
    /\ power /\ time = NoTime
    /\ chip' = Stored(Current_Time, Current_Time.mon + 1) /\ saved' = whole
    /\ UNCHANGED <<rtc, rtcIT, Current_Time, power, screen, time, calibration, step,
                   whole, begun>>

time_saveto_ds1302 ==
    /\ HasScreen /\ time = NoTime
    /\ chip' = Stored(Current_Time, Current_Time.mon + 1) /\ saved' = whole
    /\ UNCHANGED <<rtc, rtcIT, time, begun>>

-----------------------------------------------------------------------------
(* task4: a calibration from the network, six registers and the counter *)

Registers == <<"sec", "min", "hour", "mday", "mon", "year">>
Calibrating == power /\ screen = "free" /\ calibration # NoTime
            /\ UNCHANGED <<Current_Time, power, screen, time, whole, begun>>

StartCalibration ==
    /\ power /\ screen = "free" /\ calibration = NoTime
    /\ "calibration" \notin begun /\ begun' = begun \cup {"calibration"}
    /\ calibration' \in Messages /\ step' = 0
    /\ UNCHANGED <<rtc, rtcIT, Current_Time, chip, power, screen, time,
                   whole, saved>>

\* The month is counted from zero here, as the counter wants it.
WriteRegister ==
    /\ Calibrating /\ step < 6
    /\ LET r == Registers[step + 1]
       IN  chip' = [chip EXCEPT ![r] = Stored(calibration, calibration.mon)[r]]
    /\ step' = step + 1 /\ saved' = NoTime
    /\ UNCHANGED <<rtc, rtcIT, calibration>>

StopInterrupt ==
    /\ Calibrating /\ step = 6 /\ rtcIT' = FALSE /\ step' = 7
    /\ UNCHANGED <<rtc, chip, calibration, saved>>

SetCounter ==
    /\ Calibrating /\ step = 7 /\ rtc' = Normal(calibration) /\ step' = 8
    /\ UNCHANGED <<rtcIT, chip, calibration, saved>>

EndCalibration ==
    /\ Calibrating /\ step = 8 /\ rtcIT' = TRUE
    /\ calibration' = NoTime /\ step' = 0
    /\ UNCHANGED <<rtc, chip, saved>>

-----------------------------------------------------------------------------

Init ==
    /\ chip = [year |-> 12, mon |-> 12, mday |-> 31, hour |-> 17, min |-> 44, sec |-> 30]
    /\ Current_Time = Get_CurrentTime /\ whole = Current_Time /\ rtc = Current_Time
    /\ rtcIT = TRUE /\ power = TRUE /\ screen = "free"
    /\ time = NoTime /\ calibration = NoTime /\ step = 0
    /\ saved = NoTime /\ begun = {}

Next ==
    \/ Start \/ PowerLoss
    \/ StartRefresh \/ EndRefresh
    \/ RTC_SetDate_Init \/ RTC_SetDate \/ LeaveDialog \/ time_saveto_ds1302
    \/ StartCalibration \/ WriteRegister \/ StopInterrupt \/ SetCounter \/ EndCalibration

Spec == Init /\ [][Next]_vars

-----------------------------------------------------------------------------
(* Properties *)

TypeOK ==
    /\ (IF power THEN {rtc, Current_Time, whole} \subseteq Times
                 ELSE {rtc, Current_Time, whole} = {NoTime})
    /\ chip \in Chips
    /\ rtcIT \in BOOLEAN /\ power \in BOOLEAN /\ screen \in {"free", "task3"}
    /\ (time = NoTime \/ (time \in Times /\ time.year \in MinYear .. MaxYear))
    /\ (calibration = NoTime \/ calibration \in Times) /\ step \in 0 .. 8
    /\ (saved = NoTime \/ saved \in Times) /\ begun \subseteq {"dialog", "calibration"}

\* However the date is reached - decades, years, months, days, up and down -
\* no month has more days than its year gives it, but for one day of November
\* (RA8806_CTRL.c:1737-1895).
OnlyNovemberLong ==
    time # NoTime => \/ time.mday <= DaysOf(time)
                     \/ time.mon = 10 /\ time.mday = 31

\* The same of every month.
DateInCalendar == time # NoTime => time.mday <= DaysOf(time)

\* A time saved by the menu is a time the screen showed, never half of two,
\* and comes back at the next start, months converted both ways; only a full
\* hour comes back a minute late (RA8806_CTRL.c:1979-1988, TIME_OP.c:40-48,
\* ds1302_op.c:127).
SavedTimeReturns ==
    [][~power /\ power' /\ saved # NoTime =>
         rtc' = Normal([saved EXCEPT !.min = DS1302_SetMin(@)])]_vars

\* RA8806_CTRL.c:1986: "struct tm与ds1302内部存储范围不一致" (the chip counts its
\* months differently): once a calibration is done, too, the chip holds the
\* month the counter holds.
CalibrationAgrees ==
    [][power' /\ step = 8 /\ step' = 0 => Normal(Get_CurrentTime).mon = rtc.mon]_vars

\* Whenever task1 judges day or night, it does as for the old or the new time.
JudgesAsShown ==
    screen = "task3" => Night(Current_Time) \in {Night(whole), Night(rtc)}
=============================================================================

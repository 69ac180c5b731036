-------------------------- MODULE ClockSync_proofs --------------------------
(***************************************************************************)
(* Proofs about ClockSync, for every range of years, every place of the    *)
(* cursor and every message a calibration may bring.                       *)
(***************************************************************************)
EXTENDS ClockSync, TLAPS

\* The chip has two digits for the year.
Century == [year : 2000 .. 2099, mon : 0 .. 11, mday : 1 .. 31,
            hour : 0 .. 23, min : 0 .. 59, sec : 0 .. 59]

ClocksInv ==
    IF power THEN rtc \in Century /\ Current_Time \in Century /\ whole \in Century
             ELSE rtc = NoTime /\ Current_Time = NoTime /\ whole = NoTime

DialogInv == time = NoTime \/ (time \in Century /\ time.year \in MinYear .. MaxYear)

\* What the menu saved is what the chip holds, months counted from one there.
SavedInv ==
    saved = NoTime \/ (saved \in Century /\ chip = Stored(saved, saved.mon + 1))

RestInv ==
    /\ rtcIT \in BOOLEAN /\ power \in BOOLEAN /\ screen \in {"free", "task3"}
    /\ (calibration = NoTime \/ calibration \in Century) /\ step \in 0 .. 8
    /\ begun \subseteq {"dialog", "calibration"}

Inv ==
    /\ ClocksInv /\ DialogInv /\ chip \in Chips /\ RestInv
    /\ (power /\ screen = "free" => Current_Time = whole)
    /\ SavedInv /\ OnlyNovemberLong

-----------------------------------------------------------------------------
(* The calendar *)

LEMMA NoTimeIsNone == NoTime \notin Century /\ Century \subseteq Times
BY DEF NoTime, Century, Times, Fields

LEMMA DaysType == ASSUME NEW t PROVE DaysOf(t) \in 28 .. 31
BY DEF DaysOf

LEMMA SetMon == ASSUME NEW t \in Century, NEW m \in 0 .. 11 PROVE [t EXCEPT !.mon = m] \in Century
BY DEF Century

LEMMA SetMday == ASSUME NEW t \in Century, NEW d \in 1 .. 31 PROVE [t EXCEPT !.mday = d] \in Century
BY DEF Century

LEMMA SetMonthDay ==
    ASSUME NEW t \in Century, NEW m \in 0 .. 11, NEW d \in 1 .. 31
    PROVE  [t EXCEPT !.mon = m, !.mday = d] \in Century
<1>1. [t EXCEPT !.mon = m, !.mday = d] = [[t EXCEPT !.mon = m] EXCEPT !.mday = d]
  BY Zenon
<1>2. PICK u \in Century : u = [t EXCEPT !.mon = m]
  BY SetMon, Zenon
<1>3. [u EXCEPT !.mday = d] \in Century
  BY SetMday
<1> QED
  BY <1>1, <1>2, <1>3, Zenon

LEMMA NormalType == ASSUME NEW t \in Century PROVE Normal(t) \in Century
<1>1. CASE t.mday > DaysOf(t)
  <2>1. t.mon # 11
    BY <1>1 DEF DaysOf, Short, Century
  <2>2. t.mon + 1 \in 0 .. 11 /\ t.mday - DaysOf(t) \in 1 .. 31
    BY <1>1, <2>1, DaysType DEF Century
  <2> QED
    BY <1>1, <2>2, SetMonthDay, Zenon DEF Normal
<1>2. CASE ~(t.mday > DaysOf(t))
  BY <1>2 DEF Normal
<1> QED
  BY <1>1, <1>2

LEMMA CurrentType == ASSUME chip \in Chips PROVE Get_CurrentTime \in Century
<1>1. /\ chip.year + 2000 \in 2000 .. 2099 /\ chip.mon - 1 \in 0 .. 11
  BY DEF Chips
<1> QED
  BY <1>1 DEF Get_CurrentTime, Chips, Century

LEMMA StoredType ==
    ASSUME NEW t \in Century, NEW m \in 0 .. 12 PROVE Stored(t, m) \in Chips
<1>1. t.year % 100 \in 0 .. 99 /\ DS1302_SetMon(m) \in 1 .. 12 /\ DS1302_SetMin(t.min) \in 0 .. 59
  BY DEF Century, DS1302_SetMon, DS1302_SetMin
<1> QED
  BY <1>1 DEF Stored, Chips, Century

-----------------------------------------------------------------------------
(* The dialog *)

\* A date of the dialog: the hours and minutes play no part.
Fits(t)  == t.mday <= DaysOf(t) \/ (t.mon = 10 /\ t.mday = 31)
Dated(t) == t \in Century /\ t.year \in MinYear .. MaxYear /\ Fits(t)

\* How long the months are.
LEMMA Lengths ==
    ASSUME NEW t \in Century
    PROVE  /\ t.mon \in Short => DaysOf(t) = 30
           /\ t.mon \notin Short \cup {1} => DaysOf(t) = 31
           /\ t.mon = 1 => DaysOf(t) \in 28 .. 29
BY DEF DaysOf, Short

LEMMA Years == MinYear \in 2000 .. 2012 /\ MaxYear \in 2012 .. 2037
BY ClockAssumption

LEMMA SameDays ==
    ASSUME NEW t, NEW u, u.mon = t.mon, u.year = t.year PROVE DaysOf(u) = DaysOf(t)
BY DEF DaysOf

LEMMA SetYear ==
    ASSUME NEW t \in Century, NEW v \in 2000 .. 2099
    PROVE  /\ [t EXCEPT !.year = v] \in Century /\ [t EXCEPT !.year = v].year = v
BY DEF Century

LEMMA MonthSet == ASSUME NEW t \in Century, NEW v \in 0 .. 11
    PROVE  [t EXCEPT !.mon = v].mon = v /\ [t EXCEPT !.mon = v].year = t.year
BY DEF Century

LEMMA DaySet == ASSUME NEW t \in Century, NEW v \in 1 .. 31
    PROVE  /\ [t EXCEPT !.mday = v].mday = v
           /\ [t EXCEPT !.mday = v].mon = t.mon /\ [t EXCEPT !.mday = v].year = t.year
BY DEF Century

LEMMA SetClock ==
    ASSUME NEW t, Dated(t)
    PROVE  /\ \A v \in 0 .. 23 : Dated([t EXCEPT !.hour = v])
           /\ \A v \in 0 .. 59 : Dated([t EXCEPT !.min = v])
           /\ \A v \in 0 .. 59 : Dated([t EXCEPT !.sec = v])
<1>t. t \in Century
  BY DEF Dated
<1>1. ASSUME NEW v \in 0 .. 23 PROVE Dated([t EXCEPT !.hour = v])
  <2>1. [t EXCEPT !.hour = v] \in Century
    BY <1>t DEF Century
  <2>2. /\ [t EXCEPT !.hour = v].year = t.year /\ [t EXCEPT !.hour = v].mon = t.mon
        /\ [t EXCEPT !.hour = v].mday = t.mday
    BY <1>t DEF Century
  <2> QED
    BY <2>1, <2>2, SameDays, Zenon DEF Dated, Fits
<1>2. ASSUME NEW v \in 0 .. 59 PROVE Dated([t EXCEPT !.min = v])
  <2>1. [t EXCEPT !.min = v] \in Century
    BY <1>t DEF Century
  <2>2. /\ [t EXCEPT !.min = v].year = t.year /\ [t EXCEPT !.min = v].mon = t.mon
        /\ [t EXCEPT !.min = v].mday = t.mday
    BY <1>t DEF Century
  <2> QED
    BY <2>1, <2>2, SameDays, Zenon DEF Dated, Fits
<1>3. ASSUME NEW v \in 0 .. 59 PROVE Dated([t EXCEPT !.sec = v])
  <2>1. [t EXCEPT !.sec = v] \in Century
    BY <1>t DEF Century
  <2>2. /\ [t EXCEPT !.sec = v].year = t.year /\ [t EXCEPT !.sec = v].mon = t.mon
        /\ [t EXCEPT !.sec = v].mday = t.mday
    BY <1>t DEF Century
  <2> QED
    BY <2>1, <2>2, SameDays, Zenon DEF Dated, Fits
<1> QED
  BY <1>1, <1>2, <1>3

\* Whatever February held before, it holds a date of its own afterwards.
LEMMA FebDated ==
    ASSUME NEW t \in Century, t.year \in MinYear .. MaxYear, t.mon # 1 => Fits(t)
    PROVE  Dated(ClampFeb(t))
<1>1. CASE t.mon = 1 /\ t.mday >= 29
  <2>1. PICK v \in 1 .. 31 : v = DaysOf(t)
    BY DaysType
  <2>2. ClampFeb(t) = [t EXCEPT !.mday = v]
    BY <1>1, <2>1 DEF ClampFeb
  <2>3. /\ [t EXCEPT !.mday = v] \in Century
        /\ [t EXCEPT !.mday = v].mday = v
        /\ [t EXCEPT !.mday = v].mon = t.mon /\ [t EXCEPT !.mday = v].year = t.year
    BY SetMday, DaySet
  <2>4. DaysOf(ClampFeb(t)) = v
    BY <2>1, <2>2, <2>3, SameDays
  <2>5. v <= v
    OBVIOUS
  <2> QED
    BY <2>2, <2>3, <2>4, <2>5, Zenon DEF Dated, Fits
<1>2. CASE ~(t.mon = 1 /\ t.mday >= 29)
  <2>1. t.mon = 1 => t.mday <= DaysOf(t)
    BY <1>2, DaysType DEF Century
  <2>2. Fits(t)
    BY <2>1 DEF Fits
  <2> QED
    BY <1>2, <2>2 DEF ClampFeb, Dated
<1> QED
  BY <1>1, <1>2

LEMMA Day30Dated ==
    ASSUME NEW t \in Century, t.year \in MinYear .. MaxYear, t.mon # 1
    PROVE  Dated([t EXCEPT !.mday = 30])
<1>1. PICK v \in 1 .. 31 : v = 30
  OBVIOUS
<1>2. /\ [t EXCEPT !.mday = v] \in Century /\ [t EXCEPT !.mday = v].mday = v
      /\ [t EXCEPT !.mday = v].mon = t.mon /\ [t EXCEPT !.mday = v].year = t.year
  BY SetMday, DaySet
<1>3. v <= DaysOf(t)
  BY <1>1, Lengths
<1>4. v <= DaysOf([t EXCEPT !.mday = v])
  BY <1>2, <1>3, SameDays, Zenon
<1> QED
  BY <1>1, <1>2, <1>4, Zenon DEF Dated, Fits

LEMMA MonthDated ==
    ASSUME NEW t \in Century, t.year \in MinYear .. MaxYear PROVE Dated(ClampMonth(t))
<1>1. CASE t.mon \in Short /\ t.mday = 31
  <2>1. t.mon # 1
    BY <1>1 DEF Short
  <2> QED
    BY <1>1, <2>1, Day30Dated, Zenon DEF ClampMonth
<1>2. CASE ~(t.mon \in Short /\ t.mday = 31)
  <2>1. t.mon # 1 => t.mday <= DaysOf(t)
    BY <1>2, Lengths DEF Century
  <2> QED
    BY <1>2, <2>1, FebDated DEF ClampMonth, Fits
<1> QED
  BY <1>1, <1>2

LEMMA TenMonthsDated ==
    ASSUME NEW t \in Century, t.year \in MinYear .. MaxYear, t.mon >= 10
    PROVE  Dated(ClampTenMonths(t))
<1>1. t.mon # 1 /\ t.mon \in {10, 11}
  BY DEF Century
<1>2. CASE t.mon = 11 /\ t.mday = 31
  BY <1>1, <1>2, Day30Dated, Zenon DEF ClampTenMonths
<1>3. CASE ~(t.mon = 11 /\ t.mday = 31)
  <2>1. Fits(t)
    BY <1>1, <1>3, Lengths DEF Fits, Century, Short
  <2> QED
    BY <1>3, <2>1 DEF ClampTenMonths, Dated
<1> QED
  BY <1>2, <1>3

\* What a key does to each field.
LEMMA FieldOf ==
    ASSUME NEW s \in 2 .. 13
    PROVE  /\ UnitAt(s) \in {1, 10}
           /\ s \in 2 .. 3 => FieldAt(s) = "year"
           /\ s \in 4 .. 5 => FieldAt(s) = "mon"
           /\ s \in 6 .. 7 => FieldAt(s) = "mday"
           /\ s \in 8 .. 9 => FieldAt(s) = "hour"
           /\ s \in 10 .. 11 => FieldAt(s) = "min"
           /\ s \in 12 .. 13 => FieldAt(s) = "sec"
BY DEF UnitAt, FieldAt

\* Plus and Minus are one definition but for the sign and the limit.
LEMMA YearDated ==
    ASSUME NEW t, Dated(t), NEW v \in MinYear .. MaxYear
    PROVE  Dated(ClampFeb([t EXCEPT !.year = v]))
<1>1. t \in Century
  BY DEF Dated
<1>2. v \in 2000 .. 2099
  BY Years
<1>3. [t EXCEPT !.year = v] \in Century
  BY <1>1, <1>2 DEF Century
<1>4. [t EXCEPT !.year = v].year = v
  BY <1>1 DEF Century
<1>5. [t EXCEPT !.year = v].mon = t.mon /\ [t EXCEPT !.year = v].mday = t.mday
  BY <1>1 DEF Century
<1>6. t.mon # 1 => DaysOf([t EXCEPT !.year = v]) = DaysOf(t)
  BY <1>5 DEF DaysOf
<1>7. t.mon # 1 => Fits([t EXCEPT !.year = v])
  BY <1>5, <1>6, Zenon DEF Dated, Fits
<1> QED
  BY <1>3, <1>4, <1>5, <1>7, FebDated, Zenon

LEMMA MonDated ==
    ASSUME NEW t, Dated(t), NEW v \in 0 .. 11
    PROVE  /\ v <= 1 => Dated(ClampFeb([t EXCEPT !.mon = v]))
           /\ Dated(ClampMonth([t EXCEPT !.mon = v]))
           /\ v >= 10 => Dated(ClampTenMonths([t EXCEPT !.mon = v]))
<1>1. t \in Century /\ t.year \in MinYear .. MaxYear
  BY DEF Dated
<1>2. /\ [t EXCEPT !.mon = v] \in Century /\ [t EXCEPT !.mon = v].year = t.year
      /\ [t EXCEPT !.mon = v].mon = v
  BY <1>1, SetMon, MonthSet
<1> DEFINE u == [t EXCEPT !.mon = v]
<1> HIDE DEF u
<1>3. u \in Century /\ u.year \in MinYear .. MaxYear /\ u.mon = v
  BY <1>1, <1>2, Zenon DEF u
<1>4. v <= 1 /\ u.mon # 1 => Fits(u)
  BY <1>3, Lengths DEF Fits, Century, Short
<1>5. /\ v <= 1 => Dated(ClampFeb(u)) 
      /\ Dated(ClampMonth(u))
      /\ v >= 10 => Dated(ClampTenMonths(u))
  BY <1>3, <1>4, FebDated, MonthDated, TenMonthsDated
<1> QED
  BY <1>5 DEF u

LEMMA MdayDated ==
    ASSUME NEW t, Dated(t), NEW v \in 1 .. 31, v <= DaysOf(t)
    PROVE  Dated([t EXCEPT !.mday = v])
<1>1. t \in Century /\ t.year \in MinYear .. MaxYear
  BY DEF Dated
<1>2. /\ [t EXCEPT !.mday = v] \in Century /\ [t EXCEPT !.mday = v].year = t.year
      /\ [t EXCEPT !.mday = v].mon = t.mon /\ [t EXCEPT !.mday = v].mday = v
  BY <1>1, SetMday, DaySet
<1>3. DaysOf([t EXCEPT !.mday = v]) = DaysOf(t)
  BY <1>2, SameDays
<1> QED
  BY <1>1, <1>2, <1>3, Zenon DEF Dated, Fits

LEMMA PlusDated ==
    ASSUME NEW t, Dated(t), NEW s \in 2 .. 13 PROVE Dated(Plus(s, t))
<1>t. t \in Century /\ UnitAt(s) \in {1, 10} /\ t.year \in MinYear .. MaxYear
  BY FieldOf DEF Dated
<1>1. CASE s \in 2 .. 3
  <2>1. FieldAt(s) = "year" /\ Top("year", t) = MaxYear
    BY <1>1, FieldOf DEF Top
  <2>2. [t EXCEPT !.year = t.year + UnitAt(s)].year = t.year + UnitAt(s) /\ t.year + UnitAt(s) \in Int
    BY <1>t DEF Century
  <2>3. CASE ~(t.year + UnitAt(s) <= MaxYear)
    <3>1. Plus(s, t) = t
      BY <2>1, <2>2, <2>3 DEF Plus
    <3> QED
      BY <3>1
  <2>4. CASE t.year + UnitAt(s) <= MaxYear
    <3>1. t.year + UnitAt(s) \in MinYear .. MaxYear
      BY <1>t, <2>2, <2>4, Years, SMT DEF Century
    <3>2. Plus(s, t) = Clamp(s, [t EXCEPT !.year = t.year + UnitAt(s)], ClampTenMonths([t EXCEPT !.year = t.year + UnitAt(s)]))
      BY <2>1, <2>2, <2>4, Zenon DEF Plus
    <3>3. Plus(s, t) = ClampFeb([t EXCEPT !.year = t.year + UnitAt(s)])
      BY <1>1, <3>2 DEF Clamp
    <3> QED
      BY <3>1, <3>3, YearDated, Zenon
  <2> QED
    BY <2>3, <2>4
<1>2. CASE s \in 4 .. 5
  <2>1. FieldAt(s) = "mon" /\ Top("mon", t) = 11
    BY <1>2, FieldOf DEF Top
  <2>2. [t EXCEPT !.mon = t.mon + UnitAt(s)].mon = t.mon + UnitAt(s) /\ t.mon + UnitAt(s) \in Int
    BY <1>t DEF Century
  <2>3. CASE ~(t.mon + UnitAt(s) <= 11)
    <3>1. Plus(s, t) = t
      BY <2>1, <2>2, <2>3 DEF Plus
    <3> QED
      BY <3>1
  <2>4. CASE t.mon + UnitAt(s) <= 11
    <3>1. t.mon + UnitAt(s) \in 0 .. 11
      BY <1>t, <2>2, <2>4, SMT DEF Century
    <3>2. Plus(s, t) = Clamp(s, [t EXCEPT !.mon = t.mon + UnitAt(s)], ClampTenMonths([t EXCEPT !.mon = t.mon + UnitAt(s)]))
      BY <2>1, <2>2, <2>4, Zenon DEF Plus
    <3>3. CASE s = 4
      <4>1. t.mon + UnitAt(s) >= 10
        BY <3>3, <1>t DEF UnitAt, Century
      <4>2. Plus(s, t) = ClampTenMonths([t EXCEPT !.mon = t.mon + UnitAt(s)])
        BY <3>2, <3>3 DEF Clamp
      <4> QED
        BY <3>1, <4>1, <4>2, MonDated, Zenon
    <3>4. CASE s = 5
      <4>1. Plus(s, t) = ClampMonth([t EXCEPT !.mon = t.mon + UnitAt(s)])
        BY <3>2, <3>4 DEF Clamp
      <4> QED
        BY <3>1, <4>1, MonDated, Zenon
    <3> QED
      BY <1>2, <3>3, <3>4
  <2> QED
    BY <2>3, <2>4
<1>3. CASE s \in 6 .. 7
  <2>1. FieldAt(s) = "mday" /\ Top("mday", t) = DaysOf(t)
    BY <1>3, FieldOf DEF Top
  <2>2. [t EXCEPT !.mday = t.mday + UnitAt(s)].mday = t.mday + UnitAt(s) /\ t.mday + UnitAt(s) \in Int
    BY <1>t DEF Century
  <2>3. CASE ~(t.mday + UnitAt(s) <= DaysOf(t))
    <3>1. Plus(s, t) = t
      BY <2>1, <2>2, <2>3 DEF Plus
    <3> QED
      BY <3>1
  <2>4. CASE t.mday + UnitAt(s) <= DaysOf(t)
    <3>1. t.mday + UnitAt(s) \in 1 .. 31
      BY <1>t, <2>2, <2>4, DaysType, SMT DEF Century
    <3>2. Plus(s, t) = Clamp(s, [t EXCEPT !.mday = t.mday + UnitAt(s)], ClampTenMonths([t EXCEPT !.mday = t.mday + UnitAt(s)]))
      BY <2>1, <2>2, <2>4, Zenon DEF Plus
    <3>3. Plus(s, t) = [t EXCEPT !.mday = t.mday + UnitAt(s)]
      BY <1>3, <3>2 DEF Clamp
    <3>4. t.mday + UnitAt(s) <= DaysOf(t)
      BY <1>t, <2>2, <2>4, DaysType, SMT DEF Dated, Century
    <3> QED
      BY <3>1, <3>3, <3>4, MdayDated, Zenon
  <2> QED
    BY <2>3, <2>4
<1>4. CASE s \in 8 .. 9
  <2>1. FieldAt(s) = "hour" /\ Top("hour", t) = 23
    BY <1>4, FieldOf DEF Top
  <2>2. [t EXCEPT !.hour = t.hour + UnitAt(s)].hour = t.hour + UnitAt(s) /\ t.hour + UnitAt(s) \in Int
    BY <1>t DEF Century
  <2>3. CASE ~(t.hour + UnitAt(s) <= 23)
    <3>1. Plus(s, t) = t
      BY <2>1, <2>2, <2>3 DEF Plus
    <3> QED
      BY <3>1
  <2>4. CASE t.hour + UnitAt(s) <= 23
    <3>1. t.hour + UnitAt(s) \in 0 .. 23
      BY <1>t, <2>2, <2>4, SMT DEF Century
    <3>2. Plus(s, t) = Clamp(s, [t EXCEPT !.hour = t.hour + UnitAt(s)], ClampTenMonths([t EXCEPT !.hour = t.hour + UnitAt(s)]))
      BY <2>1, <2>2, <2>4, Zenon DEF Plus
    <3>3. Plus(s, t) = [t EXCEPT !.hour = t.hour + UnitAt(s)]
      BY <1>4, <3>2 DEF Clamp
    <3> QED
      BY <3>1, <3>3, SetClock, Zenon
  <2> QED
    BY <2>3, <2>4
<1>5. CASE s \in 10 .. 11
  <2>1. FieldAt(s) = "min" /\ Top("min", t) = 59
    BY <1>5, FieldOf DEF Top
  <2>2. [t EXCEPT !.min = t.min + UnitAt(s)].min = t.min + UnitAt(s) /\ t.min + UnitAt(s) \in Int
    BY <1>t DEF Century
  <2>3. CASE ~(t.min + UnitAt(s) <= 59)
    <3>1. Plus(s, t) = t
      BY <2>1, <2>2, <2>3 DEF Plus
    <3> QED
      BY <3>1
  <2>4. CASE t.min + UnitAt(s) <= 59
    <3>1. t.min + UnitAt(s) \in 0 .. 59
      BY <1>t, <2>2, <2>4, SMT DEF Century
    <3>2. Plus(s, t) = Clamp(s, [t EXCEPT !.min = t.min + UnitAt(s)], ClampTenMonths([t EXCEPT !.min = t.min + UnitAt(s)]))
      BY <2>1, <2>2, <2>4, Zenon DEF Plus
    <3>3. Plus(s, t) = [t EXCEPT !.min = t.min + UnitAt(s)]
      BY <1>5, <3>2 DEF Clamp
    <3> QED
      BY <3>1, <3>3, SetClock, Zenon
  <2> QED
    BY <2>3, <2>4
<1>6. CASE s \in 12 .. 13
  <2>1. FieldAt(s) = "sec" /\ Top("sec", t) = 59
    BY <1>6, FieldOf DEF Top
  <2>2. [t EXCEPT !.sec = t.sec + UnitAt(s)].sec = t.sec + UnitAt(s) /\ t.sec + UnitAt(s) \in Int
    BY <1>t DEF Century
  <2>3. CASE ~(t.sec + UnitAt(s) <= 59)
    <3>1. Plus(s, t) = t
      BY <2>1, <2>2, <2>3 DEF Plus
    <3> QED
      BY <3>1
  <2>4. CASE t.sec + UnitAt(s) <= 59
    <3>1. t.sec + UnitAt(s) \in 0 .. 59
      BY <1>t, <2>2, <2>4, SMT DEF Century
    <3>2. Plus(s, t) = Clamp(s, [t EXCEPT !.sec = t.sec + UnitAt(s)], ClampTenMonths([t EXCEPT !.sec = t.sec + UnitAt(s)]))
      BY <2>1, <2>2, <2>4, Zenon DEF Plus
    <3>3. Plus(s, t) = [t EXCEPT !.sec = t.sec + UnitAt(s)]
      BY <1>6, <3>2 DEF Clamp
    <3> QED
      BY <3>1, <3>3, SetClock, Zenon
  <2> QED
    BY <2>3, <2>4
<1> QED
  BY <1>1, <1>2, <1>3, <1>4, <1>5, <1>6

LEMMA MinusDated ==
    ASSUME NEW t, Dated(t), NEW s \in 2 .. 13 PROVE Dated(Minus(s, t))
<1>t. t \in Century /\ UnitAt(s) \in {1, 10} /\ t.year \in MinYear .. MaxYear
  BY FieldOf DEF Dated
<1>1. CASE s \in 2 .. 3
  <2>1. FieldAt(s) = "year" /\ Bottom("year") = MinYear
    BY <1>1, FieldOf DEF Bottom
  <2>2. [t EXCEPT !.year = t.year - UnitAt(s)].year = t.year - UnitAt(s) /\ t.year - UnitAt(s) \in Int
    BY <1>t DEF Century
  <2>3. CASE ~(s # 11 /\ t.year - UnitAt(s) >= MinYear)
    <3>1. Minus(s, t) = t
      BY <2>1, <2>2, <2>3 DEF Minus
    <3> QED
      BY <3>1
  <2>4. CASE s # 11 /\ t.year - UnitAt(s) >= MinYear
    <3>1. t.year - UnitAt(s) \in MinYear .. MaxYear
      BY <1>t, <2>2, <2>4, Years, SMT DEF Century
    <3>2. Minus(s, t) = Clamp(s, [t EXCEPT !.year = t.year - UnitAt(s)], ClampFeb([t EXCEPT !.year = t.year - UnitAt(s)]))
      BY <2>1, <2>2, <2>4, Zenon DEF Minus
    <3>3. Minus(s, t) = ClampFeb([t EXCEPT !.year = t.year - UnitAt(s)])
      BY <1>1, <3>2 DEF Clamp
    <3> QED
      BY <3>1, <3>3, YearDated, Zenon
  <2> QED
    BY <2>3, <2>4
<1>2. CASE s \in 4 .. 5
  <2>1. FieldAt(s) = "mon" /\ Bottom("mon") = 0
    BY <1>2, FieldOf DEF Bottom
  <2>2. [t EXCEPT !.mon = t.mon - UnitAt(s)].mon = t.mon - UnitAt(s) /\ t.mon - UnitAt(s) \in Int
    BY <1>t DEF Century
  <2>3. CASE ~(s # 11 /\ t.mon - UnitAt(s) >= 0)
    <3>1. Minus(s, t) = t
      BY <2>1, <2>2, <2>3 DEF Minus
    <3> QED
      BY <3>1
  <2>4. CASE s # 11 /\ t.mon - UnitAt(s) >= 0
    <3>1. t.mon - UnitAt(s) \in 0 .. 11
      BY <1>t, <2>2, <2>4, SMT DEF Century
    <3>2. Minus(s, t) = Clamp(s, [t EXCEPT !.mon = t.mon - UnitAt(s)], ClampFeb([t EXCEPT !.mon = t.mon - UnitAt(s)]))
      BY <2>1, <2>2, <2>4, Zenon DEF Minus
    <3>3. CASE s = 4
      <4>1. Minus(s, t) = ClampFeb([t EXCEPT !.mon = t.mon - UnitAt(s)])
        BY <3>2, <3>3 DEF Clamp
      <4>2. t.mon - UnitAt(s) <= 1
        BY <3>3, <1>t DEF UnitAt, Century
      <4> QED
        BY <3>1, <4>1, <4>2, MonDated, Zenon
    <3>4. CASE s = 5
      <4>1. Minus(s, t) = ClampMonth([t EXCEPT !.mon = t.mon - UnitAt(s)])
        BY <3>2, <3>4 DEF Clamp
      <4> QED
        BY <3>1, <4>1, MonDated, Zenon
    <3> QED
      BY <1>2, <3>3, <3>4
  <2> QED
    BY <2>3, <2>4
<1>3. CASE s \in 6 .. 7
  <2>1. FieldAt(s) = "mday" /\ Bottom("mday") = 1
    BY <1>3, FieldOf DEF Bottom
  <2>2. [t EXCEPT !.mday = t.mday - UnitAt(s)].mday = t.mday - UnitAt(s) /\ t.mday - UnitAt(s) \in Int
    BY <1>t DEF Century
  <2>3. CASE ~(s # 11 /\ t.mday - UnitAt(s) >= 1)
    <3>1. Minus(s, t) = t
      BY <2>1, <2>2, <2>3 DEF Minus
    <3> QED
      BY <3>1
  <2>4. CASE s # 11 /\ t.mday - UnitAt(s) >= 1
    <3>1. t.mday - UnitAt(s) \in 1 .. 31
      BY <1>t, <2>2, <2>4, DaysType, SMT DEF Century
    <3>2. Minus(s, t) = Clamp(s, [t EXCEPT !.mday = t.mday - UnitAt(s)], ClampFeb([t EXCEPT !.mday = t.mday - UnitAt(s)]))
      BY <2>1, <2>2, <2>4, Zenon DEF Minus
    <3>3. Minus(s, t) = [t EXCEPT !.mday = t.mday - UnitAt(s)]
      BY <1>3, <3>2 DEF Clamp
    <3>4. t.mday - UnitAt(s) <= DaysOf(t)
      BY <1>t, <2>2, <2>4, Lengths, SMT DEF Dated, Fits, Century, Short
    <3> QED
      BY <3>1, <3>3, <3>4, MdayDated, Zenon
  <2> QED
    BY <2>3, <2>4
<1>4. CASE s \in 8 .. 9
  <2>1. FieldAt(s) = "hour" /\ Bottom("hour") = 0
    BY <1>4, FieldOf DEF Bottom
  <2>2. [t EXCEPT !.hour = t.hour - UnitAt(s)].hour = t.hour - UnitAt(s) /\ t.hour - UnitAt(s) \in Int
    BY <1>t DEF Century
  <2>3. CASE ~(s # 11 /\ t.hour - UnitAt(s) >= 0)
    <3>1. Minus(s, t) = t
      BY <2>1, <2>2, <2>3 DEF Minus
    <3> QED
      BY <3>1
  <2>4. CASE s # 11 /\ t.hour - UnitAt(s) >= 0
    <3>1. t.hour - UnitAt(s) \in 0 .. 23
      BY <1>t, <2>2, <2>4, SMT DEF Century
    <3>2. Minus(s, t) = Clamp(s, [t EXCEPT !.hour = t.hour - UnitAt(s)], ClampFeb([t EXCEPT !.hour = t.hour - UnitAt(s)]))
      BY <2>1, <2>2, <2>4, Zenon DEF Minus
    <3>3. Minus(s, t) = [t EXCEPT !.hour = t.hour - UnitAt(s)]
      BY <1>4, <3>2 DEF Clamp
    <3> QED
      BY <3>1, <3>3, SetClock, Zenon
  <2> QED
    BY <2>3, <2>4
<1>5. CASE s \in 10 .. 11
  <2>1. FieldAt(s) = "min" /\ Bottom("min") = 0
    BY <1>5, FieldOf DEF Bottom
  <2>2. [t EXCEPT !.min = t.min - UnitAt(s)].min = t.min - UnitAt(s) /\ t.min - UnitAt(s) \in Int
    BY <1>t DEF Century
  <2>3. CASE ~(s # 11 /\ t.min - UnitAt(s) >= 0)
    <3>1. Minus(s, t) = t
      BY <2>1, <2>2, <2>3 DEF Minus
    <3> QED
      BY <3>1
  <2>4. CASE s # 11 /\ t.min - UnitAt(s) >= 0
    <3>1. t.min - UnitAt(s) \in 0 .. 59
      BY <1>t, <2>2, <2>4, SMT DEF Century
    <3>2. Minus(s, t) = Clamp(s, [t EXCEPT !.min = t.min - UnitAt(s)], ClampFeb([t EXCEPT !.min = t.min - UnitAt(s)]))
      BY <2>1, <2>2, <2>4, Zenon DEF Minus
    <3>3. Minus(s, t) = [t EXCEPT !.min = t.min - UnitAt(s)]
      BY <1>5, <3>2 DEF Clamp
    <3> QED
      BY <3>1, <3>3, SetClock, Zenon
  <2> QED
    BY <2>3, <2>4
<1>6. CASE s \in 12 .. 13
  <2>1. FieldAt(s) = "sec" /\ Bottom("sec") = 0
    BY <1>6, FieldOf DEF Bottom
  <2>2. [t EXCEPT !.sec = t.sec - UnitAt(s)].sec = t.sec - UnitAt(s) /\ t.sec - UnitAt(s) \in Int
    BY <1>t DEF Century
  <2>3. CASE ~(s # 11 /\ t.sec - UnitAt(s) >= 0)
    <3>1. Minus(s, t) = t
      BY <2>1, <2>2, <2>3 DEF Minus
    <3> QED
      BY <3>1
  <2>4. CASE s # 11 /\ t.sec - UnitAt(s) >= 0
    <3>1. t.sec - UnitAt(s) \in 0 .. 59
      BY <1>t, <2>2, <2>4, SMT DEF Century
    <3>2. Minus(s, t) = Clamp(s, [t EXCEPT !.sec = t.sec - UnitAt(s)], ClampFeb([t EXCEPT !.sec = t.sec - UnitAt(s)]))
      BY <2>1, <2>2, <2>4, Zenon DEF Minus
    <3>3. Minus(s, t) = [t EXCEPT !.sec = t.sec - UnitAt(s)]
      BY <1>6, <3>2 DEF Clamp
    <3> QED
      BY <3>1, <3>3, SetClock, Zenon
  <2> QED
    BY <2>3, <2>4
<1> QED
  BY <1>1, <1>2, <1>3, <1>4, <1>5, <1>6

-----------------------------------------------------------------------------
(* The chip and the counter *)

LEMMA OneRegister ==
    ASSUME NEW c \in Chips, NEW d \in Chips, NEW r \in {"sec", "min", "hour", "mday", "mon", "year"}
    PROVE  [c EXCEPT ![r] = d[r]] \in Chips
<1>1. CASE r = "sec"  BY <1>1 DEF Chips
<1>2. CASE r = "min"  BY <1>2 DEF Chips
<1>3. CASE r = "hour" BY <1>3 DEF Chips
<1>4. CASE r = "mday" BY <1>4 DEF Chips
<1>5. CASE r = "mon"  BY <1>5 DEF Chips
<1>6. CASE r = "year" BY <1>6 DEF Chips
<1> QED
  BY <1>1, <1>2, <1>3, <1>4, <1>5, <1>6

LEMMA RegisterNames ==
    ASSUME NEW n \in 1 .. 6 PROVE Registers[n] \in {"sec", "min", "hour", "mday", "mon", "year"}
BY DEF Registers

LEMMA SameTime ==
    ASSUME NEW a \in Century, NEW b \in Century, a.year = b.year, a.mon = b.mon,
           a.mday = b.mday, a.hour = b.hour, a.min = b.min, a.sec = b.sec
    PROVE  a = b
BY DEF Century

\* Two digits of the year and a month from one lose nothing of this century.
LEMMA ChipReturns ==
    ASSUME NEW t \in Century, chip = Stored(t, t.mon + 1)
    PROVE  Get_CurrentTime = [t EXCEPT !.min = DS1302_SetMin(@)]
<1> DEFINE u == [t EXCEPT !.min = DS1302_SetMin(t.min)]
<1>1. DS1302_SetMin(t.min) \in 0 .. 59 /\ t.mon + 1 \in 1 .. 12 /\ (t.year % 100) + 2000 = t.year
  BY DEF Century, DS1302_SetMin
<1>2. u \in Century
  BY <1>1 DEF Century
<1>3. /\ u.year = t.year /\ u.mon = t.mon /\ u.mday = t.mday /\ u.hour = t.hour
      /\ u.min = DS1302_SetMin(t.min) /\ u.sec = t.sec
  BY DEF Century
<1>4. /\ chip.year = t.year % 100 /\ chip.mon = DS1302_SetMon(t.mon + 1) /\ chip.mday = t.mday
      /\ chip.hour = t.hour /\ chip.min = DS1302_SetMin(t.min) /\ chip.sec = t.sec
  BY DEF Stored
<1>5. DS1302_SetMon(t.mon + 1) = t.mon + 1
  BY <1>1 DEF DS1302_SetMon
<1>6. Get_CurrentTime \in Century
  BY <1>1, StoredType, CurrentType
<1>7. /\ Get_CurrentTime.year = t.year /\ Get_CurrentTime.mon = t.mon
      /\ Get_CurrentTime.mday = t.mday /\ Get_CurrentTime.hour = t.hour
      /\ Get_CurrentTime.min = DS1302_SetMin(t.min) /\ Get_CurrentTime.sec = t.sec
  BY <1>1, <1>4, <1>5 DEF Get_CurrentTime, Century
<1>8. Get_CurrentTime = u
  BY <1>2, <1>3, <1>6, <1>7, SameTime
<1> QED
  BY <1>8

LEMMA DialogDated == ASSUME Inv, time # NoTime PROVE Dated(time)
BY DEF Inv, DialogInv, OnlyNovemberLong, Dated, Fits

LEMMA DatedDialog ==
    ASSUME Dated(time') PROVE DialogInv' /\ OnlyNovemberLong'
BY DEF DialogInv, OnlyNovemberLong, Dated, Fits, DaysOf, Leap

LEMMA NoDialog == ASSUME time' = NoTime PROVE DialogInv' /\ OnlyNovemberLong'
BY DEF DialogInv, OnlyNovemberLong

LEMMA SameDialog ==
    ASSUME Inv, time' = time PROVE DialogInv' /\ OnlyNovemberLong'
BY DEF Inv, DialogInv, OnlyNovemberLong

LEMMA CalibrationType ==
    ASSUME NEW m \in Messages PROVE m \in Century
<1>1. m \in Times /\ m.year \in 2000 .. 2099
  BY ClockAssumption
<1> QED
  BY <1>1 DEF Times, Century

LEMMA OpenedDated ==
    Dated([year |-> 2012, mon |-> 7, mday |-> 18, hour |-> 12, min |-> 0, sec |-> 0])
BY Years DEF Dated, Fits, DaysOf, Short, Century

-----------------------------------------------------------------------------
(* The inductive invariant *)

LEMMA InvInit == ASSUME Init PROVE Inv
<1>1. chip \in Chips
  BY DEF Init, Chips
<1>2. Get_CurrentTime \in Century
  BY <1>1, CurrentType
<1>3. ClocksInv
  BY <1>2 DEF Init, ClocksInv
<1>4. DialogInv /\ OnlyNovemberLong /\ SavedInv
  BY DEF Init, DialogInv, OnlyNovemberLong, SavedInv
<1>5. RestInv
  BY DEF Init, RestInv
<1> QED
  BY <1>1, <1>3, <1>4, <1>5 DEF Init, Inv

LEMMA InvStep == ASSUME Inv, [Next]_vars PROVE Inv'
<1> USE DEF HasScreen, Calibrating
<1>1. CASE Start
  <2>1. Get_CurrentTime \in Century /\ Normal(Get_CurrentTime) \in Century
    BY CurrentType, NormalType DEF Inv
  <2>2. ClocksInv'
    BY <1>1, <2>1 DEF Start, ClocksInv
  <2>3. RestInv' /\ SavedInv' /\ chip' \in Chips
    BY <1>1 DEF Start, Inv, RestInv, SavedInv
  <2>4. DialogInv' /\ OnlyNovemberLong'
    BY <1>1, SameDialog DEF Start
  <2> QED
    BY <1>1, <2>2, <2>3, <2>4 DEF Start, Inv
<1>2. CASE PowerLoss
  <2>1. ClocksInv'
    BY <1>2 DEF PowerLoss, ClocksInv
  <2>2. SavedInv' /\ chip' \in Chips
    BY <1>2 DEF PowerLoss, Inv, SavedInv
  <2>4. step' \in 0 .. 8
    BY <1>2 DEF PowerLoss
  <2>5. power' \in BOOLEAN
    BY <1>2 DEF PowerLoss
  <2>6. RestInv'
    BY <1>2, <2>4, <2>5 DEF PowerLoss, Inv, RestInv
  <2>3. DialogInv' /\ OnlyNovemberLong'
    BY <1>2, NoDialog DEF PowerLoss
  <2> QED
    BY <1>2, <2>1, <2>2, <2>3, <2>6 DEF PowerLoss, Inv
<1>3. CASE StartRefresh
  <2>1. Current_Time' \in Century
    <3>1. PICK part \in SUBSET {f \in Fields : Current_Time[f] # rtc[f]} :
            Current_Time' = [f \in Fields |-> IF f \in part THEN rtc[f] ELSE Current_Time[f]]
      BY <1>3 DEF StartRefresh
    <3>2. rtc \in Century /\ Current_Time \in Century
      BY <1>3 DEF StartRefresh, Inv, ClocksInv
    \* Each part is the old time's or the counter's.
    <3>3. /\ Current_Time'["year"] \in 2000 .. 2099 /\ Current_Time'["mon"] \in 0 .. 11
          /\ Current_Time'["mday"] \in 1 .. 31 /\ Current_Time'["hour"] \in 0 .. 23
          /\ Current_Time'["min"] \in 0 .. 59 /\ Current_Time'["sec"] \in 0 .. 59
      BY <3>1, <3>2 DEF Century, Fields
    <3>4. Current_Time' = [year |-> Current_Time'["year"], mon |-> Current_Time'["mon"],
                           mday |-> Current_Time'["mday"], hour |-> Current_Time'["hour"],
                           min |-> Current_Time'["min"], sec |-> Current_Time'["sec"]]
      BY <3>1 DEF Fields
    <3> QED
      BY <3>3, <3>4 DEF Century
  <2>2. ClocksInv'
    BY <1>3, <2>1 DEF StartRefresh, Inv, ClocksInv
  <2>3. RestInv' /\ SavedInv' /\ chip' \in Chips
    BY <1>3 DEF StartRefresh, Inv, RestInv, SavedInv
  <2>4. DialogInv' /\ OnlyNovemberLong'
    BY <1>3, SameDialog DEF StartRefresh
  <2> QED
    BY <1>3, <2>2, <2>3, <2>4 DEF StartRefresh, Inv
<1>4. CASE EndRefresh
  <2>1. ClocksInv'
    BY <1>4 DEF EndRefresh, Inv, ClocksInv
  <2>2. RestInv' /\ SavedInv' /\ chip' \in Chips
    BY <1>4 DEF EndRefresh, Inv, RestInv, SavedInv
  <2>3. DialogInv' /\ OnlyNovemberLong'
    BY <1>4, SameDialog DEF EndRefresh
  <2> QED
    BY <1>4, <2>1, <2>2, <2>3 DEF EndRefresh, Inv
<1>5. CASE RTC_SetDate_Init
  <2>1. DialogInv' /\ OnlyNovemberLong'
    BY <1>5, OpenedDated, DatedDialog DEF RTC_SetDate_Init
  <2>2. RestInv' /\ SavedInv' /\ ClocksInv' /\ chip' \in Chips
    BY <1>5 DEF RTC_SetDate_Init, Inv, RestInv, SavedInv, ClocksInv
  <2> QED
    BY <1>5, <2>1, <2>2 DEF RTC_SetDate_Init, Inv
<1>6. CASE RTC_SetDate
  <2>1. PICK s \in Cursor : time' \in {Plus(s, time), Minus(s, time)}
    BY <1>6 DEF RTC_SetDate
  <2>2. s \in 2 .. 13 /\ Dated(time)
    BY <1>6, ClockAssumption, DialogDated DEF RTC_SetDate
  <2>3. DialogInv' /\ OnlyNovemberLong'
    BY <2>1, <2>2, PlusDated, MinusDated, DatedDialog
  <2>4. RestInv' /\ SavedInv' /\ ClocksInv' /\ chip' \in Chips
    BY <1>6 DEF RTC_SetDate, Inv, RestInv, SavedInv, ClocksInv
  <2> QED
    BY <1>6, <2>3, <2>4 DEF RTC_SetDate, Inv
<1>7. CASE LeaveDialog
  <2>1. time \in Century /\ Normal(time) \in Century
    BY <1>7, NormalType DEF LeaveDialog, Inv, DialogInv
  <2>2. ClocksInv'
    BY <1>7, <2>1 DEF LeaveDialog, Inv, ClocksInv
  <2>3. RestInv' /\ SavedInv' /\ chip' \in Chips
    BY <1>7 DEF LeaveDialog, Inv, RestInv, SavedInv
  <2>4. DialogInv' /\ OnlyNovemberLong'
    BY <1>7, NoDialog DEF LeaveDialog
  <2> QED
    BY <1>7, <2>2, <2>3, <2>4 DEF LeaveDialog, Inv
<1>8. CASE time_saveto_ds1302
  <2>1. Current_Time \in Century /\ whole = Current_Time
    BY <1>8 DEF time_saveto_ds1302, Inv, ClocksInv
  <2>2. Current_Time.mon + 1 \in 0 .. 12
    BY <2>1 DEF Century
  <2>3. chip' \in Chips
    BY <1>8, <2>1, <2>2, StoredType DEF time_saveto_ds1302
  <2>4. SavedInv'
    BY <1>8, <2>1 DEF time_saveto_ds1302, SavedInv
  <2>5. RestInv' /\ ClocksInv'
    BY <1>8 DEF time_saveto_ds1302, Inv, RestInv, ClocksInv
  <2>6. DialogInv' /\ OnlyNovemberLong'
    BY <1>8, SameDialog DEF time_saveto_ds1302
  <2> QED
    BY <1>8, <2>3, <2>4, <2>5, <2>6 DEF time_saveto_ds1302, Inv
<1>9. CASE StartCalibration
  <2>1. calibration' \in Century
    BY <1>9, CalibrationType DEF StartCalibration
  <2>2. RestInv'
    BY <1>9, <2>1 DEF StartCalibration, Inv, RestInv
  <2>3. SavedInv' /\ ClocksInv' /\ chip' \in Chips
    BY <1>9 DEF StartCalibration, Inv, SavedInv, ClocksInv
  <2>4. DialogInv' /\ OnlyNovemberLong'
    BY <1>9, SameDialog DEF StartCalibration
  <2> QED
    BY <1>9, <2>2, <2>3, <2>4 DEF StartCalibration, Inv
<1>10. CASE WriteRegister
  <2>1. /\ calibration \in Century /\ calibration.mon \in 0 .. 12 /\ step + 1 \in 1 .. 6
        /\ chip \in Chips
    BY <1>10 DEF WriteRegister, Inv, RestInv, Century
  <2>2. chip' \in Chips
    <3>1. Stored(calibration, calibration.mon) \in Chips /\
          Registers[step + 1] \in {"sec", "min", "hour", "mday", "mon", "year"}
      BY <2>1, StoredType, RegisterNames
    <3> QED
      BY <1>10, <2>1, <3>1, OneRegister, Zenon DEF WriteRegister
  <2>3. SavedInv'
    BY <1>10 DEF WriteRegister, SavedInv
  <2>4. step' \in 0 .. 8
    BY <1>10, <2>1 DEF WriteRegister
  <2>5. RestInv' /\ ClocksInv'
    BY <1>10, <2>4 DEF WriteRegister, Inv, RestInv, ClocksInv
  <2>6. DialogInv' /\ OnlyNovemberLong'
    BY <1>10, SameDialog DEF WriteRegister
  <2> QED
    BY <1>10, <2>2, <2>3, <2>5, <2>6 DEF WriteRegister, Inv
<1>11. CASE StopInterrupt
  <2>1. ClocksInv' /\ SavedInv' /\ chip' \in Chips
    BY <1>11 DEF StopInterrupt, Inv, ClocksInv, SavedInv
  <2>3. step' \in 0 .. 8
    BY <1>11 DEF StopInterrupt
  <2>4. rtcIT' \in BOOLEAN
    BY <1>11 DEF StopInterrupt
  <2>5. RestInv'
    BY <1>11, <2>3, <2>4 DEF StopInterrupt, Inv, RestInv
  <2>2. DialogInv' /\ OnlyNovemberLong'
    BY <1>11, SameDialog DEF StopInterrupt
  <2> QED
    BY <1>11, <2>1, <2>2, <2>5 DEF StopInterrupt, Inv
<1>12. CASE SetCounter
  <2>1. Normal(calibration) \in Century
    BY <1>12, NormalType DEF SetCounter, Inv, RestInv
  <2>2. RestInv' /\ ClocksInv' /\ SavedInv' /\ chip' \in Chips
    BY <1>12, <2>1 DEF SetCounter, Inv, RestInv, ClocksInv, SavedInv
  <2>3. DialogInv' /\ OnlyNovemberLong'
    BY <1>12, SameDialog DEF SetCounter
  <2> QED
    BY <1>12, <2>2, <2>3 DEF SetCounter, Inv
<1>13. CASE EndCalibration
  <2>1. RestInv' /\ ClocksInv' /\ SavedInv' /\ chip' \in Chips
    BY <1>13 DEF EndCalibration, Inv, RestInv, ClocksInv, SavedInv
  <2>2. DialogInv' /\ OnlyNovemberLong'
    BY <1>13, SameDialog DEF EndCalibration
  <2> QED
    BY <1>13, <2>1, <2>2 DEF EndCalibration, Inv
<1>14. CASE UNCHANGED vars
  <2>1. RestInv' /\ ClocksInv' /\ SavedInv' /\ chip' \in Chips
    BY <1>14 DEF vars, Inv, RestInv, ClocksInv, SavedInv
  <2>2. DialogInv' /\ OnlyNovemberLong'
    BY <1>14, SameDialog DEF vars
  <2> QED
    BY <1>14, <2>1, <2>2 DEF vars, Inv
<1> QED
  BY <1>1, <1>2, <1>3, <1>4, <1>5, <1>6, <1>7, <1>8, <1>9, <1>10, <1>11, <1>12, <1>13, <1>14 DEF Next

THEOREM InvHolds == Spec => []Inv
BY InvInit, InvStep, PTL DEF Spec

LEMMA InvType == ASSUME Inv PROVE TypeOK
<1>1. Century \subseteq Times
  BY NoTimeIsNone
<1> QED
  BY <1>1 DEF Inv, ClocksInv, DialogInv, SavedInv, RestInv, TypeOK

\* Every clock holds a time, and the chip what its registers can hold, all
\* through calibrations that stop half way (TIME_OP.c, tcp_client.c:151-178).
THEOREM TypeCorrect == Spec => []TypeOK
BY InvHolds, InvType, PTL

\* No sequence of keys makes a date the calendar does not have, but for the
\* 31st of November, whatever the years the dialog may be set to
\* (RA8806_CTRL.c:1737-1895).
THEOREM OneLongMonth == Spec => []OnlyNovemberLong
<1>1. Inv => OnlyNovemberLong
  BY DEF Inv
<1> QED
  BY <1>1, InvHolds, PTL

-----------------------------------------------------------------------------
(* The time that comes back *)

LEMMA StartStep ==
    ASSUME Inv, [Next]_vars, ~power, power', saved # NoTime
    PROVE  rtc' = Normal([saved EXCEPT !.min = DS1302_SetMin(@)])
<1>1. Start
  <2>1. ~(PowerLoss \/ StartRefresh \/ EndRefresh)
    BY DEF PowerLoss, StartRefresh, EndRefresh
  <2>2. ~(RTC_SetDate_Init \/ RTC_SetDate \/ LeaveDialog \/ time_saveto_ds1302)
    <3>1. ASSUME RTC_SetDate_Init PROVE FALSE
      <4>1. HasScreen
        BY <3>1, Zenon DEF RTC_SetDate_Init
      <4> QED
        BY <4>1 DEF HasScreen
    <3>2. ~RTC_SetDate
      BY DEF RTC_SetDate, HasScreen
    <3>3. ~LeaveDialog
      BY DEF LeaveDialog, HasScreen
    <3>4. ~time_saveto_ds1302
      BY DEF time_saveto_ds1302, HasScreen
    <3> QED
      BY <3>1, <3>2, <3>3, <3>4
  <2>3. ~(StartCalibration \/ WriteRegister \/ StopInterrupt \/ SetCounter \/ EndCalibration)
    BY DEF StartCalibration, WriteRegister, StopInterrupt, SetCounter, EndCalibration, Calibrating
  <2>4. ~UNCHANGED vars
    BY DEF vars
  <2> QED
    BY <2>1, <2>2, <2>3, <2>4 DEF Next
<1>2. saved \in Century /\ chip = Stored(saved, saved.mon + 1)
  BY DEF Inv, SavedInv
<1>3. Get_CurrentTime = [saved EXCEPT !.min = DS1302_SetMin(@)]
  BY <1>2, ChipReturns
<1> QED
  BY <1>1, <1>3 DEF Start

\* The time the menu saved is the time the next start sets, every field of it
\* but a full hour's minute, because the menu saves while it holds the screen
\* and so never half of a refresh (TIME_OP.c:40-48, RA8806_CTRL.c:1979-1988).
THEOREM SavedReturns == Spec => SavedTimeReturns
<1>1. Inv /\ [Next]_vars =>
        [~power /\ power' /\ saved # NoTime =>
           rtc' = Normal([saved EXCEPT !.min = DS1302_SetMin(@)])]_vars
  BY StartStep
<1> QED
  BY <1>1, InvHolds, PTL DEF Spec, SavedTimeReturns
=============================================================================

------------------------- MODULE PeriodEditor_proofs -------------------------
(***************************************************************************)
(* Proofs about PeriodEditor, for time tables of any length, any clock and *)
(* any dialogs the operator opens.                                         *)
(***************************************************************************)
EXTENDS PeriodEditor, WellFoundedInduction, TLAPS

-----------------------------------------------------------------------------
(* Numbers *)

\* Induction as a fact about sets.
LEMMA Least ==
    ASSUME NEW T \in SUBSET Nat, T # {} PROVE \E n \in T : \A m \in T : n <= m
<1> DEFINE R == OpToRel(<, Nat)
<1>1. IsWellFoundedOn(R, Nat) /\ \A x, y \in Nat : <<y, x>> \in R <=> y < x
  BY NatLessThanWellFounded DEF OpToRel
<1> HIDE DEF R
<1>2. PICK x \in T : \A y \in T : ~(<<y, x>> \in R)
  BY <1>1, WFMin
<1>3. \A y \in T : ~(y < x)
  BY <1>1, <1>2
<1>4. x \in Nat /\ T \subseteq Nat
  OBVIOUS
<1>5. \A y \in T : x <= y
  BY <1>3, <1>4
<1> QED
  BY <1>5

LEMMA Greatest ==
    ASSUME NEW n \in Nat, NEW T \in SUBSET (0 .. n), T # {}
    PROVE  \E g \in T : \A m \in T : m <= g
<1> DEFINE D == {n - m : m \in T}
<1>0. \A m \in T : m \in Int /\ 0 <= m /\ m <= n
  OBVIOUS
<1>1. D \in SUBSET Nat /\ D # {}
  <2>1. ASSUME NEW d \in D PROVE d \in Nat
    <3>1. PICK m \in T : d = n - m
      OBVIOUS
    <3> QED
      BY <1>0, <3>1
  <2> QED
    BY <2>1, Zenon
<1>2. PICK d \in D : \A e \in D : d <= e
  BY <1>1, Least
<1>3. PICK g \in T : d = n - g
  BY <1>2
<1>4. ASSUME NEW m \in T PROVE m <= g
  <2>1. n - m \in D
    OBVIOUS
  <2>2. n - g <= n - m
    BY <1>2, <1>3, <2>1
  <2> QED
    BY <1>0, <1>3, <2>2
<1> QED
  BY <1>4

-----------------------------------------------------------------------------
(* The scan *)

\* The periods before the i-th that have begun.
BegunBelow(now, i) == {j \in 0 .. i - 1 : ~Before(now, TimeTable[j])}

Body(now, f) ==
    [i \in 0 .. MaxPeriods |->
        IF i = 0 THEN TimeTable_Number - 1
        ELSE IF Before(now, TimeTable[i - 1]) THEN f[i - 1] ELSE i - 1]

LEMMA ScanExists == \A now : \E f : f = Body(now, f)
<1> SUFFICES ASSUME NEW now PROVE \E f : f = Body(now, f)
  OBVIOUS
<1>m. MaxPeriods \in Nat
  BY LimitsAssumption
<1> DEFINE Last(i) == CHOOSE g \in BegunBelow(now, i) : \A j \in BegunBelow(now, i) : j <= g
           f == [i \in 0 .. MaxPeriods |->
                   IF BegunBelow(now, i) = {} THEN TimeTable_Number - 1 ELSE Last(i)]
<1>1. ASSUME NEW i \in 0 .. MaxPeriods
      PROVE  f[i] = IF i = 0 THEN TimeTable_Number - 1
                    ELSE IF Before(now, TimeTable[i - 1]) THEN f[i - 1] ELSE i - 1
  <2>1. CASE i = 0
    <3>1. BegunBelow(now, i) = {}
      BY <2>1 DEF BegunBelow
    <3> QED
      BY <2>1, <3>1
  <2>2. CASE i # 0 /\ Before(now, TimeTable[i - 1])
    <3>1. BegunBelow(now, i) = BegunBelow(now, i - 1)
      BY <1>m, <2>2 DEF BegunBelow
    <3>2. i - 1 \in 0 .. MaxPeriods
      BY <1>m, <2>2
    <3> HIDE DEF Last
    <3>3. Last(i) = Last(i - 1)
      BY <3>1 DEF Last
    <3> QED
      BY <2>2, <3>1, <3>2, <3>3
  <2>3. CASE i # 0 /\ ~Before(now, TimeTable[i - 1])
    <3>1. i - 1 \in BegunBelow(now, i) /\ \A j \in BegunBelow(now, i) : j <= i - 1
      BY <1>m, <2>3 DEF BegunBelow
    <3>2. Last(i) = i - 1
      <4>1. Last(i) \in BegunBelow(now, i) /\ \A j \in BegunBelow(now, i) : j <= Last(i)
        BY <3>1, Zenon
      <4>2. BegunBelow(now, i) \subseteq Int
        BY DEF BegunBelow
      <4> HIDE DEF Last
      <4> QED
        BY <1>m, <3>1, <4>1, <4>2
    <3> HIDE DEF Last
    <3> QED
      BY <2>3, <3>1, <3>2
  <2> QED
    BY <2>1, <2>2, <2>3
<1> HIDE DEF f
<1>2. f = [i \in 0 .. MaxPeriods |-> f[i]]
  BY DEF f
<1> QED
  BY <1>1, <1>2, Zenon DEF Body

LEMMA ScanIs ==
    ASSUME NEW now
    PROVE  \E f : f = Body(now, f) /\ Time_JudgeTimeTable(now) = f[TimeTable_Number]
<1> DEFINE scan == CHOOSE f : f = Body(now, f)
<1>1. scan = Body(now, scan)
  BY ScanExists, Zenon
<1>2. Time_JudgeTimeTable(now) = scan[TimeTable_Number]
  BY Zenon DEF Time_JudgeTimeTable, Body
<1> QED
  BY <1>1, <1>2, Zenon

LEMMA Limits ==
    /\ MaxPeriods \in Nat /\ MaxPeriods >= 1
    /\ MaxHour \in Nat /\ MaxMin \in Nat /\ MaxSec \in Nat
    /\ ByteSize \in Nat /\ ByteSize > MaxHour
    /\ Noon \in Clock /\ FirstPhase \in Tables
BY LimitsAssumption

LEMMA LiveSlots ==
    ASSUME TypeOK
    PROVE  /\ Live \subseteq Slots /\ Live \subseteq Nat /\ 0 \in Live
           /\ TimeTable_Number \in Nat /\ TimeTable_Number - 1 \in Live
           /\ TimeTable_Number \in 1 .. MaxPeriods
BY Limits DEF TypeOK, Live, Slots

\* The scan, from the last period down, stops at the last that has begun.
LEMMA ScanResult ==
    ASSUME TypeOK, NEW now
    PROVE  LET found == Time_JudgeTimeTable(now)
           IN  /\ Begun(now) = {} => found = TimeTable_Number - 1
               /\ Begun(now) # {} => found \in Begun(now) /\ \A j \in Begun(now) : j <= found
<1>n. /\ TimeTable_Number \in Nat /\ MaxPeriods \in Nat /\ TimeTable_Number <= MaxPeriods
  BY Limits DEF TypeOK
<1>1. PICK f : f = Body(now, f) /\ Time_JudgeTimeTable(now) = f[TimeTable_Number]
  BY ScanIs
<1>2. ASSUME NEW i \in 0 .. MaxPeriods
      PROVE  f[i] = IF i = 0 THEN TimeTable_Number - 1
                    ELSE IF Before(now, TimeTable[i - 1]) THEN f[i - 1] ELSE i - 1
  <2> DEFINE g == Body(now, f)
  <2>1. g[i] = IF i = 0 THEN TimeTable_Number - 1
               ELSE IF Before(now, TimeTable[i - 1]) THEN f[i - 1] ELSE i - 1
    BY DEF Body
  <2>2. f = g
    BY <1>1
  <2> HIDE DEF g
  <2> QED
    BY <2>1, <2>2
<1> DEFINE Right(i) ==
             /\ BegunBelow(now, i) = {} => f[i] = TimeTable_Number - 1
             /\ BegunBelow(now, i) # {} =>
                  f[i] \in BegunBelow(now, i) /\ \A j \in BegunBelow(now, i) : j <= f[i]
           Wrong == {i \in 0 .. MaxPeriods : ~Right(i)}
<1>3. Right(0)
  <2>1. BegunBelow(now, 0) = {}
    BY DEF BegunBelow
  <2> QED
    BY <1>n, <1>2, <2>1
<1>4. ASSUME NEW i \in 0 .. MaxPeriods, i # 0, Right(i - 1) PROVE Right(i)
  <2>1. CASE Before(now, TimeTable[i - 1])
    <3>1. BegunBelow(now, i) = BegunBelow(now, i - 1)
      BY <1>n, <1>4, <2>1 DEF BegunBelow
    <3>2. f[i] = f[i - 1]
      BY <1>2, <1>4, <2>1
    <3> QED
      BY <1>4, <3>1, <3>2
  <2>2. CASE ~Before(now, TimeTable[i - 1])
    <3>1. i - 1 \in BegunBelow(now, i) /\ \A j \in BegunBelow(now, i) : j <= i - 1
      BY <1>n, <1>4, <2>2 DEF BegunBelow
    <3>2. f[i] = i - 1
      BY <1>2, <1>4, <2>2
    <3> QED
      BY <3>1, <3>2
  <2> QED
    BY <2>1, <2>2
<1> HIDE DEF Right
<1>5. Wrong = {}
  <2>1. SUFFICES ASSUME Wrong # {} PROVE FALSE
    OBVIOUS
  <2>2. Wrong \in SUBSET Nat
    BY <1>n
  <2>3. PICK i \in Wrong : \A m \in Wrong : i <= m
    BY <2>1, <2>2, Least
  <2>4. i \in 0 .. MaxPeriods /\ ~Right(i) /\ i # 0
    BY <1>3
  <2>5. i - 1 \in 0 .. MaxPeriods /\ i - 1 \notin Wrong
    BY <1>n, <2>3, <2>4
  <2> QED
    BY <1>4, <2>4, <2>5
<1>6. Right(TimeTable_Number)
  BY <1>5, <1>n
<1>7. BegunBelow(now, TimeTable_Number) = Begun(now)
  BY DEF BegunBelow, Begun, Live
<1> QED
  BY <1>1, <1>6, <1>7 DEF Right

LEMMA ScanInUse == ASSUME TypeOK, NEW now PROVE Time_JudgeTimeTable(now) \in Live
<1>1. Begun(now) \subseteq Live /\ TimeTable_Number - 1 \in Live
  BY LiveSlots DEF Begun
<1> QED
  BY <1>1, ScanResult

LEMMA NotBeforeItself ==
    ASSUME NEW t \in Times PROVE ~Before(t, t)
BY Limits DEF Before, Times

LEMMA TypeScan == ASSUME TypeOK PROVE ScanFindsPeriod
<1> SUFFICES ASSUME InOrder, NEW now \in Clock
             PROVE  LET found == Time_JudgeTimeTable(now)
                        among == IF Begun(now) = {} THEN Live ELSE Begun(now)
                    IN  /\ found \in among
                        /\ \A i \in among : ~Before(TimeTable[found], TimeTable[i])
  BY DEF ScanFindsPeriod
<1> DEFINE found == Time_JudgeTimeTable(now)
<1>1. /\ Begun(now) = {} => found = TimeTable_Number - 1
      /\ Begun(now) # {} => found \in Begun(now) /\ \A j \in Begun(now) : j <= found
  BY ScanResult
<1>2. found \in Live /\ Live \subseteq Int /\ Begun(now) \subseteq Live
  BY ScanInUse, LiveSlots DEF Begun
<1> HIDE DEF found
<1>3. ASSUME NEW i \in Live, i <= found PROVE ~Before(TimeTable[found], TimeTable[i])
  <2>1. CASE i = found
    <3>1. TimeTable[found] \in Times
      BY <1>2, LiveSlots DEF TypeOK
    <3> QED
      BY <2>1, <3>1, NotBeforeItself
  <2>2. CASE i # found
    BY <1>2, <1>3, <2>2 DEF InOrder
  <2> QED
    BY <2>1, <2>2
<1>4. CASE Begun(now) = {}
  <2>1. \A i \in Live : i <= found
    BY <1>1, <1>4, LiveSlots DEF Live
  <2> QED
    BY <1>2, <1>3, <1>4, <2>1 DEF found
<1>5. CASE Begun(now) # {}
  BY <1>1, <1>2, <1>3, <1>5 DEF found
<1> QED
  BY <1>4, <1>5

-----------------------------------------------------------------------------
(* The inductive invariant *)

\* A dialog that selects a period selects one in use; del_period has two fields.
SelInv ==
    /\ dialog \in {"set", "del"} => period_sel \in Live
    /\ dialog = "del" => sel \in 0 .. 1

Inv == TypeOK /\ SelInv

LEMMA ClockType == Clock \subseteq Times /\ Noon \in Times
BY Limits DEF Clock, Times

LEMMA InvInit == ASSUME Init PROVE Inv
<1>1. TimeTable \in [Slots -> Times] /\ PhaseTable \in [Slots -> Tables]
  BY ClockType, InitialAssumption DEF Init
<1>2. TimeTable_Number \in 1 .. MaxPeriods
  BY InitialAssumption DEF Init
<1> QED
  BY <1>1, <1>2, ClockType, Limits DEF Init, Inv, TypeOK, SelInv

\* One field of the time set anew.
LEMMA SetField ==
    ASSUME NEW t \in Times
    PROVE  /\ \A v \in 0 .. ByteSize - 1 : [t EXCEPT !.hour = v] \in Times
           /\ \A v \in 0 .. MaxMin : [t EXCEPT !.min = v] \in Times
           /\ \A v \in 0 .. MaxSec : [t EXCEPT !.sec = v] \in Times
BY DEF Times

LEMMA TimeFields ==
    ASSUME NEW t \in Times
    PROVE  t.hour \in 0 .. ByteSize - 1 /\ t.min \in 0 .. MaxMin /\ t.sec \in 0 .. MaxSec
BY DEF Times

\* The neighbours the limits come from are periods.
LEMMA NeighbourType ==
    ASSUME Inv, dialog = "set"
    PROVE  (HasNext => After \in Times) /\ (HasPrevious => Prior \in Times)
<1>1. /\ period_sel \in Nat /\ period_sel < TimeTable_Number /\ TimeTable_Number <= MaxPeriods
      /\ TimeTable_Number \in Nat /\ MaxPeriods \in Nat
  BY LiveSlots, Limits DEF Inv, SelInv, Live
<1>2. HasNext => period_sel + 1 \in Slots
  BY <1>1 DEF HasNext, Slots
<1>3. HasPrevious => period_sel - 1 \in Slots
  BY <1>1 DEF HasPrevious, Slots
<1> QED
  BY <1>2, <1>3 DEF After, Prior, Inv, TypeOK

\* A key of set_period leaves a time.
LEMMA SetTimeType == ASSUME Inv, SetTime PROVE time' \in Times
<1>t. time \in Times /\ dialog = "set"
  BY DEF SetTime, SetHourUp, SetHourDown, SetMinUp, SetMinDown, SetSecUp, SetSecDown,
         InDialog, Inv, TypeOK
<1>f. /\ time.hour \in 0 .. ByteSize - 1 /\ time.min \in 0 .. MaxMin /\ time.sec \in 0 .. MaxSec
      /\ ByteSize \in Nat /\ ByteSize > 0 /\ MaxMin \in Nat /\ MaxSec \in Nat
  BY <1>t, TimeFields, Limits
<1>a. ASSUME HasNext PROVE After.min \in 0 .. MaxMin /\ After.sec \in 0 .. MaxSec
  BY <1>a, <1>t, NeighbourType, TimeFields
<1>p. ASSUME HasPrevious PROVE Prior.min \in 0 .. MaxMin /\ Prior.sec \in 0 .. MaxSec
  BY <1>p, <1>t, NeighbourType, TimeFields
<1>1. CASE SetHourUp
  <2>1. (time.hour + 1) % ByteSize \in 0 .. ByteSize - 1
    BY <1>f
  <2> QED
    BY <1>1, <1>t, <2>1, SetField, Zenon DEF SetHourUp, Tune
<1>2. CASE SetHourDown
  <2>1. (time.hour - 1) % ByteSize \in 0 .. ByteSize - 1
    BY <1>f
  <2> QED
    BY <1>2, <1>t, <2>1, SetField, Zenon DEF SetHourDown, Tune
<1>3. CASE SetMinUp
  <2>1. time.min + 1 \in 0 .. MaxMin
    <3>1. CASE HasNext /\ time.hour = After.hour
      BY <1>3, <1>f, <1>a, <3>1 DEF SetMinUp
    <3> QED
      BY <1>3, <1>f, <3>1 DEF SetMinUp
  <2> QED
    BY <1>3, <1>t, <2>1, SetField, Zenon DEF SetMinUp, Tune
<1>4. CASE SetMinDown
  <2>1. time.min - 1 \in 0 .. MaxMin
    <3>1. CASE HasPrevious /\ time.hour = Prior.hour
      BY <1>4, <1>f, <1>p, <3>1 DEF SetMinDown
    <3> QED
      BY <1>4, <1>f, <3>1 DEF SetMinDown
  <2> QED
    BY <1>4, <1>t, <2>1, SetField, Zenon DEF SetMinDown, Tune
<1>5. CASE SetSecUp
  <2>1. time.sec + 1 \in 0 .. MaxSec
    <3>1. CASE HasNext /\ time.hour = After.hour /\ time.min = After.min
      BY <1>5, <1>f, <1>a, <3>1 DEF SetSecUp
    <3> QED
      BY <1>5, <1>f, <3>1 DEF SetSecUp
  <2> QED
    BY <1>5, <1>t, <2>1, SetField, Zenon DEF SetSecUp, Tune
<1>6. CASE SetSecDown
  <2>1. time.sec - 1 \in 0 .. MaxSec
    <3>1. CASE HasPrevious /\ time.hour = Prior.hour /\ time.min = Prior.min
      BY <1>6, <1>f, <1>p, <3>1 DEF SetSecDown
    <3> QED
      BY <1>6, <1>f, <3>1 DEF SetSecDown
  <2> QED
    BY <1>6, <1>t, <2>1, SetField, Zenon DEF SetSecDown, Tune
<1> QED
  BY <1>1, <1>2, <1>3, <1>4, <1>5, <1>6 DEF SetTime

\* So does one of add_period, round the clock.
LEMMA AddTurnType == ASSUME Inv, AddTurnTime PROVE time' \in Times
<1>t. time \in Times
  BY DEF Inv, TypeOK
<1>f. /\ time.hour \in 0 .. ByteSize - 1 /\ time.min \in 0 .. MaxMin /\ time.sec \in 0 .. MaxSec
      /\ ByteSize \in Nat /\ MaxHour \in Nat /\ MaxHour < ByteSize /\ MaxMin \in Nat /\ MaxSec \in Nat
  BY <1>t, TimeFields, Limits
<1>1. CASE AddTurn("hour", MaxHour)
  <2>1. PICK step \in {1, MaxHour} :
          time' = [time EXCEPT !["hour"] = (time["hour"] + step) % (MaxHour + 1)]
    BY <1>1, Zenon DEF AddTurn, Tune
  <2>2. (time.hour + step) % (MaxHour + 1) \in 0 .. ByteSize - 1
    BY <1>f, <2>1
  <2> QED
    BY <1>t, <2>1, <2>2, SetField, Zenon
<1>2. CASE AddTurn("min", MaxMin)
  <2>1. PICK step \in {1, MaxMin} :
          time' = [time EXCEPT !["min"] = (time["min"] + step) % (MaxMin + 1)]
    BY <1>2, Zenon DEF AddTurn, Tune
  <2>2. (time.min + step) % (MaxMin + 1) \in 0 .. MaxMin
    BY <1>f, <2>1
  <2> QED
    BY <1>t, <2>1, <2>2, SetField, Zenon
<1>3. CASE AddTurn("sec", MaxSec)
  <2>1. PICK step \in {1, MaxSec} :
          time' = [time EXCEPT !["sec"] = (time["sec"] + step) % (MaxSec + 1)]
    BY <1>3, Zenon DEF AddTurn, Tune
  <2>2. (time.sec + step) % (MaxSec + 1) \in 0 .. MaxSec
    BY <1>f, <2>1
  <2> QED
    BY <1>t, <2>1, <2>2, SetField, Zenon
<1> QED
  BY <1>1, <1>2, <1>3 DEF AddTurnTime

-----------------------------------------------------------------------------
(* Adding and deleting *)

\* Where a new period goes: before the first that starts no earlier.
LEMMA InsertPlace ==
    ASSUME TypeOK
    PROVE  /\ InsertAt \in 0 .. TimeTable_Number
           /\ \A i \in Live : i < InsertAt => Before(TimeTable[i], time)
           /\ InsertAt \in Live => ~Before(TimeTable[InsertAt], time)
<1>1. CASE NotPassed = {}
  <2>1. InsertAt = TimeTable_Number
    BY <1>1 DEF InsertAt
  <2>2. \A i \in Live : Before(TimeTable[i], time)
    BY <1>1 DEF NotPassed
  <2>3. InsertAt \notin Live /\ InsertAt \in 0 .. TimeTable_Number
    BY <2>1, LiveSlots DEF Live
  <2> QED
    BY <2>2, <2>3
<1>2. CASE NotPassed # {}
  <2>1. NotPassed \in SUBSET Nat /\ NotPassed \subseteq Live
    BY LiveSlots DEF NotPassed
  <2>2. \E i \in NotPassed : \A j \in NotPassed : i <= j
    BY <1>2, <2>1, Least
  <2>3. InsertAt = CHOOSE i \in NotPassed : \A j \in NotPassed : i <= j
    BY <1>2 DEF InsertAt
  <2>4. InsertAt \in NotPassed /\ \A j \in NotPassed : InsertAt <= j
    BY <2>2, <2>3, Zenon
  <2>5. InsertAt \in Live /\ InsertAt \in 0 .. TimeTable_Number /\ InsertAt \in Int
    BY <2>1, <2>4, LiveSlots DEF Live
  <2>6. ASSUME NEW i \in Live, i < InsertAt PROVE Before(TimeTable[i], time)
    <3>1. i \notin NotPassed
      BY <2>4, <2>5, <2>6, LiveSlots
    <3> QED
      BY <2>6, <3>1 DEF NotPassed
  <2> QED
    BY <2>4, <2>5, <2>6 DEF NotPassed
<1> QED
  BY <1>1, <1>2

LEMMA ShiftedUpType ==
    ASSUME TypeOK, NEW S, NEW a \in [Slots -> S], NEW at \in 0 .. TimeTable_Number, NEW new \in S
    PROVE  ShiftedUp(a, at, new) \in [Slots -> S]
<1>1. ASSUME NEW i \in Slots, i \in at + 1 .. TimeTable_Number PROVE i - 1 \in Slots
  BY <1>1, LiveSlots, Limits DEF Slots
<1> QED
  BY <1>1 DEF ShiftedUp

LEMMA ShiftedDownType ==
    ASSUME TypeOK, NEW S, NEW a \in [Slots -> S]
    PROVE  ShiftedDown(a) \in [Slots -> S]
<1>1. ASSUME NEW i \in Slots, i \in period_sel .. TimeTable_Number - 3 PROVE i + 1 \in Slots
  BY <1>1, LiveSlots, Limits DEF Slots
<1> QED
  BY <1>1 DEF ShiftedDown

LEMMA AddType == ASSUME Inv, AddSave PROVE Inv'
<1>1. InsertAt \in 0 .. TimeTable_Number
  BY InsertPlace DEF Inv
<1>2. TimeTable' \in [Slots -> Times] /\ PhaseTable' \in [Slots -> Tables]
  BY <1>1, ShiftedUpType, Limits DEF AddSave, Inv, TypeOK
<1>3. TimeTable_Number' \in 1 .. MaxPeriods /\ period_sel' \in 0 .. MaxPeriods
  BY <1>1, Limits DEF AddSave, Inv, TypeOK
<1>4. dialog = "add" /\ UNCHANGED <<dialog, state, sel, time>>
  BY DEF AddSave, InDialog
<1> QED
  BY <1>2, <1>3, <1>4 DEF Inv, TypeOK, SelInv

LEMMA DelType == ASSUME Inv, DelSave PROVE Inv'
<1>1. TimeTable' \in [Slots -> Times] /\ PhaseTable' \in [Slots -> Tables]
  BY ShiftedDownType DEF DelSave, Inv, TypeOK
<1>2. /\ dialog = "del" /\ UNCHANGED <<dialog, state, sel>> /\ TimeTable_Number > 1
      /\ TimeTable_Number' = TimeTable_Number - 1
      /\ period_sel' = (IF period_sel > 0 THEN period_sel - 1 ELSE 0)
      /\ time' = TimeTable'[period_sel']
  BY DEF DelSave, InDialog
<1>3. period_sel \in 0 .. TimeTable_Number - 1 /\ TimeTable_Number \in Nat
      /\ TimeTable_Number <= MaxPeriods /\ MaxPeriods \in Nat
  BY <1>2, LiveSlots, Limits DEF Inv, SelInv, Live
<1>4. /\ TimeTable_Number' \in 1 .. MaxPeriods /\ period_sel' \in 0 .. TimeTable_Number' - 1
      /\ period_sel' \in Slots /\ period_sel' \in 0 .. MaxPeriods
  BY <1>2, <1>3 DEF Slots
<1>5. time' \in Times
  BY <1>1, <1>2, <1>4
<1> QED
  BY <1>1, <1>2, <1>4, <1>5 DEF Inv, TypeOK, SelInv, Live

LEMMA InvStep == ASSUME Inv, [Next]_vars PROVE Inv'
<1> USE DEF schedule
<1>t. TypeOK /\ SelInv
  BY DEF Inv
<1>1. ASSUME NEW d \in Uses, OpenDialog(d) PROVE Inv'
  <2>1. d \in {"set", "add", "del"}
    BY DialogsAssumption
  <2>2. 0 \in Slots /\ 0 \in Live /\ TimeTable[0] \in Times /\ Noon \in Times /\ 0 \in 0 .. MaxPeriods
    BY <1>t, LiveSlots, ClockType, Limits DEF TypeOK
  <2>3. time' \in Times
    BY <1>1, <2>2 DEF OpenDialog
  <2>4. /\ dialog' = d /\ state' = "ready" /\ sel' = 0 /\ period_sel' = 0
        /\ UNCHANGED <<TimeTable_Number, TimeTable, PhaseTable>>
    BY <1>1 DEF OpenDialog
  <2>5. TypeOK'
    BY <1>t, <2>1, <2>2, <2>3, <2>4 DEF TypeOK
  <2>6. SelInv'
    BY <2>2, <2>4 DEF SelInv, Live
  <2> QED
    BY <2>5, <2>6 DEF Inv
<1>2. CASE DrawScreen \/ KEY6
  BY <1>2, <1>t DEF DrawScreen, KEY6, Inv, TypeOK, SelInv, Live
<1>3. CASE CloseDialog
  BY <1>3, <1>t, ClockType, Limits DEF CloseDialog, Inv, TypeOK, SelInv, Live
<1>4. CASE MoveCursor
  <2>1. sel' \in 0 .. 3 /\ (dialog = "del" => sel' \in 0 .. 1)
    <3>1. CASE dialog = "del"
      <4>1. sel' = 1 - sel /\ sel \in 0 .. 1
        BY <1>4, <1>t, <3>1 DEF MoveCursor, SelInv
      <4> QED
        BY <4>1
    <3>2. CASE dialog # "del"
      <4>1. sel \in 0 .. 3 /\ sel' \in {(sel + 1) % 4, (sel + 3) % 4}
        BY <1>4, <1>t, <3>2 DEF MoveCursor, TypeOK
      <4> QED
        BY <3>2, <4>1
    <3> QED
      BY <3>1, <3>2
  <2>2. UNCHANGED <<TimeTable_Number, TimeTable, PhaseTable, dialog, state, period_sel, time>>
    BY <1>4 DEF MoveCursor, InDialog
  <2> QED
    BY <2>1, <2>2, <1>t DEF Inv, TypeOK, SelInv, Live
<1>5. CASE SelectNext \/ SelectPrevious
  <2>1. /\ dialog \in {"set", "del"}
        /\ UNCHANGED <<TimeTable_Number, TimeTable, PhaseTable, dialog, state, sel>>
        /\ time' = TimeTable[period_sel']
    BY <1>5 DEF SelectNext, SelectPrevious, Select, InDialog
  <2>2. period_sel' \in Live
    <3>1. period_sel \in Int /\ 0 <= period_sel /\ period_sel < TimeTable_Number
          /\ TimeTable_Number \in Nat
      BY <1>t, <2>1, LiveSlots DEF SelInv, Live
    <3> QED
      BY <1>5, <3>1 DEF SelectNext, SelectPrevious, Select, Live
  <2>3. period_sel' \in Slots /\ period_sel' \in 0 .. MaxPeriods
    BY <1>t, <2>2, LiveSlots, Limits DEF Live, Slots
  <2>4. time' \in Times
    BY <1>t, <2>1, <2>3 DEF TypeOK
  <2> QED
    BY <1>t, <2>1, <2>2, <2>3, <2>4 DEF Inv, TypeOK, SelInv, Live
<1>6. CASE SetTime
  <2>1. time' \in Times
    BY <1>6, SetTimeType
  <2>2. UNCHANGED <<TimeTable_Number, TimeTable, PhaseTable, dialog, state, sel, period_sel>>
    BY <1>6 DEF SetTime, SetHourUp, SetHourDown, SetMinUp, SetMinDown, SetSecUp, SetSecDown,
                InDialog, Tune
  <2> QED
    BY <1>t, <2>1, <2>2 DEF Inv, TypeOK, SelInv, Live
<1>7. CASE SetSave
  <2>1. /\ TimeTable' = [TimeTable EXCEPT ![period_sel] = time]
        /\ UNCHANGED <<TimeTable_Number, PhaseTable, dialog, state, sel, period_sel, time>>
    BY <1>7 DEF SetSave, InDialog
  <2>2. TimeTable' \in [Slots -> Times]
    BY <1>t, <2>1 DEF TypeOK
  <2> QED
    BY <1>t, <2>1, <2>2 DEF Inv, TypeOK, SelInv, Live
<1>8. CASE AddTurnTime
  <2>1. time' \in Times
    BY <1>8, AddTurnType
  <2>2. UNCHANGED <<TimeTable_Number, TimeTable, PhaseTable, dialog, state, sel, period_sel>>
    BY <1>8 DEF AddTurnTime, AddTurn, InDialog, Tune
  <2> QED
    BY <1>t, <2>1, <2>2 DEF Inv, TypeOK, SelInv, Live
<1>9. CASE AddSave
  BY <1>9, AddType
<1>10. CASE AddRefused
  <2>1. /\ dialog = "add" /\ period_sel' = TimeTable_Number
        /\ UNCHANGED <<TimeTable_Number, TimeTable, PhaseTable, dialog, state, sel, time>>
    BY <1>10 DEF AddRefused, InDialog
  <2>2. TimeTable_Number \in 0 .. MaxPeriods
    BY <1>t, Limits DEF TypeOK
  <2> QED
    BY <1>t, <2>1, <2>2 DEF Inv, TypeOK, SelInv
<1>11. CASE DelSave
  BY <1>11, DelType
<1>12. CASE UNCHANGED vars
  BY <1>12, <1>t DEF vars, Inv, TypeOK, SelInv, Live
<1> QED
  BY <1>1, <1>2, <1>3, <1>4, <1>5, <1>6, <1>7, <1>8, <1>9, <1>10, <1>11, <1>12 DEF Next

THEOREM InvHolds == Spec => []Inv
BY InvInit, InvStep, PTL DEF Spec

\* Whatever the dialogs do, every period starts at a minute and a second of the
\* clock and at an hour of one byte, and the numbers stay within the table
\* (RA8806_CTRL.c:4330-4830).
THEOREM TypeCorrect == Spec => []TypeOK
BY InvHolds, PTL DEF Inv

\* A table of any length, in order or not, any clock: the period selected for
\* a time of day and the one under edit are in use (TIME_OP.c:78-98).
THEOREM Selections == Spec => []SelectionsInUse
<1>1. Inv => SelectionsInUse
  BY ScanInUse DEF Inv, SelInv, SelectionsInUse
<1> QED
  BY <1>1, InvHolds, PTL

\* Where the table is in order the scan is right at every time of day.
THEOREM ScanRight == Spec => []ScanFindsPeriod
<1>1. Inv => ScanFindsPeriod
  BY TypeScan DEF Inv
<1> QED
  BY <1>1, InvHolds, PTL

-----------------------------------------------------------------------------
(* What an addition and a deletion keep *)

\* Only two keys change the number of periods.
LEMMA NumberChanges ==
    ASSUME [Next]_vars, TimeTable_Number' # TimeTable_Number PROVE AddSave \/ DelSave
<1> USE DEF schedule
<1>1. ~\E d \in Uses : OpenDialog(d)
  BY DEF OpenDialog
<1>2. ~(DrawScreen \/ KEY6 \/ CloseDialog \/ MoveCursor)
  BY DEF DrawScreen, KEY6, CloseDialog, MoveCursor
<1>3. ~(SelectNext \/ SelectPrevious \/ SetSave \/ AddRefused)
  BY DEF SelectNext, SelectPrevious, Select, SetSave, AddRefused
<1>4. ~(SetTime \/ AddTurnTime)
  BY DEF SetTime, SetHourUp, SetHourDown, SetMinUp, SetMinDown, SetSecUp, SetSecDown,
         AddTurnTime, AddTurn, Tune
<1>5. ~UNCHANGED vars
  BY DEF vars
<1> QED
  BY <1>1, <1>2, <1>3, <1>4, <1>5 DEF Next

\* Where the periods are after an addition.
LEMMA Added ==
    ASSUME Inv, AddSave
    PROVE  /\ InsertAt \in 0 .. TimeTable_Number /\ TimeTable_Number' = TimeTable_Number + 1
           /\ Live' = 0 .. TimeTable_Number
           /\ TimeTable'[InsertAt] = time /\ PhaseTable'[InsertAt] = FirstPhase
           /\ \A i \in Live : i < InsertAt =>
                 TimeTable'[i] = TimeTable[i] /\ PhaseTable'[i] = PhaseTable[i]
           /\ \A i \in Live : InsertAt <= i =>
                 TimeTable'[i + 1] = TimeTable[i] /\ PhaseTable'[i + 1] = PhaseTable[i]
<1>1. /\ InsertAt \in 0 .. TimeTable_Number /\ TimeTable_Number \in Nat /\ MaxPeriods \in Nat
      /\ TimeTable_Number < MaxPeriods
  BY InsertPlace, LiveSlots, Limits DEF Inv, AddSave
<1>2. 0 .. TimeTable_Number \subseteq Slots
  BY <1>1 DEF Slots
<1>3. TimeTable_Number' = TimeTable_Number + 1 /\ Live' = 0 .. TimeTable_Number
  BY <1>1 DEF AddSave, Live
<1> DEFINE at == InsertAt
<1>4. /\ TimeTable' = ShiftedUp(TimeTable, at, time)
      /\ PhaseTable' = ShiftedUp(PhaseTable, at, FirstPhase)
  BY DEF AddSave
<1> HIDE DEF at
<1>5. ASSUME NEW a, NEW new, NEW a2, a2 = ShiftedUp(a, at, new), at \in 0 .. TimeTable_Number
      PROVE  /\ a2[at] = new
             /\ \A i \in Live : i < at => a2[i] = a[i]
             /\ \A i \in Live : at <= i => a2[i + 1] = a[i]
  <2>1. a2[at] = new
    BY <1>2, <1>5 DEF ShiftedUp
  <2>2. ASSUME NEW i \in Live, i < at PROVE a2[i] = a[i]
    <3>1. i \in Slots /\ i # at /\ i \notin at + 1 .. TimeTable_Number
      BY <1>1, <1>2, <1>5, <2>2 DEF Live
    <3> QED
      BY <1>5, <3>1 DEF ShiftedUp
  <2>3. ASSUME NEW i \in Live, at <= i PROVE a2[i + 1] = a[i]
    <3>1. i + 1 \in Slots /\ i + 1 # at /\ i + 1 \in at + 1 .. TimeTable_Number /\ (i + 1) - 1 = i
      BY <1>1, <1>2, <1>5, <2>3 DEF Live
    <3> QED
      BY <1>5, <3>1 DEF ShiftedUp
  <2> QED
    BY <2>1, <2>2, <2>3
<1>6. at \in 0 .. TimeTable_Number
  BY <1>1 DEF at
<1>7. /\ TimeTable'[at] = time /\ PhaseTable'[at] = FirstPhase
      /\ \A i \in Live : i < at => TimeTable'[i] = TimeTable[i] /\ PhaseTable'[i] = PhaseTable[i]
      /\ \A i \in Live : at <= i => TimeTable'[i + 1] = TimeTable[i] /\ PhaseTable'[i + 1] = PhaseTable[i]
  BY <1>4, <1>5, <1>6
<1> QED
  BY <1>1, <1>3, <1>7 DEF at

LEMMA AddPlan == ASSUME Inv, AddSave PROVE Plan' = Plan \cup {<<time, FirstPhase>>}
<1> DEFINE at == InsertAt
<1>1. /\ at \in 0 .. TimeTable_Number /\ Live' = 0 .. TimeTable_Number
      /\ TimeTable'[at] = time /\ PhaseTable'[at] = FirstPhase
      /\ \A i \in Live : i < at => TimeTable'[i] = TimeTable[i] /\ PhaseTable'[i] = PhaseTable[i]
      /\ \A i \in Live : at <= i => TimeTable'[i + 1] = TimeTable[i] /\ PhaseTable'[i + 1] = PhaseTable[i]
  BY Added
<1>2. TimeTable_Number \in Nat /\ Live = 0 .. TimeTable_Number - 1
  BY LiveSlots DEF Inv, Live
<1> HIDE DEF at
<1>3. Plan' = {<<TimeTable'[i], PhaseTable'[i]>> : i \in 0 .. TimeTable_Number}
  BY <1>1 DEF Plan
<1>4. ASSUME NEW i \in 0 .. TimeTable_Number
      PROVE  <<TimeTable'[i], PhaseTable'[i]>> \in Plan \cup {<<time, FirstPhase>>}
  <2>1. CASE i < at
    <3>1. i \in Live
      BY <1>1, <1>2, <2>1
    <3> QED
      BY <1>1, <2>1, <3>1 DEF Plan
  <2>2. CASE i = at
    BY <1>1, <2>2
  <2>3. CASE i > at
    <3>1. i - 1 \in Live /\ at <= i - 1 /\ (i - 1) + 1 = i
      BY <1>1, <1>2, <2>3
    <3>2. TimeTable'[i] = TimeTable[i - 1] /\ PhaseTable'[i] = PhaseTable[i - 1]
      BY <1>1, <3>1
    <3> QED
      BY <3>1, <3>2 DEF Plan
  <2> QED
    BY <1>1, <2>1, <2>2, <2>3
<1>5. ASSUME NEW i \in Live PROVE <<TimeTable[i], PhaseTable[i]>> \in Plan'
  <2>1. CASE i < at
    <3>1. i \in 0 .. TimeTable_Number
      BY <1>2
    <3> QED
      BY <1>1, <1>3, <2>1, <3>1
  <2>2. CASE at <= i
    <3>1. i + 1 \in 0 .. TimeTable_Number
      BY <1>2
    <3> QED
      BY <1>1, <1>3, <2>2, <3>1
  <2> QED
    BY <1>1, <1>2, <2>1, <2>2
<1>6. <<time, FirstPhase>> \in Plan'
  BY <1>1, <1>3
<1>7. Plan' \subseteq Plan \cup {<<time, FirstPhase>>}
  BY <1>3, <1>4
<1>8. Plan \subseteq Plan'
  BY <1>5 DEF Plan
<1> QED
  BY <1>6, <1>7, <1>8

\* An addition loses no period and no period's phases, at any place of a table
\* of any length, in order or not (RA8806_CTRL.c:4781-4794).
THEOREM KeepsOthers == Spec => AddKeepsOthers
<1>1. ASSUME Inv, [Next]_vars, dialog = "add", TimeTable_Number' # TimeTable_Number
      PROVE  Plan' = Plan \cup {<<time, FirstPhase>>}
  <2>1. ~DelSave
    BY <1>1 DEF DelSave, InDialog
  <2> QED
    BY <1>1, <2>1, NumberChanges, AddPlan
<1>2. Inv /\ [Next]_vars =>
        [dialog = "add" /\ TimeTable_Number' # TimeTable_Number
           => Plan' = Plan \cup {<<time, FirstPhase>>}]_vars
  BY <1>1
<1> QED
  BY <1>2, InvHolds, PTL DEF Spec, AddKeepsOthers

\* The comparison of times is a total order.
LEMMA TimeNumbers ==
    ASSUME NEW t \in Times PROVE t.hour \in Int /\ t.min \in Int /\ t.sec \in Int
BY Limits DEF Times

LEMMA BeforeAsymmetric ==
    ASSUME NEW s \in Times, NEW t \in Times, Before(s, t) PROVE ~Before(t, s)
BY TimeNumbers DEF Before

LEMMA BeforeTransitive ==
    ASSUME NEW r \in Times, NEW s \in Times, NEW t \in Times, ~Before(s, r), ~Before(t, s)
    PROVE  ~Before(t, r)
BY TimeNumbers DEF Before

LEMMA BeforeTotal ==
    ASSUME NEW s \in Times, NEW t \in Times, ~Before(s, t), ~Before(t, s) PROVE s = t
<1>1. s.hour = t.hour /\ s.min = t.min /\ s.sec = t.sec
  BY TimeNumbers DEF Before
<1> QED
  BY <1>1 DEF Times

LEMMA LiveTimes ==
    ASSUME Inv PROVE time \in Times /\ \A i \in Live : TimeTable[i] \in Times /\ i \in Int
BY LiveSlots DEF Inv, TypeOK

LEMMA AddOrder == ASSUME Inv, InOrder, AddSave PROVE InOrder' /\ Unused(time)
<1> DEFINE at == InsertAt
<1>1. /\ at \in 0 .. TimeTable_Number /\ Live' = 0 .. TimeTable_Number
      /\ TimeTable'[at] = time
      /\ \A i \in Live : i < at => TimeTable'[i] = TimeTable[i]
      /\ \A i \in Live : at <= i => TimeTable'[i + 1] = TimeTable[i]
  BY Added
<1>2. TimeTable_Number \in Nat /\ Live = 0 .. TimeTable_Number - 1
  BY LiveSlots DEF Inv, Live
<1>3. /\ \A i \in Live : i < at => Before(TimeTable[i], time)
      /\ at \in Live => ~Before(TimeTable[at], time)
  BY InsertPlace DEF Inv
<1>4. at \in Live => TimeTable[at] # time
  BY DEF AddSave, Repeated
<1> HIDE DEF at
<1>5. ASSUME NEW i \in Live, at <= i PROVE ~Before(TimeTable[i], time) /\ TimeTable[i] # time
  <2>1. at \in Live
    BY <1>1, <1>2, <1>5
  <2>2. ~Before(TimeTable[i], TimeTable[at])
    <3>1. CASE i = at
      BY <3>1, LiveTimes, NotBeforeItself, <2>1
    <3>2. CASE i # at
      <4>1. at < i
        BY <1>1, <1>2, <1>5, <3>2
      <4> QED
        BY <2>1, <4>1 DEF InOrder
    <3> QED
      BY <3>1, <3>2
  <2>3. TimeTable[i] \in Times /\ TimeTable[at] \in Times /\ time \in Times
    BY <2>1, LiveTimes
  <2>4. ~Before(TimeTable[i], time)
    BY <1>3, <2>1, <2>2, <2>3, BeforeTransitive
  <2>5. TimeTable[i] # time
    BY <1>3, <1>4, <2>1, <2>2, <2>3, BeforeTotal
  <2> QED
    BY <2>4, <2>5
<1>6. Unused(time)
  <2> SUFFICES ASSUME NEW i \in Live PROVE TimeTable[i] # time
    BY DEF Unused
  <2>1. CASE i < at
    <3>1. TimeTable[i] \in Times
      BY LiveTimes
    <3> QED
      BY <1>3, <2>1, <3>1, NotBeforeItself
  <2>2. CASE at <= i
    BY <1>5, <2>2
  <2> QED
    BY <1>1, <1>2, <2>1, <2>2
<1>7. ASSUME NEW i \in 0 .. TimeTable_Number, NEW j \in 0 .. TimeTable_Number, i < j
      PROVE  ~Before(TimeTable'[j], TimeTable'[i])
  <2>1. CASE j < at
    <3>1. i \in Live /\ j \in Live /\ i < at
      BY <1>1, <1>2, <1>7, <2>1
    <3> QED
      BY <1>1, <1>7, <2>1, <3>1 DEF InOrder
  <2>2. CASE j = at
    <3>1. i \in Live /\ i < at
      BY <1>1, <1>2, <1>7, <2>2
    <3>2. Before(TimeTable[i], time) /\ TimeTable[i] \in Times /\ time \in Times
      BY <1>3, <3>1, LiveTimes
    <3> QED
      BY <1>1, <2>2, <3>1, <3>2, BeforeAsymmetric
  <2>3. CASE at < j
    <3>1. j - 1 \in Live /\ at <= j - 1 /\ (j - 1) + 1 = j
      BY <1>1, <1>2, <2>3
    <3>2. TimeTable'[j] = TimeTable[j - 1]
      BY <1>1, <3>1
    <3>3. CASE i < at
      <4>1. i \in Live /\ i < j - 1
        BY <1>1, <1>2, <2>3, <3>3
      <4> QED
        BY <1>1, <3>1, <3>2, <3>3, <4>1 DEF InOrder
    <3>4. CASE i = at
      BY <1>1, <1>5, <3>1, <3>2, <3>4
    <3>5. CASE at < i
      <4>1. i - 1 \in Live /\ at <= i - 1 /\ (i - 1) + 1 = i /\ i - 1 < j - 1
        BY <1>1, <1>2, <1>7, <3>5
      <4>2. TimeTable'[i] = TimeTable[i - 1]
        BY <1>1, <4>1
      <4> QED
        BY <3>1, <3>2, <4>1, <4>2 DEF InOrder
    <3> QED
      BY <1>1, <3>3, <3>4, <3>5
  <2> QED
    BY <1>1, <2>1, <2>2, <2>3
<1> QED
  BY <1>1, <1>6, <1>7 DEF InOrder

LEMMA DelOrder == ASSUME Inv, InOrder, DelSave PROVE InOrder'
<1>1. /\ TimeTable_Number \in Nat /\ TimeTable_Number > 1 /\ TimeTable_Number <= MaxPeriods
      /\ MaxPeriods \in Nat /\ period_sel \in Int
      /\ Live' = 0 .. TimeTable_Number - 2 /\ Live = 0 .. TimeTable_Number - 1
      /\ TimeTable' = ShiftedDown(TimeTable)
  BY LiveSlots, Limits DEF DelSave, Inv, TypeOK, Live
\* Where a period of the new table was.
<1> DEFINE was(i) == IF i \in period_sel .. TimeTable_Number - 3 THEN i + 1 ELSE i
<1>2. ASSUME NEW i \in 0 .. TimeTable_Number - 2
      PROVE  TimeTable'[i] = TimeTable[was(i)] /\ was(i) \in Live
  <2>1. i \in Slots
    BY <1>1 DEF Slots
  <2>2. TimeTable'[i] = TimeTable[was(i)]
    BY <1>1, <2>1 DEF ShiftedDown
  <2>3. was(i) \in Live
    BY <1>1
  <2> QED
    BY <2>2, <2>3
<1>3. ASSUME NEW i \in 0 .. TimeTable_Number - 2, NEW j \in 0 .. TimeTable_Number - 2, i < j
      PROVE  was(i) <= was(j) /\ was(i) \in Int /\ was(j) \in Int
  BY <1>1, <1>3
<1> HIDE DEF was
<1>4. ASSUME NEW i \in 0 .. TimeTable_Number - 2, NEW j \in 0 .. TimeTable_Number - 2, i < j
      PROVE  ~Before(TimeTable'[j], TimeTable'[i])
  <2>1. CASE was(i) = was(j)
    <3>1. TimeTable[was(i)] \in Times
      BY <1>2, LiveTimes
    <3> QED
      BY <1>2, <2>1, <3>1, NotBeforeItself
  <2>2. CASE was(i) # was(j)
    <3>1. was(i) < was(j)
      BY <1>3, <1>4, <2>2
    <3> QED
      BY <1>2, <3>1 DEF InOrder
  <2> QED
    BY <2>1, <2>2
<1> QED
  BY <1>1, <1>4 DEF InOrder

\* The order the scan depends on survives every addition and deletion, and no
\* two periods start together by an addition (RA8806_CTRL.c:4752-4794).
THEOREM KeepsOrder == Spec => OrderKept
<1>1. ASSUME Inv, [Next]_vars, dialog \in {"add", "del"}, InOrder,
             TimeTable_Number' # TimeTable_Number
      PROVE  InOrder' /\ (dialog = "add" => Unused(time))
  <2>1. CASE AddSave
    BY <1>1, <2>1, AddOrder
  <2>2. CASE DelSave
    <3>1. dialog # "add"
      BY <2>2 DEF DelSave, InDialog
    <3> QED
      BY <1>1, <2>2, <3>1, DelOrder
  <2> QED
    BY <1>1, <2>1, <2>2, NumberChanges
<1>2. Inv /\ [Next]_vars =>
        [/\ dialog \in {"add", "del"} /\ InOrder
         /\ TimeTable_Number' # TimeTable_Number
         => InOrder' /\ (dialog = "add" => Unused(time))]_vars
  BY <1>1
<1> QED
  BY <1>2, InvHolds, PTL DEF Spec, OrderKept
=============================================================================

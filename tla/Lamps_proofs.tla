---------------------------- MODULE Lamps_proofs ----------------------------
(***************************************************************************)
(* Proofs about the lamps' outputs: LampBus, for every number of latches   *)
(* and lamps and every set of rows, and LampWiring, for every number of    *)
(* crossways, lamps and outputs, any contents of the EEPROM and any        *)
(* wiring of the factory.                                                  *)
(***************************************************************************)
EXTENDS LampBus, LampWiring, WellFoundedInduction, TLAPS

-----------------------------------------------------------------------------
(* LampBus: the invariant *)

GroupRows == [GroupSet -> SUBSET LampSet]

TestInv == test \in [step : Steps, group : GroupSet, row : GroupRows]

\* How far task1 is: the groups behind it show their rows on closed latches,
\* and the bus holds what the group it is at needs next.
DisplayInv ==
    display.step # "idle" =>
        /\ \A g \in GroupSet : g < display.group => shown[g] = display.row[g] /\ g \notin enabled
        /\ display.step = "drive" => bus = {}
        /\ display.step = "open" => bus = display.row[display.group]
        /\ display.step = "close" => shown[display.group] = display.row[display.group]

Inv == TypeOK /\ TestInv /\ DisplayInv

-----------------------------------------------------------------------------
(* Rows and passes *)

LEMMA FirstGroup == 1 \in GroupSet
BY LampBusAssumption DEF GroupSet

LEMMA DarkType == Dark \in GroupRows
BY DEF Dark, GroupRows

LEMMA RowType == Rows \cup {Dark} \subseteq GroupRows
BY DarkType, LampBusAssumption DEF GroupRows

LEMMA IdleType == Idle \in Passes /\ Idle \in [step : Steps, group : GroupSet, row : GroupRows]
BY FirstGroup, DarkType DEF Idle, Passes, Steps, Dark

\* The lamp test's groups are groups.
LEMMA GroupOfLamp ==
    ASSUME NEW sn \in LedSns PROVE LE_sel(sn) \in GroupSet
<1>1. /\ TestGroups \in Nat /\ Lamps \in Nat /\ Lamps > 0 /\ TestGroups <= Groups
      /\ Groups \in Nat /\ sn \in Nat /\ 1 <= sn /\ sn <= TestGroups * Lamps
  BY LampBusAssumption DEF LedSns
<1> DEFINE q == (sn - 1) \div Lamps
<1>2. q \in Nat /\ q * Lamps <= sn - 1
  BY <1>1
<1>3. q < TestGroups
  <2>1. SUFFICES ASSUME q >= TestGroups PROVE FALSE
    BY <1>1, <1>2
  <2>2. q * Lamps >= TestGroups * Lamps
    BY <1>1, <1>2, <2>1
  <2> QED
    BY <1>1, <1>2, <2>2
<1> QED
  BY <1>1, <1>2, <1>3 DEF LE_sel, GroupSet

LEMMA OneLampType ==
    ASSUME NEW sn \in LedSns PROVE OneLamp(sn) \in GroupRows
<1>1. /\ Lamps \in Nat /\ Lamps > 0 /\ TestGroups * Lamps \in Int
  BY LampBusAssumption
<1>2. (sn - 1) % Lamps \in LampSet
  BY <1>1 DEF LedSns, LampSet
<1> QED
  BY <1>2 DEF OneLamp, GroupRows

-----------------------------------------------------------------------------
(* One statement of a pass *)

\* Where a pass can be, whichever task's it is.
Pass == [step : Steps, group : GroupSet, row : GroupRows]

LEMMA PassesArePasses == Passes \subseteq Pass
BY RowType DEF Passes, Pass

LEMMA PortsType ==
    ASSUME TypeOK, NEW p \in Pass, NEW n, LatchStep(p, n)
    PROVE  /\ bus' \in SUBSET LampSet /\ enabled' \in SUBSET GroupSet
           /\ shown' \in GroupRows
<1>1. p.group \in GroupSet /\ p.row[p.group] \in SUBSET LampSet
  BY DEF Pass, GroupRows
<1> QED
  BY <1>1 DEF LatchStep, ClosesLatch, Drive, Enable, Disable, TypeOK, GroupRows

LEMMA NextGroup ==
    ASSUME NEW g \in GroupSet, g # Groups PROVE g + 1 \in GroupSet
BY LampBusAssumption DEF GroupSet

\* A pass keeps its row until it is over.
LEMMA PassStep ==
    ASSUME NEW S, NEW p \in [step : Steps, group : GroupSet, row : S], NEW n, LatchStep(p, n),
           Dark \in S
    PROVE  n \in [step : Steps, group : GroupSet, row : S]
<1>1. CASE p.step = "clear" /\ n = [p EXCEPT !.step = "drive"]
  BY <1>1 DEF Steps
<1>2. CASE p.step = "drive" /\ n = [p EXCEPT !.step = "open"]
  BY <1>2 DEF Steps
<1>3. CASE p.step = "open" /\ n = [p EXCEPT !.step = "close"]
  BY <1>3 DEF Steps
<1>4. CASE p.step = "close" /\ n = IF p.group = Groups THEN Idle
                                    ELSE [p EXCEPT !.step = "clear", !.group = @ + 1]
  <2>1. CASE p.group = Groups
    BY <1>4, <2>1, FirstGroup DEF Idle, Steps, Dark
  <2>2. CASE p.group # Groups
    BY <1>4, <2>2, NextGroup DEF Steps
  <2> QED
    BY <2>1, <2>2
<1> QED
  BY <1>1, <1>2, <1>3, <1>4 DEF LatchStep, ClosesLatch

LEMMA InvInit == ASSUME Init PROVE Inv
<1>1. TestInv /\ DisplayInv
  BY IdleType DEF Init, TestInv, DisplayInv, Idle
<1>2. 1 \in LedSns
  <2>1. TestGroups * Lamps \in Nat /\ 1 <= TestGroups * Lamps
    BY LampBusAssumption
  <2> QED
    BY <2>1 DEF LedSns
<1>3. test.step \in Steps /\ test.group \in GroupSet
  BY <1>1 DEF TestInv
<1>4. shown \in GroupRows /\ display \in Passes
  BY IdleType, DarkType DEF Init
<1> QED
  BY <1>1, <1>2, <1>3, <1>4 DEF Init, Inv, TypeOK, GroupRows

LEMMA NumberStep ==
    ASSUME TypeOK, SelectLamp PROVE LED_Sn' \in LedSns
<1>1. LED_Sn \in Nat /\ TestGroups * Lamps \in Nat /\ 1 <= LED_Sn /\ LED_Sn <= TestGroups * Lamps
  BY LampBusAssumption DEF TypeOK, LedSns
<1> DEFINE top == TestGroups * Lamps
<1>2. top \in Nat /\ LED_Sn <= top
  BY <1>1
<1>3. \/ LED_Sn < top /\ LED_Sn' = LED_Sn + 1
      \/ LED_Sn > 1 /\ LED_Sn' = LED_Sn - 1
      \/ LED_Sn < top - 9 /\ LED_Sn' = LED_Sn + 10
      \/ LED_Sn > 10 /\ LED_Sn' = LED_Sn - 10
  BY DEF SelectLamp
<1>4. LED_Sn' \in 1 .. top
  <2> HIDE DEF top
  <2> QED
    BY <1>1, <1>2, <1>3
<1> QED
  BY <1>4 DEF LedSns

\* task1 writes: the groups behind it are closed and do not follow the bus.
LEMMA DisplayStep ==
    ASSUME TypeOK, DisplayInv, LatchStep(display, display') PROVE DisplayInv'
<1>t. /\ display.group \in GroupSet /\ enabled \in SUBSET GroupSet
      /\ shown \in [GroupSet -> SUBSET LampSet] /\ GroupSet \subseteq Int
  BY DEF TypeOK, Passes, GroupSet
<1>1. CASE display.step = "clear"
  <2>1. /\ Drive({}) /\ display'.step = "drive" /\ display'.group = display.group
        /\ display'.row = display.row
    BY <1>1 DEF LatchStep, ClosesLatch, TypeOK, Passes
  <2> QED
    BY <1>t, <1>1, <2>1 DEF Drive, DisplayInv
<1>2. CASE display.step = "drive"
  <2>1. /\ Drive(bus \cup display.row[display.group]) /\ display'.step = "open"
        /\ display'.group = display.group /\ display'.row = display.row
    BY <1>2 DEF LatchStep, ClosesLatch, TypeOK, Passes
  <2>2. bus = {}
    BY <1>2 DEF DisplayInv
  <2> QED
    BY <1>t, <1>2, <2>1, <2>2 DEF Drive, DisplayInv
<1>3. CASE display.step = "open"
  <2>1. /\ Enable(display.group) /\ display'.step = "close"
        /\ display'.group = display.group /\ display'.row = display.row
    BY <1>3 DEF LatchStep, ClosesLatch, TypeOK, Passes
  <2> QED
    BY <1>t, <1>3, <2>1 DEF Enable, DisplayInv
<1>4. CASE display.step = "close"
  <2>1. Disable(display.group)
    BY <1>4 DEF LatchStep, ClosesLatch
  <2>2. CASE display.group = Groups
    <3>1. display'.step = "idle"
      BY <1>4, <2>2 DEF LatchStep, ClosesLatch, Idle
    <3> QED
      BY <3>1 DEF DisplayInv
  <2>3. CASE display.group # Groups
    <3>1. /\ display'.step = "clear" /\ display'.group = display.group + 1
          /\ display'.row = display.row
      BY <1>4, <2>3 DEF LatchStep, ClosesLatch, TypeOK, Passes
    <3>2. ASSUME NEW g \in GroupSet, g < display.group + 1
          PROVE  shown'[g] = display.row[g] /\ g \notin enabled'
      <4>1. g < display.group \/ g = display.group
        BY <1>t, <3>2 DEF GroupSet
      <4> QED
        BY <1>4, <2>1, <4>1 DEF Disable, DisplayInv
    <3> QED
      BY <3>1, <3>2 DEF DisplayInv
  <2> QED
    BY <2>2, <2>3
<1> QED
  BY <1>1, <1>2, <1>3, <1>4 DEF LatchStep, ClosesLatch

LEMMA InvStep == ASSUME Inv, [Next]_vars PROVE Inv'
<1> USE DEF Inv
<1>d. Dark \in Rows \cup {Dark} /\ Dark \in GroupRows
  BY DarkType
<1>1. CASE StartDisplay
  <2>1. PICK r \in Rows : display' = [step |-> "clear", group |-> 1, row |-> r]
    BY <1>1 DEF StartDisplay
  <2>2. display' \in Passes
    BY <2>1, FirstGroup DEF Passes, Steps
  <2>3. DisplayInv'
    BY <2>1 DEF DisplayInv, GroupSet
  <2> QED
    BY <1>1, <2>2, <2>3 DEF StartDisplay, TypeOK, TestInv
<1>2. CASE CrossWay_LED_Display
  <2>1. display \in Pass
    BY PassesArePasses DEF TypeOK
  <2>2. bus' \in SUBSET LampSet /\ enabled' \in SUBSET GroupSet /\ shown' \in GroupRows
    BY <1>2, <2>1, PortsType DEF CrossWay_LED_Display
  <2>3. display' \in Passes
    BY <1>2, <1>d, PassStep DEF CrossWay_LED_Display, TypeOK, Passes
  <2>4. DisplayInv'
    BY <1>2, DisplayStep DEF CrossWay_LED_Display
  <2> QED
    BY <1>2, <2>2, <2>3, <2>4 DEF CrossWay_LED_Display, TypeOK, TestInv, GroupRows
<1>3. ASSUME Task2Runs PROVE DisplayInv' /\ display' \in Passes
  BY <1>3 DEF Task2Runs, DisplayInv, TypeOK
<1>4. CASE OpenTest
  <2>1. TestInv'
    BY <1>4, <1>d, FirstGroup DEF OpenTest, TestInv, DarkPass, Steps
  <2>2. 1 \in LedSns
    <3>1. TestGroups * Lamps \in Nat /\ 1 <= TestGroups * Lamps
      BY LampBusAssumption
    <3> QED
      BY <3>1 DEF LedSns
  <2>3. test'.step \in Steps /\ test'.group \in GroupSet
    BY <2>1 DEF TestInv
  <2> QED
    BY <1>3, <1>4, <2>1, <2>2, <2>3 DEF OpenTest, TypeOK
<1>5. CASE All_LED_Die
  <2>1. test \in Pass
    BY DEF TestInv, Pass
  <2>2. bus' \in SUBSET LampSet /\ enabled' \in SUBSET GroupSet /\ shown' \in GroupRows
    BY <1>5, <2>1, PortsType DEF All_LED_Die
  <2>3. TestInv'
    BY <1>5, <1>d, PassStep DEF All_LED_Die, TestInv
  <2>4. test'.step \in Steps /\ test'.group \in GroupSet
    BY <2>3 DEF TestInv
  <2> QED
    BY <1>3, <1>5, <2>2, <2>3, <2>4 DEF All_LED_Die, TypeOK, GroupRows
<1>6. CASE SelectLamp
  <2>1. LED_Sn' \in LedSns
    BY <1>6, NumberStep
  <2> QED
    BY <1>3, <1>6, <2>1 DEF SelectLamp, KeyTime, TypeOK, TestInv
<1>7. CASE LightLamp
  <2>1. TestInv'
    <3>1. LE_sel(LED_Sn) \in GroupSet /\ OneLamp(LED_Sn) \in GroupRows
      BY GroupOfLamp, OneLampType DEF TypeOK
    <3> QED
      BY <1>7, <3>1 DEF LightLamp, TestInv, Steps
  <2>2. test'.step \in Steps /\ test'.group \in GroupSet
    BY <2>1 DEF TestInv
  <2> QED
    BY <1>3, <1>7, <2>1, <2>2 DEF LightLamp, KeyTime, TypeOK
<1>8. CASE LightStep
  <2>1. test \in Pass /\ test.group \in GroupSet
    BY DEF TestInv, Pass
  <2>2. bus' \in SUBSET LampSet /\ enabled' \in SUBSET GroupSet /\ shown' \in GroupRows
    <3>1. CASE LatchStep(test, test')
      BY <2>1, <3>1, PortsType
    <3>2. CASE Enable(test.group)
      BY <2>1, <3>2 DEF Enable, TypeOK, GroupRows
    <3> QED
      BY <1>8, <3>1, <3>2 DEF LightStep
  <2>3. TestInv'
    <3>1. CASE LatchStep(test, test')
      BY <3>1, <1>d, PassStep DEF TestInv
    <3>2. CASE test' = Idle
      BY <3>2, IdleType DEF TestInv
    <3> QED
      BY <1>8, <3>1, <3>2 DEF LightStep
  <2>4. test'.step \in Steps /\ test'.group \in GroupSet
    BY <2>3 DEF TestInv
  <2> QED
    BY <1>3, <1>8, <2>2, <2>3, <2>4 DEF LightStep, TypeOK, GroupRows
<1>9. CASE StartAuto
  <2>1. TestInv'
    BY <1>9, <1>d, FirstGroup DEF StartAuto, TestInv, DarkPass, Steps
  <2>2. test'.step \in Steps /\ test'.group \in GroupSet
    BY <2>1 DEF TestInv
  <2> QED
    BY <1>3, <1>9, <2>1, <2>2 DEF StartAuto, KeyTime, TypeOK
<1>10. CASE LeaveTest
  BY <1>3, <1>10 DEF LeaveTest, KeyTime, TypeOK, TestInv
<1>11. CASE UNCHANGED vars
  BY <1>11 DEF vars, TypeOK, TestInv, DisplayInv
<1> QED
  BY <1>1, <1>2, <1>4, <1>5, <1>6, <1>7, <1>8, <1>9, <1>10, <1>11 DEF Next

THEOREM InvHolds == Spec => []Inv
BY InvInit, InvStep, PTL DEF Spec

\* Every value on the bus and on the latches is a set of a group's lamps, the
\* lamp test selects lamps there are, and its group is one of the latches
\* (LED_OP.c:82-140, RA8806_CTRL.c:1180-1293).
THEOREM TypeCorrect == Spec => []TypeOK
BY InvHolds, PTL DEF Inv

\* Where task1 ends.
LEMMA DisplayEnds ==
    ASSUME Inv, [Next]_vars, display.step # "idle", display'.step = "idle"
    PROVE  shown' = display.row /\ enabled' = {}
<1>1. CrossWay_LED_Display
  <2>1. ~UNCHANGED display
    OBVIOUS
  <2>2. ~StartDisplay /\ ~Task2Runs
    BY DEF StartDisplay, Task2Runs
  <2> QED
    BY <2>1, <2>2 DEF Next, vars, OpenTest, All_LED_Die, SelectLamp, LightLamp, LightStep,
                      StartAuto, LeaveTest, KeyTime
<1>2. display.step = "close" /\ display.group = Groups /\ Disable(Groups)
  BY <1>1 DEF CrossWay_LED_Display, LatchStep, ClosesLatch, Inv, TypeOK, Passes
<1>3. \A g \in GroupSet : shown[g] = display.row[g] /\ (g # Groups => g \notin enabled)
  BY <1>2, LampBusAssumption DEF Inv, DisplayInv, GroupSet
<1>4. shown \in GroupRows /\ display.row \in GroupRows /\ enabled \subseteq GroupSet
  BY RowType DEF Inv, TypeOK, Passes, GroupRows
<1>5. shown = display.row
  BY <1>3, <1>4 DEF GroupRows
<1> QED
  BY <1>2, <1>3, <1>4, <1>5 DEF Disable

\* Any number of latches, any rows and anything the lamp test left behind:
\* when task1 has gone through the groups, each shows its row and is closed
\* (LED_OP.c:82-128).
THEOREM ShowsRows == Spec => DisplayShowsRows
<1>1. Inv /\ [Next]_vars =>
        [display.step # "idle" /\ display'.step = "idle"
           => shown' = display.row /\ enabled' = {}]_vars
  BY DisplayEnds
<1> QED
  BY <1>1, InvHolds, PTL DEF Spec, DisplayShowsRows

-----------------------------------------------------------------------------
(* LampWiring: the cells in the order of the start-up's loop *)

Cells     == CROSSWAY_MAX * Colours
Pos(c, i) == c * Colours + i

LEMMA WiringNumbers ==
    /\ CROSSWAY_MAX \in Nat /\ CROSSWAY_MAX >= 1 /\ Colours \in Nat /\ Colours >= 1
    /\ Outputs \in Nat /\ Outputs >= 1 /\ Cells \in Nat
BY WiringAssumption DEF Cells

\* A number below Cells is one cell's.
LEMMA CellOf ==
    ASSUME NEW n \in 0 .. Cells - 1
    PROVE  Row(n) \in Crossways /\ Col(n) \in ColourSet /\ Pos(Row(n), Col(n)) = n
<1> DEFINE q == n \div Colours
<1>1. n \in Nat /\ n < CROSSWAY_MAX * Colours /\ CROSSWAY_MAX \in Nat /\ Colours \in Nat /\ Colours > 0
  BY WiringNumbers DEF Cells
<1>2. q \in Nat /\ n % Colours \in 0 .. Colours - 1 /\ n = q * Colours + (n % Colours)
  BY <1>1
<1>3. q * Colours <= n
  <2>1. q * Colours \in Int
    BY <1>1, <1>2
  <2> QED
    BY <1>1, <1>2, <2>1
<1>4. q < CROSSWAY_MAX
  <2>1. SUFFICES ASSUME q >= CROSSWAY_MAX PROVE FALSE
    BY <1>1, <1>2
  <2>2. q * Colours >= CROSSWAY_MAX * Colours
    BY <1>1, <1>2, <2>1
  <2> QED
    BY <1>1, <1>2, <1>3, <2>2
<1> HIDE DEF q
<1>5. Row(n) = q /\ Col(n) = n % Colours
  BY DEF Row, Col, q
<1> QED
  BY <1>1, <1>2, <1>4, <1>5 DEF Crossways, ColourSet, Pos

\* Different cells have different numbers, ...
LEMMA PosApart ==
    ASSUME NEW c \in Crossways, NEW d \in Crossways, NEW i \in ColourSet, NEW j \in ColourSet,
           Pos(c, i) = Pos(d, j)
    PROVE  c = d /\ i = j
<1>1. /\ c \in Nat /\ d \in Nat /\ i \in Nat /\ j \in Nat /\ i < Colours /\ j < Colours
      /\ Colours \in Nat /\ c * Colours + i = d * Colours + j
  BY WiringNumbers DEF Crossways, ColourSet, Pos
<1>2. ASSUME NEW x \in Nat, NEW y \in Nat, x < y
      PROVE  x * Colours + Colours <= y * Colours
  <2>1. x + 1 <= y
    BY <1>2
  <2>2. (x + 1) * Colours <= y * Colours
    BY <1>1, <1>2, <2>1
  <2> QED
    BY <1>1, <1>2, <2>2
<1>3. ~(c < d)
  <2>1. SUFFICES ASSUME c < d PROVE FALSE
    OBVIOUS
  <2> DEFINE p == c * Colours
             r == d * Colours
  <2>2. p + Colours <= r /\ p \in Int /\ r \in Int /\ p + i = r + j
    BY <1>1, <1>2, <2>1
  <2> HIDE DEF p, r
  <2> QED
    BY <1>1, <2>2
<1>4. ~(d < c)
  <2>1. SUFFICES ASSUME d < c PROVE FALSE
    OBVIOUS
  <2> DEFINE p == c * Colours
             r == d * Colours
  <2>2. r + Colours <= p /\ p \in Int /\ r \in Int /\ p + i = r + j
    BY <1>1, <1>2, <2>1
  <2> HIDE DEF p, r
  <2> QED
    BY <1>1, <2>2
<1>5. c = d
  BY <1>1, <1>3, <1>4
<1> QED
  BY <1>1, <1>5

\* ... all of them below Cells.
LEMMA PosBelow ==
    ASSUME NEW c \in Crossways, NEW i \in ColourSet
    PROVE  Pos(c, i) \in 0 .. Cells - 1 /\ Row(Pos(c, i)) = c /\ Col(Pos(c, i)) = i
<1>1. Pos(c, i) \in 0 .. Cells - 1
  <2>1. /\ c \in Nat /\ i \in Nat /\ c + 1 <= CROSSWAY_MAX /\ i < Colours
        /\ CROSSWAY_MAX \in Nat /\ Colours \in Nat
    BY WiringNumbers DEF Crossways, ColourSet
  <2>2. (c + 1) * Colours <= CROSSWAY_MAX * Colours
    BY <2>1
  <2> DEFINE p == c * Colours
             top == CROSSWAY_MAX * Colours
  <2>3. p + Colours <= top /\ p \in Nat /\ top \in Nat
    BY <2>1, <2>2
  <2>4. Pos(c, i) = p + i /\ Cells = top
    BY DEF Pos, Cells
  <2> HIDE DEF p, top
  <2> QED
    BY <2>1, <2>3, <2>4
<1>2. /\ Row(Pos(c, i)) \in Crossways /\ Col(Pos(c, i)) \in ColourSet
      /\ Pos(Row(Pos(c, i)), Col(Pos(c, i))) = Pos(c, i)
  BY <1>1, CellOf
<1> QED
  BY <1>1, <1>2, PosApart

-----------------------------------------------------------------------------
(* LampWiring: what the loop computes *)

Val(n)   == e2prom[Row(n)][Col(n)]
Names(n) == Val(n) \in 1 .. Outputs

\* The n-th cell names an output no cell before it names.
FirstOf(n) == Names(n) /\ \A m \in 0 .. n - 1 : Val(m) # Val(n)

\* The wiring and the record after n rounds.
Kept(n) == [c \in Crossways |-> [i \in ColourSet |->
               IF Pos(c, i) < n /\ ~FirstOf(Pos(c, i)) THEN 0 ELSE e2prom[c][i]]]
Met(n)   == {Val(m) : m \in 0 .. n - 1} \cap (1 .. Outputs)
After(n) == [sn |-> Kept(n), used |-> Met(n)]

LEMMA ValType ==
    ASSUME e2prom \in Images, NEW n \in 0 .. Cells - 1
    PROVE  Val(n) \in Bytes
BY CellOf DEF Val, Images

LEMMA KeptCell ==
    ASSUME e2prom \in Images, NEW n \in Nat, NEW c \in Crossways, NEW i \in ColourSet
    PROVE  Kept(n)[c][i] = IF Pos(c, i) < n /\ ~FirstOf(Pos(c, i)) THEN 0 ELSE e2prom[c][i]
BY DEF Kept

\* One more round tells one more cell.
LEMMA KeptNext ==
    ASSUME e2prom \in Images, NEW n \in 0 .. Cells - 1
    PROVE  Kept(n + 1) = [c \in Crossways |-> [i \in ColourSet |->
              IF c = Row(n) /\ i = Col(n) /\ ~FirstOf(n) THEN 0 ELSE Kept(n)[c][i]]]
<1> DEFINE r == Row(n)
           k == Col(n)
<1>1. r \in Crossways /\ k \in ColourSet /\ Pos(r, k) = n
  BY CellOf
<1>2. ASSUME NEW c \in Crossways, NEW i \in ColourSet
      PROVE  (IF Pos(c, i) < n + 1 /\ ~FirstOf(Pos(c, i)) THEN 0 ELSE e2prom[c][i])
               = IF c = r /\ i = k /\ ~FirstOf(n) THEN 0 ELSE Kept(n)[c][i]
  <2> HIDE DEF r, k
  <2>1. CASE c = r /\ i = k
    <3>1. Pos(c, i) = n /\ n \in Int
      BY <1>1, <2>1
    <3>2. Kept(n)[c][i] = e2prom[c][i]
      BY <3>1, KeptCell
    <3> QED
      BY <2>1, <3>1, <3>2
  <2>2. CASE ~(c = r /\ i = k)
    <3>1. Pos(c, i) # n
      BY <1>1, <2>2, PosApart
    <3>2. Pos(c, i) \in Int
      BY PosBelow
    <3>3. Pos(c, i) < n + 1 <=> Pos(c, i) < n
      BY <3>1, <3>2
    <3>4. n \in Nat
      OBVIOUS
    <3> QED
      BY <2>2, <3>3, <3>4, KeptCell
  <2> QED
    BY <2>1, <2>2
<1> HIDE DEF r, k
<1>3. Kept(n + 1) = [c \in Crossways |-> [i \in ColourSet |->
         IF c = r /\ i = k /\ ~FirstOf(n) THEN 0 ELSE Kept(n)[c][i]]]
  BY <1>2 DEF Kept
<1> QED
  BY <1>3 DEF r, k

LEMMA MetNext ==
    ASSUME e2prom \in Images, NEW n \in 0 .. Cells - 1
    PROVE  Met(n + 1) = IF Names(n) THEN Met(n) \cup {Val(n)} ELSE Met(n)
<1>1. 0 .. n = (0 .. n - 1) \cup {n}
  OBVIOUS
<1>2. {Val(m) : m \in 0 .. n} = {Val(m) : m \in 0 .. n - 1} \cup {Val(n)}
  BY <1>1
<1>3. (n + 1) - 1 = n
  OBVIOUS
<1> QED
  BY <1>2, <1>3 DEF Met, Names

\* A cell set to zero.
LEMMA DropIs ==
    ASSUME NEW s, NEW f \in Images, s.sn = f, NEW r \in Crossways, NEW k \in ColourSet
    PROVE  Drop(s, r, k) = [sn |-> [c \in Crossways |-> [i \in ColourSet |->
                                     IF c = r /\ i = k THEN 0 ELSE f[c][i]]],
                            used |-> s.used]
<1>1. [f EXCEPT ![r][k] = 0] = [c \in Crossways |-> [i \in ColourSet |->
                                  IF c = r /\ i = k THEN 0 ELSE f[c][i]]]
  BY DEF Images
<1> QED
  BY <1>1 DEF Drop

LEMMA KeptType ==
    ASSUME e2prom \in Images, NEW n \in Nat PROVE Kept(n) \in Images
BY WiringNumbers DEF Kept, Images, Bytes

\* Every round is a step from one closed form to the next.
LEMMA RepairRound ==
    ASSUME e2prom \in Images, NEW n \in 0 .. Cells - 1
    PROVE  Repair(After(n), Row(n), Col(n)) = After(n + 1)
<1> DEFINE r == Row(n)
           k == Col(n)
           s == After(n)
<1>1. r \in Crossways /\ k \in ColourSet /\ Pos(r, k) = n /\ n \in Nat
  BY CellOf
<1>2. s.sn = Kept(n) /\ s.used = Met(n) /\ Kept(n) \in Images
  BY <1>1, KeptType DEF After
<1>3. s.sn[r][k] = Val(n) /\ e2prom[r][k] = Val(n)
  BY <1>1, <1>2, KeptCell DEF Val
<1>4. Val(n) \in Bytes /\ Outputs \in Nat
  BY ValType, WiringNumbers
<1>5. ASSUME ~FirstOf(n)
      PROVE  Drop(s, r, k) = [sn |-> Kept(n + 1), used |-> Met(n)]
  <2>1. Drop(s, r, k) = [sn |-> [c \in Crossways |-> [i \in ColourSet |->
                                   IF c = r /\ i = k THEN 0 ELSE Kept(n)[c][i]]],
                         used |-> Met(n)]
    <3> HIDE DEF r, k, s
    <3> QED
      BY <1>1, <1>2, DropIs
  <2>2. Kept(n + 1) = [c \in Crossways |-> [i \in ColourSet |->
                         IF c = r /\ i = k THEN 0 ELSE Kept(n)[c][i]]]
    BY <1>5, KeptNext
  <2> QED
    BY <2>1, <2>2
<1>6. ASSUME FirstOf(n) \/ Val(n) = 0 PROVE Kept(n + 1) = Kept(n)
  <2>1. ASSUME NEW c \in Crossways, NEW i \in ColourSet
        PROVE  (IF c = r /\ i = k /\ ~FirstOf(n) THEN 0 ELSE Kept(n)[c][i]) = Kept(n)[c][i]
    BY <1>2, <1>3, <1>6
  <2>2. Kept(n) = [c \in Crossways |-> [i \in ColourSet |-> Kept(n)[c][i]]]
    BY DEF Kept
  <2> HIDE DEF r, k
  <2>3. [c \in Crossways |-> [i \in ColourSet |->
           IF c = r /\ i = k /\ ~FirstOf(n) THEN 0 ELSE Kept(n)[c][i]]]
          = [c \in Crossways |-> [i \in ColourSet |-> Kept(n)[c][i]]]
    BY <2>1
  <2> QED
    BY <2>2, <2>3, KeptNext DEF r, k
<1>7. Repair(s, r, k) = IF Val(n) > Outputs THEN Drop(s, r, k)
                        ELSE IF Val(n) = 0 THEN s
                        ELSE IF Val(n) \notin Met(n)
                             THEN [sn |-> Kept(n), used |-> Met(n) \cup {Val(n)}]
                             ELSE Drop(s, r, k)
  <2> HIDE DEF r, k, s
  <2> QED
    BY <1>2, <1>3 DEF Repair, ledgpio_map_check_used
<1>8. Names(n) => (Val(n) \in Met(n) <=> ~FirstOf(n))
  BY DEF Met, FirstOf, Names
<1>9. Names(n) <=> Val(n) # 0 /\ ~(Val(n) > Outputs)
  BY <1>4 DEF Names, Bytes
<1>10. FirstOf(n) => Names(n)
  BY DEF FirstOf
<1> HIDE DEF r, k, s
<1>11. CASE Val(n) > Outputs
  <2>1. ~Names(n) /\ ~FirstOf(n)
    BY <1>9, <1>10, <1>11
  <2> QED
    BY <1>5, <1>7, <1>11, <2>1, MetNext DEF After, r, k, s
<1>12. CASE Val(n) = 0
  <2>1. ~Names(n) /\ ~(Val(n) > Outputs)
    BY <1>4, <1>9, <1>12
  <2>2. Repair(s, r, k) = s
    BY <1>7, <1>12, <2>1
  <2> QED
    BY <1>6, <1>12, <2>1, <2>2, MetNext DEF After, r, k, s
<1>13. CASE FirstOf(n)
  <2>1. Names(n) /\ Val(n) \notin Met(n) /\ Val(n) # 0 /\ ~(Val(n) > Outputs)
    BY <1>8, <1>9, <1>10, <1>13
  <2>2. Repair(s, r, k) = [sn |-> Kept(n), used |-> Met(n) \cup {Val(n)}]
    BY <1>7, <2>1
  <2> QED
    BY <1>6, <1>13, <2>1, <2>2, MetNext DEF After, r, k, s
<1>14. CASE Names(n) /\ ~FirstOf(n)
  <2>1. Val(n) \in Met(n) /\ Val(n) # 0 /\ ~(Val(n) > Outputs)
    BY <1>8, <1>9, <1>14
  <2>2. Repair(s, r, k) = Drop(s, r, k) /\ Met(n) \cup {Val(n)} = Met(n)
    BY <1>7, <2>1
  <2> QED
    BY <1>5, <1>14, <2>2, MetNext DEF After, r, k, s
<1> QED
  BY <1>9, <1>11, <1>12, <1>13, <1>14

\* Induction as a fact about sets.
LEMMA LeastNumber ==
    ASSUME NEW T \in SUBSET Nat, T # {} PROVE \E n \in T : \A m \in T : n <= m
<1> DEFINE R == OpToRel(<, Nat)
<1>1. IsWellFoundedOn(R, Nat) /\ \A x, y \in Nat : <<y, x>> \in R <=> y < x
  BY NatLessThanWellFounded DEF OpToRel
<1> HIDE DEF R
<1>2. PICK x \in T : \A y \in T : ~(<<y, x>> \in R)
  BY <1>1, WFMin
<1>3. \A y \in T : ~(y < x)
  BY <1>1, <1>2
<1>4. x \in Nat /\ T \subseteq Nat
  OBVIOUS
<1>5. \A y \in T : x <= y
  BY <1>3, <1>4
<1> QED
  BY <1>5

Rounds(f) ==
    [n \in 0 .. CROSSWAY_MAX * Colours |->
        IF n = 0 THEN [sn |-> e2prom, used |-> {}]
        ELSE Repair(f[n - 1], Row(n - 1), Col(n - 1))]

LEMMA AfterNone ==
    ASSUME e2prom \in Images PROVE After(0) = [sn |-> e2prom, used |-> {}]
<1>1. ASSUME NEW c \in Crossways, NEW i \in ColourSet
      PROVE  (IF Pos(c, i) < 0 /\ ~FirstOf(Pos(c, i)) THEN 0 ELSE e2prom[c][i]) = e2prom[c][i]
  <2>1. Pos(c, i) \in Nat
    BY PosBelow
  <2> QED
    BY <2>1
<1>2. e2prom = [c \in Crossways |-> [i \in ColourSet |-> e2prom[c][i]]]
  BY DEF Images
<1>3. Kept(0) = e2prom
  BY <1>1, <1>2 DEF Kept
<1>4. Met(0) = {}
  BY DEF Met
<1> QED
  BY <1>3, <1>4 DEF After

LEMMA RoundsExist == e2prom \in Images => \E f : f = Rounds(f)
<1> SUFFICES ASSUME e2prom \in Images PROVE \E f : f = Rounds(f)
  OBVIOUS
<1> DEFINE f == [n \in 0 .. Cells |-> After(n)]
<1>1. ASSUME NEW n \in 0 .. Cells
      PROVE  f[n] = IF n = 0 THEN [sn |-> e2prom, used |-> {}]
                    ELSE Repair(f[n - 1], Row(n - 1), Col(n - 1))
  <2>1. CASE n = 0
    BY <2>1, AfterNone
  <2>2. CASE n # 0
    <3> DEFINE k == n - 1
    <3>1. k \in 0 .. Cells - 1 /\ k \in 0 .. Cells /\ k + 1 = n
      BY <2>2, WiringNumbers
    <3> HIDE DEF k
    <3>2. Repair(After(k), Row(k), Col(k)) = After(n)
      BY <3>1, RepairRound
    <3>3. f[k] = After(k) /\ f[n] = After(n)
      BY <3>1
    <3> HIDE DEF f
    <3> QED
      BY <2>2, <3>2, <3>3 DEF k
  <2> QED
    BY <2>1, <2>2
<1> HIDE DEF f
<1>2. f = [n \in 0 .. Cells |-> f[n]]
  BY DEF f
<1> QED
  BY <1>1, <1>2, Zenon DEF Rounds, Cells

\* The loop leaves the cells that name an output first, and records their
\* outputs.
LEMMA RepairedIs == ASSUME e2prom \in Images PROVE Repaired = After(Cells)
<1> DEFINE loop == CHOOSE f : f = Rounds(f)
<1>1. loop = Rounds(loop)
  BY RoundsExist, Zenon
<1>2. Repaired = loop[Cells]
  BY Zenon DEF Repaired, Rounds, Cells
<1> HIDE DEF loop
<1>3. ASSUME NEW n \in 0 .. Cells
      PROVE  loop[n] = IF n = 0 THEN [sn |-> e2prom, used |-> {}]
                       ELSE Repair(loop[n - 1], Row(n - 1), Col(n - 1))
  <2> DEFINE g == Rounds(loop)
  <2>1. g[n] = IF n = 0 THEN [sn |-> e2prom, used |-> {}]
               ELSE Repair(loop[n - 1], Row(n - 1), Col(n - 1))
    BY DEF Rounds, Cells
  <2>2. loop = g
    BY <1>1
  <2> HIDE DEF g
  <2> QED
    BY <2>1, <2>2
<1> DEFINE Wrong == {n \in 0 .. Cells : loop[n] # After(n)}
<1>4. Wrong = {}
  <2>1. SUFFICES ASSUME Wrong # {} PROVE FALSE
    OBVIOUS
  <2>2. Wrong \in SUBSET Nat
    BY WiringNumbers
  <2>3. PICK n \in Wrong : \A m \in Wrong : n <= m
    BY <2>1, <2>2, LeastNumber
  <2>4. n \in 0 .. Cells /\ loop[n] # After(n) /\ n # 0
    <3>1. 0 \in 0 .. Cells
      BY WiringNumbers
    <3> QED
      BY <1>3, <3>1, AfterNone
  <2> DEFINE k == n - 1
  <2>5. k \in 0 .. Cells - 1 /\ k \in 0 .. Cells /\ k + 1 = n
    BY <2>4, WiringNumbers
  <2>6. k \notin Wrong
    BY <2>3, <2>5
  <2> HIDE DEF k
  <2>7. loop[k] = After(k)
    BY <2>5, <2>6
  <2>8. Repair(After(k), Row(k), Col(k)) = After(n)
    BY <2>5, RepairRound
  <2>9. loop[n] = Repair(loop[k], Row(k), Col(k))
    BY <1>3, <2>4 DEF k
  <2> QED
    BY <2>4, <2>7, <2>8, <2>9
<1>5. Cells \in 0 .. Cells
  BY WiringNumbers
<1> QED
  BY <1>2, <1>4, <1>5

-----------------------------------------------------------------------------
(* LampWiring: the invariant *)

\* A save runs with the menu closed and writes the wiring it began with, row
\* after row; every cell of the EEPROM is an old one or a new one.
CutInv ==
    /\ dialog => power /\ saving = CROSSWAY_MAX
    /\ saving < CROSSWAY_MAX =>
         /\ power /\ newer = LEDColor_Sn
         /\ \A c \in Crossways : c < saving => e2prom[c] = newer[c]
    /\ \A c \in Crossways, i \in ColourSet : e2prom[c][i] \in {older[c][i], newer[c][i]}

WiringInv == WiringTypeOK /\ CutInv

\* What the start-up makes of a cell.
LEMMA RepairedCell ==
    ASSUME e2prom \in Images, NEW c \in Crossways, NEW i \in ColourSet
    PROVE  /\ Repaired.sn[c][i] = IF FirstOf(Pos(c, i)) THEN e2prom[c][i] ELSE 0
           /\ e2prom[c][i] = Val(Pos(c, i))
<1>1. Pos(c, i) < Cells /\ Row(Pos(c, i)) = c /\ Col(Pos(c, i)) = i
  BY PosBelow, WiringNumbers
<1>2. Repaired.sn = Kept(Cells) /\ Cells \in Nat
  BY RepairedIs, WiringNumbers DEF After
<1> QED
  BY <1>1, <1>2, KeptCell DEF Val

LEMMA RepairedType ==
    ASSUME e2prom \in Images
    PROVE  Repaired.sn \in Wirings /\ Repaired.used \subseteq 1 .. Outputs
<1>1. ASSUME NEW c \in Crossways, NEW i \in ColourSet
      PROVE  Repaired.sn[c][i] \in 0 .. Outputs
  <2>1. CASE FirstOf(Pos(c, i))
    BY <2>1, RepairedCell DEF FirstOf, Names
  <2>2. CASE ~FirstOf(Pos(c, i))
    BY <2>2, RepairedCell, WiringNumbers
  <2> QED
    BY <2>1, <2>2
<1>2. Repaired.sn = Kept(Cells) /\ Repaired.used = Met(Cells)
  BY RepairedIs DEF After
<1>3. Kept(Cells) = [c \in Crossways |-> [i \in ColourSet |-> Kept(Cells)[c][i]]]
  BY DEF Kept
<1>4. Kept(Cells) \in Wirings
  BY <1>1, <1>2, <1>3 DEF Wirings
<1> QED
  BY <1>2, <1>4 DEF Met

LEMMA NoRowType == NoRow \in [ColourSet -> 0 .. Outputs] /\ Unwired \in Wirings
BY WiringNumbers DEF NoRow, Unwired, Wirings

LEMMA WiringsAreImages == Wirings \subseteq Images
BY WiringNumbers DEF Wirings, Images, Bytes

LEMMA WiringInitInv == WiringInit => WiringInv
<1> SUFFICES ASSUME WiringInit PROVE WiringInv
  OBVIOUS
<1>1. 0 \in Crossways /\ 0 \in 0 .. Colours /\ CROSSWAY_MAX \in 0 .. CROSSWAY_MAX
      /\ ~(CROSSWAY_MAX < CROSSWAY_MAX)
  BY WiringNumbers DEF Crossways
<1> QED
  BY <1>1, NoRowType DEF WiringInit, WiringInv, WiringTypeOK, CutInv

\* The next output not recorded, or none.
LEMMA NextUnusedType ==
    ASSUME NEW p \in 0 .. Outputs PROVE NextUnused(p) \in 0 .. Outputs
<1> DEFINE free == {q \in p + 1 .. Outputs : ledgpio_map_check_used(used_if_record, q)}
<1>1. CASE free = {}
  BY <1>1, WiringNumbers DEF NextUnused
<1>2. CASE free # {}
  <2>1. free \in SUBSET Nat
    BY WiringNumbers
  <2>2. \E x \in free : \A y \in free : x <= y
    BY <1>2, <2>1, LeastNumber
  <2>3. Min(free) \in free
    <3> HIDE DEF free
    <3> QED
      BY <2>2 DEF Min
  <2>4. NextUnused(p) = Min(free)
    BY <1>2 DEF NextUnused
  <2> QED
    BY <2>3, <2>4, WiringNumbers
<1> QED
  BY <1>1, <1>2

LEMMA SelectType ==
    ASSUME NEW c \in Crossways
    PROVE  (c + 1) % CROSSWAY_MAX \in Crossways /\ (c - 1) % CROSSWAY_MAX \in Crossways
BY WiringNumbers DEF Crossways

LEMMA DialogTyped ==
    ASSUME WiringTypeOK, LCD_LedGPIO_Init \/ MoveCursor \/ SelectCrossway \/ SetPin
                           \/ KeepRow \/ LeaveDialog
    PROVE  WiringTypeOK'
<1> USE WiringNumbers DEF WiringTypeOK, ram, past, InDialog, edit
<1>1. CASE LCD_LedGPIO_Init
  BY <1>1 DEF LCD_LedGPIO_Init, Wirings, Crossways
<1>2. CASE MoveCursor
  BY <1>2 DEF MoveCursor
<1>3. CASE SelectCrossway
  <2>1. crossway' \in Crossways
    BY <1>3, SelectType DEF SelectCrossway
  <2>2. PinNum' \in [ColourSet -> 0 .. Outputs]
    BY <1>3, <2>1 DEF SelectCrossway, Wirings
  <2> QED
    BY <1>3, <2>1, <2>2 DEF SelectCrossway
<1>4. CASE SetPin
  <2>1. sel - 1 \in ColourSet
    BY <1>4 DEF SetPin, ColourSet
  <2>2. PICK p \in {NextUnused(PinNum[sel - 1]), Up(PinNum[sel - 1]), Down(PinNum[sel - 1])} :
          PinNum' = [PinNum EXCEPT ![sel - 1] = p]
    BY <1>4 DEF SetPin
  <2>3. PinNum[sel - 1] \in 0 .. Outputs
    BY <2>1
  <2>4. p \in 0 .. Outputs
    BY <2>2, <2>3, NextUnusedType DEF Up, Down
  <2> QED
    BY <1>4, <2>2, <2>4 DEF SetPin
<1>5. CASE KeepRow
  BY <1>5 DEF KeepRow, Wirings
<1>6. CASE LeaveDialog
  <2>1. 0 \in Crossways /\ 0 \in 0 .. Colours
    BY DEF Crossways
  <2>2. dialog' \in BOOLEAN
    BY <1>6 DEF LeaveDialog
  <2> QED
    BY <1>6, <2>1, <2>2, NoRowType DEF LeaveDialog
<1> QED
  BY <1>1, <1>2, <1>3, <1>4, <1>5, <1>6

\* A row written, whole or torn.
LEMMA TornType ==
    ASSUME WiringTypeOK, NEW row \in Crossways, Torn(row)
    PROVE  /\ e2prom' \in Images
           /\ \A c \in Crossways, i \in ColourSet :
                e2prom'[c][i] \in {e2prom[c][i], LEDColor_Sn[c][i]}
<1>1. PICK fresh \in SUBSET ColourSet :
        e2prom' = [e2prom EXCEPT ![row] =
                      [i \in ColourSet |-> IF i \in fresh THEN LEDColor_Sn[row][i] ELSE @[i]]]
  BY DEF Torn
<1>2. LEDColor_Sn \in Images
  BY WiringsAreImages DEF WiringTypeOK
<1> QED
  BY <1>1, <1>2 DEF WiringTypeOK, Images

LEMMA StoreTyped ==
    ASSUME WiringInv, Get_Schedule \/ reset_ledgpio_map \/ StartSave \/ WriteRow \/ PowerLoss
    PROVE  WiringTypeOK'
<1> USE WiringNumbers DEF WiringInv, WiringTypeOK, ram, past, edit
<1>1. CASE Get_Schedule
  BY <1>1, RepairedType DEF Get_Schedule
<1>2. CASE reset_ledgpio_map
  BY <1>2, WiringAssumption DEF reset_ledgpio_map
<1>3. CASE StartSave
  BY <1>3, WiringsAreImages DEF StartSave
<1>4. CASE WriteRow
  <2>1. saving \in Crossways /\ saving' \in 0 .. CROSSWAY_MAX
    BY <1>4 DEF WriteRow, Crossways
  <2>2. LEDColor_Sn \in Images
    BY WiringsAreImages
  <2>3. e2prom' \in Images
    BY <1>4, <2>1, <2>2 DEF WriteRow, Images
  <2>4. older' \in Images
    BY <1>4 DEF WriteRow
  <2> QED
    BY <1>4, <2>1, <2>3, <2>4 DEF WriteRow
<1>5. CASE PowerLoss
  <2>1. e2prom' \in Images
    <3>1. CASE saving < CROSSWAY_MAX
      <4>1. saving \in Crossways /\ Torn(saving)
        BY <1>5, <3>1 DEF PowerLoss, Crossways
      <4> QED
        BY <4>1, TornType
    <3>2. CASE ~(saving < CROSSWAY_MAX)
      BY <1>5, <3>2 DEF PowerLoss
    <3> QED
      BY <3>1, <3>2
  <2>2. 0 \in Crossways /\ 0 \in 0 .. Colours /\ CROSSWAY_MAX \in 0 .. CROSSWAY_MAX
    BY DEF Crossways
  <2> QED
    BY <1>5, <2>1, <2>2, NoRowType DEF PowerLoss
<1> QED
  BY <1>1, <1>2, <1>3, <1>4, <1>5

\* The part about saves.
LEMMA CutStep ==
    ASSUME WiringInv, WiringNext PROVE CutInv'
<1> USE DEF WiringInv, CutInv, ram, past, edit
<1>n. saving \in Int /\ CROSSWAY_MAX \in Nat /\ CROSSWAY_MAX >= 1
  BY WiringNumbers DEF WiringTypeOK
<1>1. CASE Get_Schedule
  BY <1>1 DEF Get_Schedule
<1>2. CASE LCD_LedGPIO_Init
  BY <1>2 DEF LCD_LedGPIO_Init, MenuOpen
<1>3. CASE MoveCursor \/ SelectCrossway \/ SetPin \/ KeepRow \/ LeaveDialog
  BY <1>3, <1>n DEF MoveCursor, SelectCrossway, SetPin, KeepRow, LeaveDialog, InDialog
<1>4. CASE reset_ledgpio_map
  BY <1>4, <1>n DEF reset_ledgpio_map, MenuOpen
<1>5. CASE StartSave
  <2>1. \A c \in Crossways : ~(c < 0)
    BY <1>n DEF Crossways
  <2> QED
    BY <1>5, <1>n, <2>1 DEF StartSave, MenuOpen
<1>6. CASE WriteRow
  <2>1. /\ saving \in Crossways /\ ~dialog
        /\ power /\ newer = LEDColor_Sn /\ UNCHANGED <<newer, LEDColor_Sn, power, dialog>>
    BY <1>6, <1>n DEF WriteRow, Crossways, WiringTypeOK
  <2>2. \A c \in Crossways : e2prom'[c] = IF c = saving THEN newer[c] ELSE e2prom[c]
    BY <1>6, <2>1 DEF WriteRow, WiringTypeOK, Images
  <2>3. ASSUME NEW c \in Crossways, c < saving' PROVE e2prom'[c] = newer[c]
    <3>1. c < saving \/ c = saving
      BY <1>6, <1>n, <2>3 DEF WriteRow, Crossways
    <3> QED
      BY <1>6, <2>2, <3>1 DEF WriteRow
  <2>4. ASSUME NEW c \in Crossways, NEW i \in ColourSet
        PROVE  e2prom'[c][i] \in {older'[c][i], newer'[c][i]}
    <3>1. CASE saving' = CROSSWAY_MAX
      <4>1. c < saving'
        BY <1>n, <3>1 DEF Crossways
      <4> QED
        BY <2>1, <2>3, <4>1
    <3>2. CASE saving' # CROSSWAY_MAX
      <4>1. older' = older
        BY <1>6, <3>2 DEF WriteRow
      <4> QED
        BY <2>1, <2>2, <4>1
    <3> QED
      BY <3>1, <3>2
  <2> QED
    BY <2>1, <2>3, <2>4
<1>7. CASE PowerLoss
  <2>1. \A c \in Crossways, i \in ColourSet : e2prom'[c][i] \in {older[c][i], newer[c][i]}
    <3>1. CASE saving < CROSSWAY_MAX
      <4>1. saving \in Crossways /\ Torn(saving) /\ newer = LEDColor_Sn
        BY <1>7, <1>n, <3>1 DEF PowerLoss, Crossways, WiringTypeOK
      <4> QED
        BY <4>1, TornType
    <3>2. CASE ~(saving < CROSSWAY_MAX)
      BY <1>7, <3>2 DEF PowerLoss
    <3> QED
      BY <3>1, <3>2
  <2>2. dialog' = FALSE /\ ~(saving' < CROSSWAY_MAX) /\ UNCHANGED <<older, newer>>
    BY <1>7, <1>n DEF PowerLoss
  <2> QED
    BY <2>1, <2>2
<1> QED
  BY <1>1, <1>2, <1>3, <1>4, <1>5, <1>6, <1>7 DEF WiringNext

LEMMA WiringStepInv == WiringInv /\ [WiringNext]_wiringVars => WiringInv'
<1>1. WiringInv /\ UNCHANGED wiringVars => WiringInv'
  BY DEF wiringVars, ram, edit, past, WiringInv, WiringTypeOK, CutInv
<1>2. WiringInv /\ WiringNext => WiringTypeOK'
  BY DialogTyped, StoreTyped DEF WiringNext, WiringInv
<1> QED
  BY <1>1, <1>2, CutStep DEF WiringInv

THEOREM WiringInvariance == WiringSpec => []WiringInv
BY WiringInitInv, WiringStepInv, PTL DEF WiringSpec

\* Wiring, record, dialog and EEPROM keep their types: no lamp is ever given
\* an output the board does not have (RA8806_CTRL.c:2290-2430).
THEOREM WiringTypeCorrect == WiringSpec => []WiringTypeOK
<1>1. WiringInv => WiringTypeOK
  BY DEF WiringInv
<1> QED
  BY <1>1, WiringInvariance, PTL

-----------------------------------------------------------------------------
(* LampWiring: what a start leaves *)

LEMMA OnlyStartStarts ==
    ASSUME [WiringNext]_wiringVars, Start PROVE Get_Schedule
BY DEF WiringNext, Start, wiringVars, LCD_LedGPIO_Init, MoveCursor, SelectCrossway, SetPin,
       KeepRow, LeaveDialog, InDialog, MenuOpen, reset_ledgpio_map, StartSave, WriteRow,
       PowerLoss

\* An output the EEPROM names is named by a first cell.
LEMMA FirstExists ==
    ASSUME e2prom \in Images, NEW n \in 0 .. Cells - 1, Names(n)
    PROVE  \E m \in 0 .. Cells - 1 : FirstOf(m) /\ Val(m) = Val(n)
<1> DEFINE Same == {m \in 0 .. Cells - 1 : Val(m) = Val(n)}
<1>1. Same \in SUBSET Nat /\ n \in Same
  OBVIOUS
<1>2. PICK m \in Same : \A x \in Same : m <= x
  BY <1>1, LeastNumber
<1>3. ASSUME NEW x \in 0 .. m - 1 PROVE Val(x) # Val(m)
  <2>1. x \notin Same /\ x \in 0 .. Cells - 1
    BY <1>2, WiringNumbers
  <2> QED
    BY <1>2, <2>1
<1> QED
  BY <1>2, <1>3 DEF FirstOf, Names

LEMMA PinnedAfterStart ==
    ASSUME e2prom \in Images, Get_Schedule
    PROVE  /\ Pinned' = Met(Cells)
           /\ Met(Cells) = {e2prom[c][i] : c \in Crossways, i \in ColourSet} \cap 1 .. Outputs
<1> DEFINE cells == {e2prom[c][i] : c \in Crossways, i \in ColourSet}
           sn    == Repaired.sn
<1>1. ASSUME NEW c \in Crossways, NEW i \in ColourSet
      PROVE  /\ sn[c][i] = IF FirstOf(Pos(c, i)) THEN e2prom[c][i] ELSE 0
             /\ e2prom[c][i] = Val(Pos(c, i)) /\ Pos(c, i) \in 0 .. Cells - 1
  BY RepairedCell, PosBelow
<1> HIDE DEF sn
<1>2. Pinned' = {sn[c][i] : c \in Crossways, i \in ColourSet} \ {0}
  BY DEF Get_Schedule, Pinned, sn
<1>3. {Val(m) : m \in 0 .. Cells - 1} = cells
  <2>1. ASSUME NEW m \in 0 .. Cells - 1 PROVE Val(m) \in cells
    BY CellOf DEF Val
  <2>2. ASSUME NEW c \in Crossways, NEW i \in ColourSet
        PROVE  e2prom[c][i] \in {Val(m) : m \in 0 .. Cells - 1}
    BY <1>1
  <2> QED
    BY <2>1, <2>2
<1>4. Met(Cells) = cells \cap 1 .. Outputs
  <2> HIDE DEF cells
  <2>1. Met(Cells) = {Val(m) : m \in 0 .. Cells - 1} \cap (1 .. Outputs)
    BY DEF Met
  <2> QED
    BY <1>3, <2>1
<1>5. ASSUME NEW v \in Pinned' PROVE v \in Met(Cells)
  <2>1. PICK c \in Crossways, i \in ColourSet : v = sn[c][i] /\ v # 0
    BY <1>2
  <2>2. FirstOf(Pos(c, i)) /\ v = Val(Pos(c, i))
    BY <1>1, <2>1
  <2> QED
    BY <1>1, <2>2 DEF FirstOf, Names, Met
<1>6. ASSUME NEW v \in Met(Cells) PROVE v \in Pinned'
  <2>1. PICK n \in 0 .. Cells - 1 : v = Val(n) /\ Names(n)
    BY DEF Met, Names
  <2>2. PICK m \in 0 .. Cells - 1 : FirstOf(m) /\ Val(m) = v
    BY <2>1, FirstExists
  <2>3. Row(m) \in Crossways /\ Col(m) \in ColourSet /\ Pos(Row(m), Col(m)) = m
    BY CellOf
  <2>4. sn[Row(m)][Col(m)] = v
    BY <1>1, <2>2, <2>3
  <2>5. v # 0
    BY <2>1 DEF Names
  <2> QED
    BY <1>2, <2>3, <2>4, <2>5
<1>7. Pinned' = Met(Cells)
  BY <1>5, <1>6
<1> QED
  BY <1>4, <1>7

LEMMA NoneTwiceAfterStart ==
    ASSUME e2prom \in Images, Get_Schedule PROVE NoneTwice'
<1> SUFFICES ASSUME NEW c \in Crossways, NEW d \in Crossways,
                    NEW i \in ColourSet, NEW j \in ColourSet,
                    LEDColor_Sn'[c][i] # 0, LEDColor_Sn'[c][i] = LEDColor_Sn'[d][j]
             PROVE  c = d /\ i = j
  BY DEF NoneTwice, Wired
<1> DEFINE x == Pos(c, i)
           y == Pos(d, j)
<1>1. FirstOf(x) /\ FirstOf(y) /\ Val(x) = Val(y)
  BY RepairedCell DEF Get_Schedule
<1>2. x \in 0 .. Cells - 1 /\ y \in 0 .. Cells - 1
  BY PosBelow
<1> HIDE DEF x, y
<1>3. x = y
  BY <1>1, <1>2 DEF FirstOf
<1> QED
  BY <1>3, PosApart DEF x, y

\* Whatever the EEPROM holds, a start leaves no output on two lamps, records
\* exactly the outputs in use, and drops no output the EEPROM names
\* (E2PROM_OP.c:230-244).
THEOREM StartsRepaired == WiringSpec => StartRepairs
<1>1. ASSUME WiringInv, [WiringNext]_wiringVars, Start
      PROVE  /\ NoneTwice' /\ used_if_record' = Pinned'
             /\ Pinned' = {e2prom[c][i] : c \in Crossways, i \in ColourSet}
                            \cap 1 .. Outputs
  <2>1. Get_Schedule /\ e2prom \in Images
    BY <1>1, OnlyStartStarts DEF WiringInv, WiringTypeOK
  <2>2. used_if_record' = Met(Cells)
    BY <2>1, RepairedIs DEF Get_Schedule, After
  <2> QED
    BY <2>1, <2>2, PinnedAfterStart, NoneTwiceAfterStart
<1>2. WiringInv /\ [WiringNext]_wiringVars
        => [Start => /\ NoneTwice' /\ used_if_record' = Pinned'
                     /\ Pinned' = {e2prom[c][i] : c \in Crossways, i \in ColourSet}
                                     \cap 1 .. Outputs]_wiringVars
  BY <1>1
<1> QED
  BY <1>2, WiringInvariance, PTL DEF WiringSpec, StartRepairs

\* After a save the supply cut short a lamp has the output of the old wiring
\* or of the new one, or none (RA8806_CTRL.c:2392-2396).
THEOREM CutSavesKeepLamps == WiringSpec => CutSaveKeepsLamps
<1>1. ASSUME WiringInv, [WiringNext]_wiringVars, Start
      PROVE  \A c \in Crossways, i \in ColourSet :
                Wired(c, i)' => LEDColor_Sn'[c][i] \in {older[c][i], newer[c][i]}
  <2>1. Get_Schedule /\ e2prom \in Images
    BY <1>1, OnlyStartStarts DEF WiringInv, WiringTypeOK
  <2>2. ASSUME NEW c \in Crossways, NEW i \in ColourSet, LEDColor_Sn'[c][i] # 0
        PROVE  LEDColor_Sn'[c][i] = e2prom[c][i]
    BY <2>1, <2>2, RepairedCell DEF Get_Schedule
  <2> QED
    BY <1>1, <2>2 DEF WiringInv, CutInv, Wired
<1>2. WiringInv /\ [WiringNext]_wiringVars
        => [Start => \A c \in Crossways, i \in ColourSet :
              Wired(c, i)' => LEDColor_Sn'[c][i] \in {older[c][i], newer[c][i]}]_wiringVars
  BY <1>1
<1> QED
  BY <1>2, WiringInvariance, PTL DEF WiringSpec, CutSaveKeepsLamps
=============================================================================

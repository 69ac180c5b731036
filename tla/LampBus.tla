------------------------------ MODULE LampBus ------------------------------
(***************************************************************************)
(* The lamp outputs: one 16-bit bus (LED_Port) feeds a transparent latch   *)
(* per group of sixteen lamps, enabled by a line of its own (LE_Port).     *)
(* task1 writes all groups twice a second; the lamp test writes groups     *)
(* from task2, where task1 preempts it between any two statements.         *)
(*                                                                         *)
(* A bus value is the set of lamps it lights (a lamp is lit by a 0 bit).   *)
(***************************************************************************)
EXTENDS Integers

CONSTANTS
    Groups,         \* 6, the number of latches
    TestGroups,     \* 3, how many of them the lamp test reaches (1 to 48)
    Lamps,          \* 16, the lamps of a group
    Rows            \* what task1 may want lit: [group -> set of lamps]

GroupSet == 1 .. Groups
LampSet  == 0 .. Lamps - 1
LedSns   == 1 .. TestGroups * Lamps

ASSUME LampBusAssumption ==
    /\ Groups \in Nat \ {0} /\ Lamps \in Nat \ {0} /\ TestGroups \in 1 .. Groups
    /\ Rows \subseteq [GroupSet -> SUBSET LampSet]

VARIABLES
    bus,            \* LED_Port
    enabled,        \* the latches whose LE line is high
    shown,          \* what each latch puts on its lamps
    display,        \* task1's CrossWay_LED_Display: idle, or where it is
    test,           \* task2's write, likewise
    screen,         \* the lamp test: closed, being opened, or its state
    LED_Sn          \* the lamp selected

vars == <<bus, enabled, shown, display, test, screen, LED_Sn>>

Idle    == [step |-> "idle", group |-> 1, row |-> [g \in GroupSet |-> {}]]
Steps   == {"idle", "clear", "drive", "open", "close"}
Dark    == [g \in GroupSet |-> {}]
Passes  == [step : Steps, group : GroupSet, row : Rows \cup {Dark}]
LE_sel(sn)  == (sn - 1) \div Lamps + 1
OneLamp(sn) == [g \in GroupSet |-> IF g = LE_sel(sn) THEN {(sn - 1) % Lamps} ELSE {}]

TypeOK ==
    /\ bus \in SUBSET LampSet
    /\ enabled \in SUBSET GroupSet
    /\ shown \in [GroupSet -> SUBSET LampSet]
    /\ display \in Passes
    /\ test.step \in Steps /\ test.group \in GroupSet
    /\ screen \in {"closed", "cmd", "auto"}
    /\ LED_Sn \in LedSns

Init ==
    /\ bus = {} /\ enabled = {} /\ shown = Dark
    /\ display = Idle /\ test = Idle
    /\ screen = "closed" /\ LED_Sn = 1

-----------------------------------------------------------------------------
(* The ports.  An enabled latch follows the bus.                           *)

Drive(value) ==
    /\ bus' = value
    /\ shown' = [g \in GroupSet |-> IF g \in enabled THEN value ELSE shown[g]]
    /\ UNCHANGED enabled

Enable(g) ==
    /\ enabled' = enabled \cup {g}
    /\ shown' = [shown EXCEPT ![g] = bus]
    /\ UNCHANGED bus

Disable(g) == enabled' = enabled \ {g} /\ UNCHANGED <<bus, shown>>

\* Mutant: the enable line is left high, as the lamp test leaves it.
DisableForgets(p, next) ==
    /\ p.step = "close"
    /\ Enable(p.group)
    /\ next = IF p.group = Groups THEN Idle
              ELSE [p EXCEPT !.step = "clear", !.group = @ + 1]

ClosesLatch(p, next) ==
    /\ p.step = "close"
    /\ Disable(p.group)
    /\ next = IF p.group = Groups THEN Idle
              ELSE [p EXCEPT !.step = "clear", !.group = @ + 1]

\* One statement of CrossWay_LED_Display for the pass p; next is p after it.
LatchStep(p, next) ==
    \/ p.step = "clear" /\ Drive({}) /\ next = [p EXCEPT !.step = "drive"]
    \/ /\ p.step = "drive"
       /\ Drive(bus \cup p.row[p.group])
       /\ next = [p EXCEPT !.step = "open"]
    \/ p.step = "open" /\ Enable(p.group) /\ next = [p EXCEPT !.step = "close"]
    \/ ClosesLatch(p, next)

-----------------------------------------------------------------------------
(* task1 *)

StartDisplay ==
    /\ display.step = "idle"
    /\ \E r \in Rows : display' = [step |-> "clear", group |-> 1, row |-> r]
    /\ UNCHANGED <<bus, enabled, shown, test, screen, LED_Sn>>

CrossWay_LED_Display ==
    /\ LatchStep(display, display')
    /\ UNCHANGED <<test, screen, LED_Sn>>

-----------------------------------------------------------------------------
(* task2, while task1 is blocked *)

Task2Runs == display.step = "idle" /\ UNCHANGED display

DarkPass == [step |-> "clear", group |-> 1, row |-> Dark]

\* LED_Check_interfaceinit, from its call of All_LED_Die.
OpenTest ==
    /\ Task2Runs /\ screen = "closed"
    /\ screen' = "cmd" /\ test' = DarkPass /\ LED_Sn' = 1
    /\ UNCHANGED <<bus, enabled, shown>>

AllDark == test.row = Dark
All_LED_Die ==
    /\ Task2Runs /\ AllDark /\ LatchStep(test, test')
    /\ UNCHANGED <<screen, LED_Sn>>

KeyTime == Task2Runs /\ screen # "closed" /\ test.step = "idle"

\* KEY1, KEY2, KEY3 and KEY4.
SelectLamp ==
    /\ KeyTime
    /\ \/ LED_Sn < TestGroups * Lamps /\ LED_Sn' = LED_Sn + 1
       \/ LED_Sn > 1 /\ LED_Sn' = LED_Sn - 1
       \/ LED_Sn < TestGroups * Lamps - 9 /\ LED_Sn' = LED_Sn + 10
       \/ LED_Sn > 10 /\ LED_Sn' = LED_Sn - 10
    /\ UNCHANGED <<bus, enabled, shown, test, screen>>

\* KEY5 lights the selected lamp alone in its group ...
LightLamp ==
    /\ KeyTime /\ screen = "cmd"
    /\ test' = [step |-> "clear", group |-> LE_sel(LED_Sn), row |-> OneLamp(LED_Sn)]
    /\ UNCHANGED <<bus, enabled, shown, screen, LED_Sn>>

\* ... by the same statements, except that the last one, where the latch
\* should close, sets its enable line again.
LightStep ==
    /\ Task2Runs /\ ~AllDark
    /\ \/ test.step # "close" /\ LatchStep(test, test')
       \/ test.step = "close" /\ Enable(test.group) /\ test' = Idle
    /\ UNCHANGED <<screen, LED_Sn>>

\* KEY2 and KEY3 together start the automatic test: all lamps off.  (Its own
\* steps wait for the key Nothing, which task2 is never sent.)
StartAuto ==
    /\ KeyTime /\ screen' = "auto" /\ test' = DarkPass
    /\ UNCHANGED <<bus, enabled, shown, LED_Sn>>

\* KEY6 leaves the automatic test, or the lamp test.
LeaveTest ==
    /\ KeyTime
    /\ screen' = IF screen = "auto" THEN "cmd" ELSE "closed"
    /\ UNCHANGED <<bus, enabled, shown, test, LED_Sn>>

Next == \/ StartDisplay \/ CrossWay_LED_Display
        \/ OpenTest \/ All_LED_Die
        \/ SelectLamp \/ LightLamp \/ LightStep \/ StartAuto \/ LeaveTest

Spec == Init /\ [][Next]_vars

-----------------------------------------------------------------------------
(* Properties *)

\* Whatever the lamp test left on the ports, an enabled latch included, when
\* task1 has gone through the groups every group shows its own row and every
\* latch is closed (LED_OP.c:82-128).
DisplayShowsRows ==
    [][display.step # "idle" /\ display'.step = "idle"
         => shown' = display.row /\ enabled' = {}]_vars

\* Darkening the groups one after the other (LED_OP.c:140), All_LED_Die puts
\* nothing on the lamps of the group whose latch it opens.
AllLedDieDarkens ==
    [][AllDark /\ test.step = "open" /\ test'.step = "close"
         => shown'[test.group] = {}]_vars
=============================================================================

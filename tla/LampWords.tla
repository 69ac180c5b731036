----------------------------- MODULE LampWords -----------------------------
(***************************************************************************)
(* From a phase's row of lamp colours to what burns at the junction: the   *)
(* words LED_Interpretation computes through the wiring table, their       *)
(* display at the second and half-second signals, the yellow of the last   *)
(* three seconds and the two kinds of flashing.                            *)
(*                                                                         *)
(* A word is the set of outputs whose bit is set, all six groups together. *)
(* task1 is taken to be in time for every signal; what lost signals and a  *)
(* preempted LED_Interpretation do is module TrafficControl's business.    *)
(***************************************************************************)
EXTENDS Integers, Sequences

CONSTANTS
    Vehicles, Walks,    \* movements: those of cars have a yellow lamp
    LampOrder,          \* the lamps in the order of LEDColor_Sn
    Outputs,            \* 96
    Wirings,            \* the wirings the operator sets up
    Masks,              \* the flash masks the operator sets up
    Rows,               \* the rows of the running table, phase by phase
    Duration,           \* Last_Time of every phase
    CutMax              \* 99

Lamps  == (Vehicles \X {"G", "Y", "R"}) \cup (Walks \X {"G", "R"})
Phases == 0 .. Len(Rows) - 1

ASSUME LampsAssumption ==
    /\ Vehicles \cap Walks = {}
    /\ LampOrder \in Seq(Lamps) /\ Outputs \in Nat
    /\ Wirings \subseteq [Lamps -> 0 .. Outputs] /\ Wirings # {}
    /\ Masks \subseteq SUBSET Lamps /\ Masks # {}
    /\ Rows \in Seq(SUBSET Lamps) /\ Rows # <<>>
    /\ CutMax \in Nat /\ Duration \in 7 .. CutMax

VARIABLES
    LEDColor_Sn,        \* the wiring table
    FLASH_Allowence, Day_FLASH_ON, Night_FLASH_ON,
    copying,            \* the row under edit and how many of its lamps are copied
    rtcIT, armed,       \* second interrupt enabled; half-second timer running
    Time_FLAG_DayOrNight, Manual_FLAG, Current_PhaseTable, Current_CutDown,
    words,              \* LED, Yellow, Flash and Allow: the Current_Crossway arrays
    shown,              \* temp_Current_Crossway_LED
    lit,                \* what the ports drive
    wired,              \* history: the wiring the words were computed with,
    row,                \* the row they stand for,
    whole               \* and whether shown was computed from them

settings == <<LEDColor_Sn, FLASH_Allowence, Day_FLASH_ON, Night_FLASH_ON>>
cycle    == <<Time_FLAG_DayOrNight, Manual_FLAG, Current_PhaseTable, Current_CutDown>>
lamps    == <<words, shown, lit, wired, row, whole>>
vars     == <<settings, copying, rtcIT, armed, cycle, lamps>>

Word == SUBSET (1 .. Outputs)
NoCopy == [target |-> LEDColor_Sn, done |-> Len(LampOrder)]

TypeOK ==
    /\ LEDColor_Sn \in [Lamps -> 0 .. Outputs]
    /\ {FLASH_Allowence, Day_FLASH_ON, Night_FLASH_ON} \subseteq SUBSET Lamps
    /\ copying \in [target : Wirings, done : 0 .. Len(LampOrder)]
    /\ rtcIT \in BOOLEAN /\ armed \in BOOLEAN
    /\ Time_FLAG_DayOrNight \in 0 .. 1 /\ Manual_FLAG \in 0 .. 1
    /\ Current_PhaseTable \in Phases /\ Current_CutDown \in 0 .. CutMax
    /\ words \in [LED : Word, Yellow : Word, Flash : Word, Allow : Word]
    /\ shown \in Word /\ lit \in Word
    /\ wired \in [Lamps -> 0 .. Outputs] /\ row \in SUBSET Lamps /\ whole \in BOOLEAN

-----------------------------------------------------------------------------
(* Words *)

RowOf(f) == Rows[f + 1]

Through(w, ls) == {w[l] : l \in ls} \ {0}

Greens(ls) == {l \in ls : l[1] \in Vehicles /\ l[2] = "G"}
YellowOf(l) == <<l[1], "Y">>

\* Mutant: the green's own bit is left out, the exclusive or keeps it lit.
YellowOnly(w, ls) == Through(w, {YellowOf(l) : l \in {g \in Greens(ls) : w[g] # 0}})

\* Both bits of a movement whose green is wired and in the row: the exclusive
\* or of the last three seconds puts the one out and lights the other.
YellowWord(w, ls) ==
    LET changing == {l \in Greens(ls) : w[l] # 0}
    IN  Through(w, changing \cup {YellowOf(l) : l \in changing})

Xor(s, t) == (s \ t) \cup (t \ s)

LED_Interpretation(ls) ==
    /\ words' = [LED    |-> Through(LEDColor_Sn, ls),
                 Yellow |-> YellowWord(LEDColor_Sn, ls),
                 Flash  |-> Through(LEDColor_Sn, IF Time_FLAG_DayOrNight' = 0
                                                 THEN Day_FLASH_ON ELSE Night_FLASH_ON),
                 Allow  |-> Through(LEDColor_Sn, FLASH_Allowence)]
    /\ wired' = LEDColor_Sn /\ row' = ls

Init ==
    /\ LEDColor_Sn \in Wirings
    /\ FLASH_Allowence \in Masks /\ Day_FLASH_ON = {} /\ Night_FLASH_ON = {}
    /\ copying = NoCopy /\ rtcIT = TRUE /\ armed = FALSE
    /\ Time_FLAG_DayOrNight \in 0 .. 1 /\ Manual_FLAG = 0
    /\ Current_PhaseTable = 0 /\ Current_CutDown = Duration
    /\ words = [LED    |-> Through(LEDColor_Sn, RowOf(0)),
                Yellow |-> YellowWord(LEDColor_Sn, RowOf(0)),
                Flash  |-> {},
                Allow  |-> Through(LEDColor_Sn, FLASH_Allowence)]
    /\ shown = {} /\ lit = {}
    /\ wired = LEDColor_Sn /\ row = RowOf(0) /\ whole = FALSE

-----------------------------------------------------------------------------
(* task1 at a second signal *)

\* Mutant: an unsigned count compared with zero, so that yellow never comes.
SecondWordNoYellow ==
    (IF Current_CutDown >= 0 THEN words.LED ELSE Xor(words.Yellow, words.LED)) \cup words.Flash

SecondWord ==
    (IF Current_CutDown >= 3 THEN words.LED ELSE Xor(words.Yellow, words.LED)) \cup words.Flash

LED_Sec_Display ==
    /\ rtcIT /\ ~armed
    /\ armed' = TRUE
    /\ shown' = SecondWord /\ lit' = shown' /\ whole' = TRUE
    /\ UNCHANGED <<settings, copying, rtcIT, cycle, words, wired, row>>

-----------------------------------------------------------------------------
(* task1 at a half-second signal *)

\* Mutant: the outputs about to change flash already in the seconds before.
DieWordEarly ==
    words.Flash \cup
    (IF Current_CutDown > 6 THEN {}
     ELSE words.Allow \cap Xor(words.LED, words.Yellow))

DieWord ==
    words.Flash \cup
    (IF Current_CutDown > 6 THEN {}
     ELSE words.Allow \cap (IF Current_CutDown >= 3 THEN words.LED
                            ELSE Xor(words.LED, words.Yellow)))

\* Put on the ports; shown keeps its value.
LED_HalfSec_Display ==
    /\ armed /\ armed' = FALSE
    /\ lit' = Xor(shown, DieWord) /\ UNCHANGED shown
    /\ UNCHANGED <<settings, copying, rtcIT>>

CountDown ==
    /\ LED_HalfSec_Display
    /\ Current_CutDown # 0 /\ Current_CutDown' = Current_CutDown - 1
    /\ UNCHANGED <<Time_FLAG_DayOrNight, Manual_FLAG, Current_PhaseTable, words, wired, row, whole>>

\* It may be day or night by now.
Time_JudgeDayOrNight == Time_FLAG_DayOrNight' \in 0 .. 1

NextPhase ==
    /\ LED_HalfSec_Display
    /\ Manual_FLAG = 0 /\ Current_CutDown = 0
    /\ Time_JudgeDayOrNight
    /\ Current_PhaseTable' = (IF Current_PhaseTable < Len(Rows) - 1 THEN Current_PhaseTable + 1 ELSE 0)
    /\ Current_CutDown' = Duration
    /\ LED_Interpretation(RowOf(Current_PhaseTable')) /\ whole' = FALSE
    /\ UNCHANGED Manual_FLAG

RepeatPhase ==
    /\ LED_HalfSec_Display
    /\ Manual_FLAG = 1 /\ Current_CutDown = 0
    /\ Time_JudgeDayOrNight
    /\ Current_CutDown' = Duration
    /\ UNCHANGED <<Manual_FLAG, Current_PhaseTable, words, wired, row, whole>>

-----------------------------------------------------------------------------
(* task2 *)

Keys == UNCHANGED <<settings, copying, rtcIT, armed, shown, lit>>
Idle == copying.done = Len(LampOrder) /\ rtcIT

\* A held key adjusts the running phase.
Adjust ==
    /\ Idle /\ Keys
    /\ \/ Current_CutDown > 6 /\ Current_CutDown < CutMax /\ Current_CutDown' = Current_CutDown + 1
       \/ Current_CutDown > 7 /\ Current_CutDown' = Current_CutDown - 1
    /\ UNCHANGED <<Time_FLAG_DayOrNight, Manual_FLAG, Current_PhaseTable, words, wired, row, whole>>

\* The manual screen opens: the first row at whatever count there is.
TakeOver ==
    /\ Idle /\ Keys /\ Manual_FLAG = 0
    /\ Manual_FLAG' = 1 /\ UNCHANGED <<Time_FLAG_DayOrNight, Current_PhaseTable, Current_CutDown>>
    /\ LED_Interpretation(RowOf(0)) /\ whole' = FALSE

LockPhase ==
    /\ Idle /\ Keys /\ Manual_FLAG = 1
    /\ Current_PhaseTable' \in Phases /\ Current_CutDown' = Duration
    /\ UNCHANGED <<Time_FLAG_DayOrNight, Manual_FLAG>>
    /\ LED_Interpretation(RowOf(Current_PhaseTable')) /\ whole' = FALSE

\* The cycle starts again, after manual mode or a lamp test.
Restart ==
    /\ Idle /\ Keys
    /\ Manual_FLAG' = 0 /\ Time_JudgeDayOrNight
    /\ Current_PhaseTable' = 0 /\ Current_CutDown' = Duration
    /\ LED_Interpretation(RowOf(0)) /\ whole' = FALSE

\* The three flash dialogs; seen by the words at the next interpretation.
SaveFlash ==
    /\ Idle
    /\ \E m \in Masks :
          \/ FLASH_Allowence' = m /\ UNCHANGED <<Day_FLASH_ON, Night_FLASH_ON>>
          \/ Day_FLASH_ON' = m /\ UNCHANGED <<FLASH_Allowence, Night_FLASH_ON>>
          \/ Night_FLASH_ON' = m /\ UNCHANGED <<FLASH_Allowence, Day_FLASH_ON>>
    /\ UNCHANGED <<LEDColor_Sn, copying, rtcIT, armed, cycle, lamps>>

\* The wiring dialog copies its row, lamp by lamp, with the second interrupt off.
StartCopy ==
    /\ Idle /\ rtcIT' = FALSE
    /\ \E w \in Wirings : copying' = [target |-> w, done |-> 0]
    /\ UNCHANGED <<settings, armed, cycle, lamps>>

CopyLamp ==
    /\ copying.done < Len(LampOrder)
    /\ LET l == LampOrder[copying.done + 1]
       IN  LEDColor_Sn' = [LEDColor_Sn EXCEPT ![l] = copying.target[l]]
    /\ copying' = [copying EXCEPT !.done = @ + 1]
    /\ UNCHANGED <<FLASH_Allowence, Day_FLASH_ON, Night_FLASH_ON, rtcIT, armed, cycle, lamps>>

EndCopy ==
    /\ copying.done = Len(LampOrder) /\ ~rtcIT
    /\ rtcIT' = TRUE
    /\ UNCHANGED <<settings, copying, armed, cycle, lamps>>

Next ==
    \/ LED_Sec_Display \/ CountDown \/ NextPhase \/ RepeatPhase
    \/ Adjust \/ TakeOver \/ LockPhase \/ Restart
    \/ SaveFlash \/ StartCopy \/ CopyLamp \/ EndCopy

Spec == Init /\ [][Next]_vars

-----------------------------------------------------------------------------
(* Properties *)

\* A wiring without doubles, a row with a colour per movement at most.
Sound  == \A k, l \in Lamps : wired[k] # 0 /\ wired[k] = wired[l] => k = l
Single == \A k, l \in row : k[1] = l[1] => k = l

\* Lamps that flash all the time aside, no movement is shown two colours at a
\* second signal (LED_OP.c:157-167, 287-297): the yellow word's two bits take
\* the green out exactly when they put the yellow in.
OneColourShown ==
    Sound /\ Single /\ whole =>
        \A k, l \in Lamps :
            k[1] = l[1] /\ {wired[k], wired[l]} \subseteq shown \ words.Flash => k = l

\* With the words unchanged since the second signal, the half-second signal
\* puts lamps out and lights none (LED_OP.c:323-351, whose three cases must
\* divide the count where LED_Sec_Display's two do).
HalfOnlyDarkens ==
    [][armed /\ ~armed' /\ whole => lit' \subseteq lit]_vars

\* The same without the condition.
HalfNeverLights == [][armed /\ ~armed' => lit' \subseteq lit \cup words.Flash]_vars

\* When task1 leaves a phase, every movement that had green and has a yellow
\* lamp is showing it, and no green of the phase is still shown
\* (main.c:176-200, LED_OP.c:292-297).
PhaseEndsInYellow ==
    [][armed /\ ~armed' /\ Current_PhaseTable' # Current_PhaseTable /\ Sound /\ Single =>
         \A l \in Greens(row) :
            wired[l] # 0 =>
              /\ wired[l] \notin shown \ words.Flash
              /\ wired[YellowOf(l)] # 0 => wired[YellowOf(l)] \in shown]_vars

\* E2PROM_OP.c:355-356: "各灯组的可闪灯设置 ... 修改后下一秒开始生效" (a change of
\* the lamps that may flash counts from the next second).
FlashFromNextSecond ==
    [][armed' /\ ~armed /\ wired = LEDColor_Sn
         => words.Allow = Through(LEDColor_Sn, FLASH_Allowence)]_vars
=============================================================================

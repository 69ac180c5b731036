----------------------------- MODULE LampWiring -----------------------------
(***************************************************************************)
(* Which output of the board drives which lamp: the wiring in memory, the  *)
(* record of outputs in use, the dialog that edits one crossway's row, and *)
(* the EEPROM the rows are saved to one after another.  Power may fail at  *)
(* any time; the start-up reads the rows back and repairs them.  The names *)
(* are those of no other module, so that its theorems can stand beside     *)
(* those of LampBus.                                                       *)
(***************************************************************************)
EXTENDS Integers, FiniteSetsExt

CONSTANTS
    CROSSWAY_MAX,   \* 6
    Colours,        \* 16, the lamps of a crossway
    Outputs,        \* 96; output 0 is no output
    Factory         \* the wiring reset_ledgpio_map writes

Crossways == 0 .. CROSSWAY_MAX - 1
ColourSet == 0 .. Colours - 1
\* A cell of the EEPROM; Outputs + 1 stands for every byte beyond.
Bytes     == 0 .. Outputs + 1

Wirings == [Crossways -> [ColourSet -> 0 .. Outputs]]
Images  == [Crossways -> [ColourSet -> Bytes]]

ASSUME WiringAssumption ==
    /\ CROSSWAY_MAX \in Nat \ {0} /\ Colours \in Nat \ {0} /\ Outputs \in Nat \ {0}
    /\ Factory \in Wirings

VARIABLES
    LEDColor_Sn,        \* of my_Schedule
    used_if_record,     \* the outputs recorded as used
    e2prom,             \* the rows as the EEPROM holds them
    power,
    dialog,             \* the wiring dialog is open
    crossway, PinNum, sel,
    saving,             \* the row the save is at, or CROSSWAY_MAX
    older, newer        \* history: the rows before a save that is not finished,
                        \* and the rows it was to write

ram  == <<LEDColor_Sn, used_if_record>>
edit == <<dialog, crossway, PinNum, sel>>
past == <<older, newer>>
wiringVars == <<ram, e2prom, power, edit, saving, past>>

WiringTypeOK ==
    /\ LEDColor_Sn \in Wirings
    /\ used_if_record \subseteq 1 .. Outputs
    /\ e2prom \in Images
    /\ power \in BOOLEAN /\ dialog \in BOOLEAN
    /\ crossway \in Crossways /\ sel \in 0 .. Colours
    /\ PinNum \in [ColourSet -> 0 .. Outputs]
    /\ saving \in 0 .. CROSSWAY_MAX
    /\ older \in Images /\ newer \in Images

NoRow   == [i \in ColourSet |-> 0]
Unwired == [c \in Crossways |-> NoRow]

\* An EEPROM with any contents, before the first start.
WiringInit ==
    /\ e2prom \in Images
    /\ older = e2prom /\ newer = e2prom
    /\ LEDColor_Sn = Unwired /\ used_if_record = {} /\ power = FALSE
    /\ dialog = FALSE /\ crossway = 0 /\ PinNum = NoRow /\ sel = 0
    /\ saving = CROSSWAY_MAX

-----------------------------------------------------------------------------
(* Start-up: the loop over the rows read *)

ledgpio_map_check_used(used, p) == p \notin used

Drop(s, c, i) == [sn |-> [s.sn EXCEPT ![c][i] = 0], used |-> s.used]

\* Mutant: the outputs met are not recorded.
RepairForgets(s, c, i) ==
    LET temp == s.sn[c][i]
    IN  IF temp > Outputs THEN Drop(s, c, i) ELSE s

\* One round of the loop.
Repair(s, c, i) ==
    LET temp == s.sn[c][i]
    IN  IF temp > Outputs THEN Drop(s, c, i)
        ELSE IF temp = 0 THEN s
        ELSE IF ledgpio_map_check_used(s.used, temp)
             THEN [sn |-> s.sn, used |-> s.used \cup {temp}]
             ELSE Drop(s, c, i)

\* Lamp number n in the order of the loop.
Row(n) == n \div Colours
Col(n) == n % Colours

Repaired ==
    LET round[n \in 0 .. CROSSWAY_MAX * Colours] ==
            IF n = 0 THEN [sn |-> e2prom, used |-> {}]
            ELSE Repair(round[n - 1], Row(n - 1), Col(n - 1))
    IN  round[CROSSWAY_MAX * Colours]

Get_Schedule ==
    /\ ~power /\ power' = TRUE
    /\ LEDColor_Sn' = Repaired.sn /\ used_if_record' = Repaired.used
    /\ older' = e2prom /\ newer' = e2prom
    /\ UNCHANGED <<e2prom, edit, saving>>

-----------------------------------------------------------------------------
(* The dialog *)

MenuOpen == power /\ ~dialog /\ saving = CROSSWAY_MAX

LCD_LedGPIO_Init ==
    /\ MenuOpen /\ dialog' = TRUE
    /\ crossway' = 0 /\ sel' = 0 /\ PinNum' = LEDColor_Sn[0]
    /\ UNCHANGED <<ram, e2prom, power, saving, past>>

InDialog == dialog /\ UNCHANGED <<used_if_record, e2prom, power, saving, past>>

MoveCursor ==
    /\ InDialog
    /\ sel' \in {IF sel = 0 THEN Colours ELSE sel - 1, IF sel = Colours THEN 0 ELSE sel + 1}
    /\ UNCHANGED <<LEDColor_Sn, dialog, crossway, PinNum>>

SelectCrossway ==
    /\ InDialog /\ sel = 0
    /\ crossway' \in {(crossway + 1) % CROSSWAY_MAX, (crossway - 1) % CROSSWAY_MAX}
    /\ PinNum' = LEDColor_Sn[crossway']
    /\ UNCHANGED <<LEDColor_Sn, dialog, sel>>

Up(p)   == IF p < Outputs THEN p + 1 ELSE 0
Down(p) == IF p > 0 THEN p - 1 ELSE Outputs

\* KEY1 skips the outputs recorded as used.
NextUnused(p) ==
    LET free == {q \in p + 1 .. Outputs : ledgpio_map_check_used(used_if_record, q)}
    IN  IF free = {} THEN 0 ELSE Min(free)

\* Mutant: the key counts on beyond the last output.
SetPinFar ==
    /\ InDialog /\ sel # 0
    /\ PinNum' = [PinNum EXCEPT ![sel - 1] = @ + 1]
    /\ UNCHANGED <<LEDColor_Sn, dialog, crossway, sel>>

\* KEY1; KEY1 held; KEY2, held or not.
SetPin ==
    /\ InDialog /\ sel # 0
    /\ \E p \in {NextUnused(PinNum[sel - 1]), Up(PinNum[sel - 1]), Down(PinNum[sel - 1])} :
           PinNum' = [PinNum EXCEPT ![sel - 1] = p]
    /\ UNCHANGED <<LEDColor_Sn, dialog, crossway, sel>>

\* KEY5 held.  The record of outputs in use stays as it was at the start.
KeepRow ==
    /\ InDialog
    /\ LEDColor_Sn' = [LEDColor_Sn EXCEPT ![crossway] = PinNum]
    /\ UNCHANGED edit

\* KEY6
LeaveDialog ==
    /\ InDialog /\ dialog' = FALSE
    /\ crossway' = 0 /\ sel' = 0 /\ PinNum' = NoRow
    /\ UNCHANGED LEDColor_Sn

-----------------------------------------------------------------------------
(* The other two items of the menu *)

reset_ledgpio_map ==
    /\ MenuOpen /\ LEDColor_Sn' = Factory
    /\ UNCHANGED <<used_if_record, e2prom, power, edit, saving, past>>

StartSave ==
    /\ MenuOpen /\ saving' = 0
    /\ older' = e2prom /\ newer' = LEDColor_Sn
    /\ UNCHANGED <<ram, e2prom, power, edit>>

\* Mutant: every row is written one place further.
WriteRowFurther ==
    /\ power /\ saving < CROSSWAY_MAX
    /\ e2prom' = [e2prom EXCEPT ![(saving + 1) % CROSSWAY_MAX] = LEDColor_Sn[saving]]
    /\ saving' = saving + 1
    /\ UNCHANGED <<ram, power, edit, past>>

\* e2prom_write_bytes: sixteen bytes to one page.  Nothing asks whether the chip
\* has finished the page before (acknowledge_poll is commented out, a fixed pause
\* stands in its place); as with every acknowledge loop the model takes it that
\* the chip has, so that a row is written whole unless the supply fails.
WriteRow ==
    /\ power /\ saving < CROSSWAY_MAX
    /\ e2prom' = [e2prom EXCEPT ![saving] = LEDColor_Sn[saving]]
    /\ saving' = saving + 1
    /\ older' = (IF saving' = CROSSWAY_MAX THEN newer ELSE older) /\ UNCHANGED newer
    /\ UNCHANGED <<ram, power, edit>>

-----------------------------------------------------------------------------
(* The supply fails; of a row being written each byte is old or new. *)

Torn(row) ==
    \E fresh \in SUBSET ColourSet :
        e2prom' = [e2prom EXCEPT ![row] =
                      [i \in ColourSet |-> IF i \in fresh THEN LEDColor_Sn[row][i] ELSE @[i]]]

PowerLoss ==
    /\ power /\ power' = FALSE
    /\ IF saving < CROSSWAY_MAX THEN Torn(saving) ELSE UNCHANGED e2prom
    /\ LEDColor_Sn' = Unwired /\ used_if_record' = {}
    /\ dialog' = FALSE /\ crossway' = 0 /\ sel' = 0 /\ PinNum' = NoRow
    /\ saving' = CROSSWAY_MAX /\ UNCHANGED past

WiringNext ==
    \/ Get_Schedule
    \/ LCD_LedGPIO_Init \/ MoveCursor \/ SelectCrossway \/ SetPin \/ KeepRow \/ LeaveDialog
    \/ reset_ledgpio_map \/ StartSave \/ WriteRow
    \/ PowerLoss

WiringSpec == WiringInit /\ [][WiringNext]_wiringVars

-----------------------------------------------------------------------------
(* Properties *)

Wired(c, i)   == LEDColor_Sn[c][i] # 0
Pinned        == {LEDColor_Sn[c][i] : c \in Crossways, i \in ColourSet} \ {0}
NoneTwice     == \A c, d \in Crossways, i, j \in ColourSet :
                    Wired(c, i) /\ LEDColor_Sn[c][i] = LEDColor_Sn[d][j] => <<c, i>> = <<d, j>>
Start         == ~power /\ power'

\* Whatever the EEPROM holds, after a start no output drives two lamps, the
\* record names exactly the outputs in use, and no output the EEPROM names is
\* left without a lamp (E2PROM_OP.c:230-244).
StartRepairs ==
    [][Start => /\ NoneTwice' /\ used_if_record' = Pinned'
                /\ Pinned' = {e2prom[c][i] : c \in Crossways, i \in ColourSet}
                                \cap 1 .. Outputs]_wiringVars

\* A save the supply cut short mixes two wirings; after the next start a lamp
\* still has the output of the one or of the other, or none, never another's
\* (RA8806_CTRL.c:2392-2396).
CutSaveKeepsLamps ==
    [][Start => \A c \in Crossways, i \in ColourSet :
                    Wired(c, i)' => LEDColor_Sn'[c][i] \in {older[c][i], newer[c][i]}]_wiringVars

\* RA8806_CTRL.c:2326: "从不使用（0）到分配端口要记录到used_if_record里面，从使用到不
\* 使用，要修改记录" (an assignment is recorded, and the record is changed when
\* an output is given up).
RecordExact == power => used_if_record = Pinned
=============================================================================

# Traffic signal controller: models, checks and proofs

The firmware in `src/MDK` drives a road junction: an STM32F103 under µC/OS-II,
six groups of sixteen lamp outputs, a keypad and an LCD to edit the plan, a
clock, an EEPROM, and an Ethernet link that sets the time. This directory holds
TLA+ models of the parts in which the order of events matters, the TLC runs that
check them and the TLAPS proofs of what holds for every size.

File names below are relative to `src/MDK`; `RA` stands for `RA8806_CTRL.c`.
The sources are GBK encoded; quotations are given in UTF-8.

## 1. The system

| Part | State | Operations | Talks to |
|---|---|---|---|
| Interrupts (`stm32f10x_it.c`) | `traffic_signal`, keypad history `Trg`, `Cont`, `CKey` | `RTC_IRQHandler` (each second), `TIM2_IRQHandler` (half a second later), `TIM6_IRQHandler` (keypad scan), `EXTI0_IRQHandler` (Ethernet) | mailbox to task1, queue to task2, resume of task3, `ETH_INT` |
| task1, priority 2 (`main.c`, `LED_OP.c`) | `Current_CutDown`, `Current_PhaseTable`, `Current_TimeTable`, `Phase_OneShot`, the lamp arrays | count down, next phase, new cycle, repeat in manual mode, display | lamp bus, `my_Schedule`, `Current_Time` |
| task2, priority 10 (`main.c`, `KEY_OP.c`, `RA`) | menu position, data of the open dialog | menu keys, editors of phases and periods, manual mode, lamp test, lamp wiring, flash settings, clock | `my_Schedule`, everything task1 owns, lamp bus, LCD |
| task3, priority 20 (`main.c`) | `Current_Time` | read the clock, draw it, suspend itself | `sem_screen`, resumed by the RTC interrupt |
| task4, priority 25 (`User/netconf.c`, `ethernetif.c`, `ENC28J60.C`) | lwIP, timers | poll the chip, TCP and ARP timers | lwIP callbacks in `app/` |
| task5, priority 30 (`main.c`) | none | ask for a connection again; never gets to run, see section 6 | `mbox_client_connected` |
| Schedule (`Traffic_Param.h`, `E2PROM_OP.c`) | `my_Schedule`: periods, a phase table for each, lamp wiring, flash masks | loaded by `Get_Schedule`, edited by task2 | all of the above |
| EEPROM, external clock (`at24c64_op.c`, `ds1302_op.c`) | chip contents | byte and page access | start-up, wiring dialog, time setting |
| µC/OS-II, lwIP, ST library | vendored | | |

### How the parts interact

Both timer interrupts post a pointer to the **same byte** to a mailbox with one
slot. task1 reads the byte when it gets to run, not when the message was posted.
On a second it displays the lamps; on a half second it counts down, and at zero
goes to the next phase or, after the last, copies the table of the period now
valid into `Phase_OneShot`.

task2 has no lock against task1. It relies on four things: task1 is the
only task that preempts it; `while(Current_CutDown==0 && Current_PhaseTable==
Phase_OneShot.Phase_Number-1);` keeps an edit from starting just before the
copy; `RTC_ITConfig(RTC_IT_SEC, DISABLE)` stops further ticks during a write;
and task1 runs on a copy. The stop does not reach the half-second interrupt that
the last second has already armed, so task1 can still run once inside.

### What is hard

* A step of task1 between any two statements of task2: in an adjustment of the
  countdown, in an edit, in the take-over by manual mode, in the restart after
  it, and on the lamp bus.
* A message that changes after it was posted, a post that is dropped, and the
  one missing tick that deletes task1.
* A copy that is older than the table it was made from, with indices of the one
  used on the other; selections of a dialog that outlive what they select.
* Long legal key sequences: sixteen colour cases, limits that compare hour,
  minute and second one by one, shifts of parallel arrays.
* Bytes that run past their fields, rows that run into the next table.
* A key that is held, a queue of five slots and a reader that may wait for the
  screen; timeouts that end a wait before the waiting task has left the list.
* A wiring saved row by row, on a supply that may fail in the middle of a row.
* One status of the time client set by each of its callbacks, and an argument
  block that is freed while the callbacks that use it stay registered.

`PROJECT.json` lists each hazard at its line, with the properties about it.

### What makes each part correct

* Phase control: phases in order; a new cycle only after the last phase and from
  one whole stored table; the lamps never go from green to another row without
  yellow; no second is shown from a half-interpreted row, and of a half second at most
  its mask; a lock lights the phase of the running copy that was chosen; the cycle
  goes on, unless the operator holds the adjusting keys for ever.
* Adjustments: never outside the limits, never in the clearance stage.
* Period editor: the scan finds the period a time belongs to; adding and deleting
  touch one period and keep the order.
* Phase editor: adding and deleting touch one phase; left turn and the walks have
  one colour, and the others a second only where left turn's lamp is tested for
  theirs; each time stays in its limits; the selection exists.
* Lamp words: one colour per movement at a second; the half second only darkens;
  a green that ends has had its yellow.
* Lamp outputs: each group shows its own row, whatever a lamp test left behind.
* Keypad and queue: a press gives one short code, a hold the long one and not too
  early; what was accepted reaches the menus once and in order.
* Screen: its semaphore is never lost or doubled; the clock and the menus go on.
* Wiring: after a start no output drives two lamps, and no lamp has an output
  that neither the old nor the new wiring gave it.
* Clock: the dialog leaves the calendar on one day only, 31 November; a saved time
  comes back whole.
* Time client: one request at a time; a time that has come is kept; until it has,
  the program comes back to asking.

## 2. Modules

| Module | Models | Checked by |
|---|---|---|
| `CycleSnapshot` | what phase control promises, without interrupts or tasks | refinement from `TrafficControl` |
| `TrafficControl` | interrupts, mailbox, task1, and task2 where it touches task1's data | `Traffic*.cfg` |
| `TrafficControl_proofs` | theorems about `TrafficControl` | TLAPS |
| `PeriodEditor` | set, add and delete a period; `Time_JudgeTimeTable` | `Period*.cfg` |
| `PhaseEditor` | set, add and delete a phase | `Phase*.cfg` |
| `LampBus` | lamp bus, latches, display pass, lamp test | `LampDisplay.cfg`, `LampDie.cfg` |
| `LampWords` | `LED_Interpretation` through the wiring, the two displays, the flash dialogs' saves | `LampWords.cfg`, `Words*.cfg` |
| `Kernel` | the µC/OS-II services the screen tasks use | part of `Panel` |
| `Keypad` | the scan in `TIM6_IRQHandler` | part of `Panel` |
| `Panel` | task2 and task3 around queue and screen, over `Kernel` and `Keypad` | `Panel.cfg` |
| `KeyChannel` | what the key queue promises, without kernel or tasks | refinement from `Panel` |
| `LampWiring` | wiring dialog, factory wiring, save, loss of power, repair at start-up | `LampWiring.cfg`, `WiringRecord.cfg` |
| `ClockSync` | date dialog, clock chip, counter, task3's copy, calibration | `Clock*.cfg` |
| `TimeClient` | task4: client, server, search, and the lwIP that calls them | `TimeClient.cfg`, `Client*.cfg` |
| `..._proofs` | theorems about `LampWords`, `PeriodEditor`, `PhaseEditor`, `Panel`, `ClockSync`, `TimeClient`; `Lamps_proofs` about `LampBus` and `LampWiring` | TLAPS |
| `MC...` | values of the constants for TLC | |

The modules of the traffic side meet at these seams. `TrafficControl` treats an edit as a jump to a table of
the set `Tables`; `PhaseEditor` and `PeriodEditor` say what the jumps are and
treat the guarded write as one step, which `ImplementsCycle` justifies: task1
never copies a table in the middle of one. `TrafficControl` lets a new cycle take
any period in use; `PeriodEditor` says which. `TrafficControl` writes the ports
in one step; `LampBus` splits that step into port writes, and `LampWords`
says which lamps a row and a half second's mask become. `Panel` says when a menu function gets a key,
the dialogs' modules what it does with it; `ClockSync` and `Panel` share the
screen's semaphore, which `ClockSync` reduces to the one thing it needs: a
calibration or a key cannot use the screen during a refresh.

### TrafficControl

Each interrupt handler is an action. A handler runs when task2 is between two
statements; task1, which has the highest priority, is two steps: taking the
message (`TakeMessage`) and handling it with the byte's value at that moment
(`LED_Sec_Display`, `CountDown`, `NextPhase`, `NewCycle`, `RepeatPhase`). The last
four begin, as `main.c:175` does, with the half second's display: `lamps` is what the
last second put into `temp_Current_Crossway_LED`, `mask` what the half second takes
from the arrays as they are now and inverts on the ports. A picture of the arrays
(`Pictures`) is a row with the note whether all of it is there, so a mask made between
clearing and filling is seen as one. task2
steps only while task1 is blocked (`Task2Runs`). Its stages (`t2`) stand for the
places at which an interruption can be noticed: between load and store of an
adjustment, between each part of an edit, between each assignment to a global of
the take-over, the lock (`LockPeriod` and `LockPhase` are its two indices) and the
restart.

*One interrupt per window.* The stages in `Window` are a few instructions each,
microseconds, while timer interrupts are half a second apart; `tickSpent` allows
one interrupt in such a run and no second. The stages in `KeyStages`, where
task2 waits for the operator, and the wait loop allow any number.

*Prompt.* With `Prompt = FALSE` task1 may be as slow as it likes: messages are
overwritten and dropped. With `Prompt = TRUE` task1 has finished before the next
timer interrupt, which is the normal case (it needs about a millisecond of the
half second). `GreenThenYellow` needs it: a lost second can be the yellow one.
The liveness run needs it too.

`NoRestartWhileAutomatic` names the condition under which the restart is safe:
the restart after the lamp test, and after a password screen left with KEY6,
runs under a live cycle (`traffic_cycle_end` shows what happens then).

### PeriodEditor and PhaseEditor

One action per key and field. The dialogs keep their own selection and their own
copy of what is under edit; both are variables. A lamp word is the set of its
lamps, `^` and `|` are symmetric difference and union, and the sixteen colour
cases of each direction are one operator with the lamp the code tests as a
parameter (`Tested`), since three of the cases test another movement's bit.
Closing a dialog frees its data: the variables go back to the values they start with.
`PutInitialPhase` follows the C layout of `PhaseTable_TypeDef` one element past
the end of an array: into the next row, and from the last row into the next
table's count and first time.

Menus receive no `Nothing` key (`main.c:244-268` calls the menu function for
queued keys only), so states the code leaves on `Nothing` are never left, and
the models have no such step.

### LampBus

A latch is transparent while enabled. `LatchStep` is one pass of
`CrossWay_LED_Display`, port write by port write, and serves task1 and task2
alike; task1's pass runs to its end before task2 goes on. The lamp test's own
write differs in its last statement (`RA:1216`).

### LampWords

The rows of the table are sets of lamps, the words sets of outputs, all six groups
together; `Through` and `YellowWord` are `LED_Interpretation`'s translation through
`LEDColor_Sn`, `SecondWord` and `DieWord` the arithmetic of the two displays. task1 is in
time for every signal here; what lost signals do is `TrafficControl`'s business.
The saves of the flash masks, the take-over, the phase lock and the restart come
between any two signals; a row of the wiring is copied lamp by lamp, so that an
interpretation can meet half of it. Three history variables remember the wiring
and the row the words were computed from (`wired`, `row`) and whether they have
been shown (`whole`).

### Kernel, Keypad and Panel

A kernel service is a critical section and so one step; a call that blocks is two,
and between them `OSTimeTick` and the posts of others change the caller's TCB. `OSTimeTick` ends a wait without taking the task out
of the event's list, as the code does, and the task itself leaves the list when
it runs.

task2 (priority 10) and task3 (20) step only if nothing of higher priority is
ready. Three interrupts come between any two services: the tick, the keypad scan,
which posts what it found and drops it if the queue is full, and the second, which
resumes task3. Because task3 is of lower priority and task2's menu functions never
block, task2 can find the screen taken, but task3 never has to wait for it: its
timeout branch (`main.c:277-294`) never runs (`ClockNeverWaits`, proved).

### LampWiring

The wiring in memory, the record of outputs in use, the dialog, and the rows in
the EEPROM. A save writes row after row; the supply may fail between two rows and
within one, and then a row holds cells of both wirings. Start-up reads whatever is
there, a cell of a byte beyond the outputs included, and repairs it: `Repair` is one
round of the loop, and `Repaired` the recursive function that goes round by round.

### ClockSync

Four places keep a time of day. task2 is not interrupted by task3 or task4, so
what it does at one key is one step; the refresh (task3) and the calibration
(task4), which the others preempt, go write by write. Time does not pass: a clock
moves only by what the code writes, so that "the two clocks agree" means something.
The counter is a calendar time; the conversions `GregorianDay` and
`mktime` are not modelled, the chip's two digits of the year, its count of months
from one and the minute it stores as one instead of zero are.

### TimeClient

lwIP is built without a system (`src/include/lwip/lwipopts.h` is the file the
project includes), and every callback runs to its end inside `tcp_input` or the
slow timer, both called by task4. A segment, or a timer at one connection, is
therefore one step, and the operators of the module compose: each takes a
connection with the status and gives back what the callback leaves. The
connections stand in the order of `tcp_active_pcbs`, which the search depends on:
a connection that sends a segment moves to the head, as `tcp_input` does. A
connection's argument block is live or freed, and a callback that finds it freed
may see anything in it. The asserts of lwIP do nothing here: the macro in `cc.h`
tests the message's pointer. Loss and repetition on the wire are covered by what
lwIP makes of them: a segment arrives once, or the connection is given up
(`Limit`).

## 3. Runs

All bounds are in the `.cfg` files; `tlc -config <cfg> <module>` repeats a run.

| Run | Result | Shows |
|---|---|---|
| `traffic_manual` | holds | edits, take-over, locks, hand-back, at any speed of task1: the running copy follows whole snapshots (`ImplementsCycle`), the index stays in the running table, a lock lights the chosen phase of the running copy, half-written arrays are at most the mask of one half second |
| `traffic_any_use` | holds | every dialog, lamp test, abandoned password screens, a failing crystal: types, adjustments keep the clearance |
| `traffic_prompt` | holds | phases of 7 and 8 seconds, adjusted and edited, task1 in time: rows change through yellow; an edit ends; the countdown keeps reaching zero unless the operator never stops adjusting |
| `traffic_cycle_end` | violated | restart under a live cycle: `main.c:187`'s claim about the last phase fails |
| `period` | holds | three dialogs over up to three periods, hours that overflow and an order that is lost included: selections and scan stay on periods in use; adding displaces none, adding and deleting keep the order, in an ordered table the scan finds the right period at every second of the day |
| `phase` | holds | three dialogs over a short and a long period, stale selections and the write past a table included: the phase under edit exists, times leave their range only by such a write, a phase goes in or out and the others stay in order; left turn and walk keep one colour, right turn gets a second only where left turn's lamp differs |
| `lamp_display` | holds | one pass of task1 repairs whatever a lamp test left |
| `words` | holds | one colour per movement through two wirings and flash masks, the half second only darkens, a green that ends has been yellow |
| `panel` | holds | kernel lists and tasks agree, the semaphore is conserved, one short code a press, the queue is a `KeyChannel`, menus and clock go on |
| `wiring` | holds | power failing anywhere, also within a row: a start makes a wiring without doubles; no lamp gets an output of neither wiring |
| `clock` | holds | dialog, save, refresh, calibration and losses of power in any order: no day the calendar lacks but 31 November, and a saved time comes back whole |
| `client` | holds | one request at a time, a time that has come is kept and its connection taken down, until then the program asks again |

Seventeen more checks each end in a counterexample and document a
disagreement of section 4. They are kept for whoever changes that code. Where a
property is named with "instead", it takes the place of the properties of that run's
configuration:

| Configuration, module | Violates | Shows |
|---|---|---|
| `TrafficLock.cfg`, `MCTrafficControl` | `LockShowsChosen` | a locked phase of another period lights the running period's row |
| `PeriodAll.cfg`, `MCPeriodEditor` | `DeleteRemovesSelected` instead | deleting loses the last period's entry, not the selected one's |
| `PeriodOrder.cfg`, `MCPeriodEditor` | `InOrder` | `set_period` saves periods out of order |
| `PhaseAll.cfg`, `MCPhaseEditor` | `AddLeavesOtherPeriods` instead | a selection kept from a longer period, at the last index, makes an addition write into the next table |
| `PhaseCarry.cfg`, `MCPhaseEditor` | `UnsavedTimeIsLost` | an unsaved time is saved into another phase |
| `PhaseAll.cfg`, `MCPhaseEditor` | `OneColour` instead | KEY2 on right turn leaves two colours |
| `LampDie.cfg`, `MCLampBus` | `AllLedDieDarkens` | preempted, `All_LED_Die` latches another group's row |
| `WordsTakeOver.cfg`, `MCLampWords` | `HalfNeverLights` | a take-over between the two signals of a second: the half second lights what the second did not |
| `WordsFlash.cfg`, `MCLampWords` | `FlashFromNextSecond` | a flash mask that was saved is not in force from the next second |
| `WiringRecord.cfg`, `MCLampWiring` | `RecordExact` | the wiring dialog changes the wiring and not the record of outputs in use |
| `ClockNovember.cfg`, `MCClockSync` | `DateInCalendar` | ten months on from 31 January is 31 November |
| `ClockMonth.cfg`, `MCClockSync` | `CalibrationAgrees` | after a calibration the chip is a month behind the counter |
| `ClockJudge.cfg`, `MCClockSync` | `JudgesAsShown` | task1 judges day or night by a time of which half is new |
| `ClientSearch.cfg`, `TimeClient` | `SearchEnds` | with two served connections ahead the search circles and task4 stops |
| `ClientBye.cfg`, `TimeClient` | `RetryGoesOn` | a host that says "bye" and stays silent ends the calibration for good |
| `ClientClose.cfg`, `TimeClient` | `RetryGoesOn` | a `tcp_close` without memory leaves a connection nobody ends |
| `ClientFreed.cfg`, `TimeClient` | `FreedOnce` | the argument block is freed twice |

### Bounds, and why they are enough

* Traffic: two periods of one or two phases, so that a table can have a last
  phase that is first and one that is not, and a copy can differ from the table
  in length, rows and times. `traffic_manual` has no adjustments and times of 3
  and 4, which cross the yellow limit, because at any speed of task1 every
  second more multiplies its states; what an adjustment may do there is in
  `traffic_any_use`. `traffic_prompt` has times of 7 and 8 and adjustments that
  reach them; in both the code's limits 6, 7 and 16 are kept and only the upper
  end is lower (`CutMax` 18 instead of 99). The theorems of section 5 remove these
  bounds, but for liveness.
* Periods: up to three, so that one goes in before, between and behind others, one or
  two are left after a deletion and the loop that closes the gap (`RA:4560`, up to the
  count less three) is reached. The day has 2 hours of 2 minutes of 2 seconds, and
  `ByteSize` 3 keeps the overflow of an hour within reach. `MCScope` leaves out one
  combination, of `set_period` and a third period: times are changed in plans that never
  had one, and additions and deletions run up to three periods in plans whose loaded
  times have not been changed. Without it the states are too many; the theorems have
  neither that limit nor the others.
* Phases: a period of one phase before one of three, so that a selection kept
  from the second is stale in the first, up to the place past the end of the table;
  the shifts have a first, a middle and a last element, and full tables occur. Times
  have two values, the limits (1 and 2 for 7 and 99). The movements are one whose keys
  test their own lamps, one whose keys test another's, and a walk. `MCScope` lets one
  period change while the other is as loaded, or as the write past the table has left
  it, and explores the colour keys in the first phase of plans whose counts and times
  are as loaded: no key makes another word out of one the other dialogs move. There is one
  row, since the rows are shifted alike; the theorems have any number.
* Lamps: three groups of six lamps, the lamp test reaching two, so that its
  steps of ten fire, one group is out of its reach, and each pass has a first, a
  middle and a last group.
* Words: a car and a pedestrian movement that take turns, five outputs, a wiring
  with green and yellow exchanged and one lamp without output, masks with and
  without red lamps. A phase lasts seven seconds, which is the code's shortest,
  so its green, last green second and yellow all occur; adjustments reach 8.
* Panel: an ordinary and a slow key, so that two can be held, one after the
  other released; a queue of two slots, full after two scans; a hold of two scans;
  timeouts of two and four ticks and retries of one and two keep the code's order
  (a retry is shorter than a timeout, task3's longer than task2's).
* Wiring: two crossways of two lamps on two outputs: fewer outputs than lamps, so
  doubles are the normal case, and a factory wiring that has one.
* Clock: 2011 and 2012, an ordinary year and a leap year next to it; the cursor on
  each place of year, month and day; one calibration, to a full hour in a month
  of 31 days. In two years the keys of the decade never fire (`RA:1736` and
  `RA:1855` need ten years of room); `OneLongMonth` covers them, for every range of years.
* Client: two served connections and one client, each in any order in the list;
  one write may wait for its acknowledgment. lwIP has five connections and a
  longer send queue; with `SndQueue` 2 the run holds as well, and the safety
  properties are proved for any number.

### Deadlock and fairness

Deadlock is checked in every run but `client`: the timers or the operator can
always act. In `client` the search that goes in a circle is a real stop of task4,
the one `ClientSearch.cfg` shows, and no step leaves it.

In `TrafficControl` `FairSpec` assumes: the two timer interrupts keep coming (strong fairness, since
edits disable the second interrupt again and again; a second that ends while its
interrupt is disabled is kept in `SECF` and interrupts as soon as it is
enabled); task1, the highest-priority task, finishes what it starts (weak);
task2's straight runs finish and its wait loop, which samples the countdown
millions of times a second, notices a state that keeps recurring (strong: task1
takes the processor in between). The operator's keys are not fair: `EditEnds`
and `CycleGoesOn` hold if nobody ever presses a key again, and if somebody never
stops; but an operator who adds a second every second keeps the countdown above six
for ever, so `CycleGoesOn` excepts adjustments without end.

In `Panel` the processor goes on (weak fairness of task2's steps, menu functions
return), task3 goes on if task2 sleeps again and again (strong), ticks and seconds
keep coming (weak). `RefreshGoesOn` and `KeyTaken` say what follows from that.

In `TimeClient` the ARP timer's search goes on, and what is sent on the client's
connection is acknowledged in the end or given up, since TCP repeats it at most
`TCP_MAXRTX` times (weak). `RetryGoesOn` further needs a time server that closes
the connection after its "bye" (`PoliteSpec`): `ClientBye.cfg` is the same run
without that.

## 4. Disagreements between code and its comments or texts

The finding in `PROJECT.json` quotes the line a run refutes: `main.c:187` takes it
for granted that a cycle ends in the last phase, and a restart under a live cycle
(`RA:1623`, on leaving a password screen) breaks it. The others, with the
configurations of section 3 that show them:

* Plan: `set_period` can store periods out of the order the scan relies on
  (`RA:4251`, `TIME_OP.c:80`); `del_period` ends its loop one short (`RA:4560`);
  `add_phase` keeps a phase selection across periods and can write past a table
  (`RA:4018`, `RA:4046`); `set_phase` carries an unsaved time along (`RA:3324`)
  and tests the wrong bits going backwards (`RA:3351`); an added phase lasts 7
  seconds where the text says 0 (`RA:4049`); a locked phase lights the wrong
  period's row (`LED_OP.c:162`).
* Lamps: the lamp test leaves its latch open (`RA:1216`) and `All_LED_Die` races
  with task1 (`RA:1190`; `No_UpdateLED_FLAG`, meant to prevent it, is read
  nowhere); `E2PROM_OP.c:355-356` lets a flash setting take effect "修改后下一秒开始生效"
  (from the next second), but the words are computed once a phase, and a new phase
  may be long in coming; `E2PROM_OP.c:389` lets a changed phase lamp take effect at
  the next phase ("修改相位灯位，下个相位生效"), but the running table is copied once a
  cycle; `LED_OP.c:276` says that red never flashes, and the flash dialogs offer
  the red lamps; `RA:2326` asks for the record of outputs to follow the wiring, and
  no line does.
* Clocks: ten months on from January is month 10, November, but `RA:1766` asks for
  month 11, so that November gets 31 days; `tcp_client.c:159` gives the chip
  the month less one, where the menu's save gives it plus one (`CalibrationAgrees`).
* Network: the search of `netconf.c:174-184` looks at two connections and circles
  between them; `tcp_client.c:203` frees the block before `tcp_close`, and the
  callbacks that stay registered free it again, where `mem.c:338-339` wants it "in
  a used state"; "bye" (`tcp_client.c:147`) sends nothing and so nothing that would
  be acknowledged.
* Kernel: two seconds without a tick delete task1 where the comment says the
  system restarts or terminates (`main.c:167`).

## 5. Proofs

Eight modules hold the theorems, checked by TLAPS with Z3, Zenon and LS4, each for
every value of the constants that satisfies its module's assumptions. In each, an
inductive invariant `Inv` with `Init => Inv` and `Inv /\ [Next]_vars => Inv'` (one
step for each action) carries the theorems.

### TrafficControl

* `TypeCorrect`: `Spec => []TypeOK`.
* `AdjustmentsKeepClearance`: `Spec => AdjustKeepsClearance`. What carries it:
  while task2 is at its store, the value loaded and the countdown differ by at
  most what one interrupt can have counted, because of `tickSpent`, and the test
  leaves that much room.
* `PhaseStaysInTable`: under `NoRestartWhileAutomatic`, the index stays inside
  the running table.
* `EndsInLastPhase`: under the same condition, `Spec => CycleEndsInLastPhase`. This
  is the property `traffic_cycle_end` refutes without the condition: a restart under
  a live cycle is the only thing that breaks it.
* `Refinement`: under the same condition, `Spec => ImplementsCycle`.
* `NothingHalfLit`: `Spec => NeverLitHalfway`.
* `YellowBeforeChange`: under `AutomaticInTime`, `Spec => GreenThenYellow`.
* `LockLightsRunning`: `Spec => []LockShowsRunning`. That the row is also the chosen
  period's is false with two periods (`TrafficLock.cfg`).

The proof has three parts, because four of the eight need nothing of the operator.

*First part* (theorem `Invariance`, `Spec => []Inv`). `TypeOK` alone is not
inductive: a countdown or an index read from a table is in range only if the
schedule can be run, and an adjusted countdown only if the test before it still
means something at the store. `Inv` adds `WindowInv` (inside a short run of task2
at most one tick is under way, the one `tickSpent` counts), `AdjustInv` (between
test and store the countdown, and then the register, keep the room the test left,
less the one count task1 may have made), `RegInv` (the arguments of a half-done
row or copy are indices in use) and `RunInv` (the stored schedule, both states an
edit passes through, and the running copy have a phase wherever one is used).
`TypeCorrect` and `AdjustmentsKeepClearance` follow.

*Second part* (theorem `Safety`, under `NoRestartWhileAutomatic`). `SafeInv` adds
`ManualInv` (which stage of task2 goes with which dialog, and that manual mode is
on exactly while the phase lock has the cycle), `PhaseInTable` itself, that a
restart has reset the index, and `EditInv`: while an edit writes, task1 is gone,
or cannot end the cycle, or has had the one tick of this run. Lemma
`NoEditAtNewCycle` draws from it that no edit is half done when task1 copies a
table, which is what `Refinement` needs for the step of a new cycle; the
remaining steps are a matched step of `CycleSnapshot` or a stutter (`StepCycle`).

*Third part*: the lamps, each with an invariant of its own.
`NothingHalfLit` needs `ArmedInv` (the half-second interrupt is on its way exactly while
the byte still says one), `WholeInv` (the arrays are half written only between clearing
and filling), `HalfInv` (while they are, but in the restart, the second interrupt is off,
and a tick that is still on its way is a half second) and `MaskInv` (a mask made from
half-written arrays is gone before another could be made, since seconds and half seconds
alternate and a second clears it). It needs nothing of the tables.
`YellowBeforeChange` assumes what the run does: task1 in time (a lost second can be
the yellow one), and an operator who neither tests lamps nor takes the cycle over,
since both put another row on the lamps at once. `TickInv` says which tick is on its
way, `ShownInv` that from a second signal to the next count the lamps show the row at
hand, yellow below three, and `LeftInv` that a row no longer at hand is yellow.
`LockLightsRunning` needs `HeldInv` (from the take-over on manual mode is on, so that
task1, which may run between any two steps of the lock, repeats the phase and touches
neither index nor copy nor arrays) and `PassInv` (what the lock has chosen, cleared and
filled so far).

### LampWords

`OneColour` (`OneColourShown`), `OnlyDarkens` (`HalfOnlyDarkens`), `EndsInYellow`
(`PhaseEndsInYellow`), `TypeCorrect`. The words are those of the row and the wiring
they were computed from (`WordsInv`); between the two signals of a second the lamps
are those of the second signal at the count there is (`ShownInv`), which holds
because an adjusted count stays above six and so on one side of both divisions of
the count; what was shown last is one of the two words (`LastShownInv`); and fresh
words are first shown at a count of six or more (`FreshInv`, `FreshArmedInv`),
hence never for the first time when they are already to be yellow.

### LampBus

`ShowsRows` (`DisplayShowsRows`) and `TypeCorrect`. `DisplayInv` says how far task1
is: the groups behind it show their rows on closed latches, and the bus holds what
the group it is at needs next. Nothing is assumed of the lamp test, which may have
been preempted anywhere and may have left any latches open.

### LampWiring

`StartsRepaired` (`StartRepairs`), `CutSavesKeepLamps` (`CutSaveKeepsLamps`),
`WiringTypeCorrect`, for every number of crossways, lamps and outputs, every factory
wiring and whatever bytes the EEPROM holds at the first start. The loop is numbered lamp
by lamp (`CellOf`, `PosApart`), and what it has made after `n` rounds is given in closed
form (`RepairRound`): a lamp before `n` keeps its output if no lamp before it was given
that output by the EEPROM, and has none otherwise; a lamp from `n` on is as the EEPROM
has it; the record is what the first `n` lamps name. That no output is lost is a
least-number argument: the first lamp to name it keeps it (`FirstExists`). The closed
form is itself a function that satisfies the recursion (`RoundsExist`), and that any
such function is the closed form follows from the least round at which it would not be
(`LeastNumber`), so no induction over an operator is needed.
The inductive invariant of the saves is `CutInv`: each cell of the EEPROM is the older
wiring's or the newer one's, while a save is under way the rows it has passed are the
newer one's, and the dialog, which could change the wiring, is closed meanwhile.

### PeriodEditor

`Selections` (`SelectionsInUse`), `ScanRight` (`ScanFindsPeriod`), `KeepsOthers`
(`AddKeepsOthers`), `KeepsOrder` (`OrderKept`), `TypeCorrect`, for tables of any
length and clocks of any size. `SelInv` keeps the selection of an open dialog inside
the periods in use, which the types of its next key depend on. The scan and the
place of an insertion are recursive functions; what they return is shown by a least
element of the indices for which it could fail, so that no induction over an
operator is needed. The order of times is a total order (`BeforeAsymmetric`,
`BeforeTransitive`, `BeforeTotal`), and an insertion or deletion is a shift whose
old place each new index is told (`Added`, `AddOrder`, `DelOrder`).

### PhaseEditor

All seven hold of any number of periods and whatever additions write past a table.
`TypeCorrect` and `OwnLampsKept` (`OwnOneColour`) come from one invariant, `Shape(W)`:
all tables and the word under edit have their words from a set `W`, which may be any set
that holds all-red and that the two colour keys stay in (`Words`). It is used with all
words, and with the words that give one colour each to `OwnMovements` (`OneEach`), the
movements for which KEY2 tests their own lamps; the latter assumes that the tables
loaded at start-up have such words. `SecondColour` (`SecondColourFromLeft`) goes through
the cases of the two keys (`OneKey`).

`SelectionKept` (`SelectionInUse`), `TimesKept` (`TimesStayInRange`), `AdditionInserts`
(`AddInsertsPhase`) and `DeletionRemoves` (`DeleteRemovesPhase`) add `SelInv`: the selection
of an open dialog is on a phase its period has, if it has one (a write past the table
before it sets its count to zero), and the time under edit is between the limits if the
stored ones are. `add_phase` keeps its selection when the period changes, so its selection
is only one some table could have; an insertion beyond the period's phases is the second
case of `AddInsertsPhase`, and one beyond the table is what `TimesStayInRange` excepts.
What a phase of the new table was before (`Added`, `Closed`) is compared, place by place,
with what `InsertAt`, `Front` and `RemoveAt` of the community modules give.

### Panel

`ListsAgree` (`KernelConsistent`), `ScreenConserved` (`SemConserved`), `OneWaiter`
(`ClockNeverWaits`), `OncePerPress` (`ShortOncePerPress`), `LongNotEarly`
(`LongTakesTime`), `QueueIsChannel` (`ImplementsChannel`), `TypeCorrect`. For
`ClockNeverWaits` and `LongTakesTime` the theorem is the check; the run leaves them out. The
invariant says for each task where it can be and what its TCB then holds:
`KeyTaskInv` (inside a pend, task2 waits, or timed out and is still listed, or was
handed the event and is not), `ClockTaskInv` (task3 waits for nothing but its
resumption), `KeyInv` (a key is in the queue, in task2's TCB or in its hand, and
in one of them only), `ScreenInv` (the semaphore and its holder add up to one).
`HoldInv` relates the keypad's counter to the scans since the last change. The
refinement maps the channel to the queue with the key just handed over, if any;
every kernel call is then a step of `KeyChannel` or a stutter.

### ClockSync

`OneLongMonth` (`OnlyNovemberLong`), `SavedReturns` (`SavedTimeReturns`), `TypeCorrect`.
`ClockNovember.cfg` reaches 31 November; `OneLongMonth` says that no other day outside
the calendar can be reached, by any keys in any range of years.
`OnlyNovemberLong` is part of the invariant, since each key starts from the date
the last one left (`PlusDated`, `MinusDated`). `SavedInv` ties what the menu saved
to what the chip holds, and the last conjunct of `Inv` says that a task that has
the screen finds a whole `Current_Time`.

### TimeClient

`AtMostOneClient` (`OneClient`), `SuccessStays` (`SuccessKept`), `TypeCorrect`, for any
number of served connections and whether or not `tcp_close` may fail. `Kept` says
that once the time has come the client only waits to be closed; each callback keeps
a connection `Good` (lemmas `...Good`), in whatever order lwIP calls them. The list
changes by a replacement, a removal, a move to the head or a new head (`Replaced`,
`Added`), which `OneStep` turns into a statement about the connections; that the
search ends without finding only if there is no client (`NobodyFound`) is what
`AtMostOneClient` needs of it. That the search can
also circle for ever, with two served connections at the head, is `ClientSearch.cfg`'s.

### Only model-checked

Liveness (`EditEnds`, `CycleGoesOn`, `RefreshGoesOn`, `KeyTaken`, `RetryGoesOn`,
`ClientLeaves`): fairness and `ENABLED` are out of the provers' reach. Every safety
property a passing run checks is a theorem.

## 6. Not modelled

* LCD drawing and texts, the tree of menus, the digits of the password (only where
  its screen can be left), the dialog for nightfall, the cursor of the flash dialogs.
* Start-up code and what the kernel does before `OSInit` (`main.c:385` uses it that
  early): undefined by the kernel's own rules.
* task5 (priority 30). task4 (25) polls without ever blocking, so task5 never runs:
  its `OSQPend` on a mailbox (`main.c:316`) and two tasks inside lwIP (`main.c:330`)
  cannot happen.
* Of lwIP: sequence numbers, windows, and exhausted pools: a failed `tcp_connect`,
  which the client does not look at, leaks a connection and a block, and `tcp_alloc`
  may kill a connection to make room for another. Every protocol but TCP.
* Of the kernel: mutexes, flags, memory partitions, statistics, which the
  application does not use; the mailbox is part of `TrafficControl`.
* The Ethernet driver: the register banks the interrupt and task4 share
  (`stm32f10x_it.c:181`) and the copy into a chain of buffers with its one-byte
  offset (`ethernetif.c:218`).
* The bit timing of the EEPROM and of the clock chip, and the acknowledge loops
  without a limit (`at24c64_op.c:138`): a write ends, or the supply fails.
* The vendored library, CMSIS and the sources outside the project file. They and
  the unused parts of lwIP are most of the lines of the repository; the modules
  take their behaviour from how the application uses them.

## 7. What could come next

1. `Ethernet`: the bank cache against the interrupt, the copy into a chain of
   buffers, the receive buffer's pointer at its wrap.
2. Exhausted pools in `TimeClient`: a failed connect, a killed connection.
3. The mailbox over `Kernel`, so that `TrafficControl`'s own mailbox becomes a
   refinement of the kernel's calls, as the key queue already is.

------------------------------- MODULE Panel -------------------------------
(***************************************************************************)
(* The two tasks that use the screen, over the kernel's services: task2    *)
(* takes keys from the queue and runs the menu on each, task3 is resumed   *)
(* every second to read the clock and draw it.  A semaphore keeps them     *)
(* apart; both wait for it with a timeout and try again after a delay.     *)
(*                                                                         *)
(* The interrupts come between any two services: the tick, the keypad scan *)
(* that posts what it found and the second that resumes task3.             *)
(***************************************************************************)
EXTENDS Kernel, Keypad

CONSTANTS
    KeyTimeout, ScreenTimeout, Retry    \* ticks: 100; 100 and 200; 20 and 40

task2 == 10                             \* main.c:397-398
task3 == 20

VARIABLES
    pc,             \* where each task is
    key_ptr         \* the key task2 has taken

vars == <<ready, tcb, sem, queue, pc, key_ptr, Cont, CKey, press_cycle, still>>

ASSUME PanelAssumption ==
    /\ Tasks = {task2, task3}
    /\ Messages = Codes /\ NoMessage = Nothing
    /\ KeyTimeout \in 1 .. MaxDelay
    /\ ScreenTimeout \in [Tasks -> 1 .. MaxDelay]
    /\ Retry \in [Tasks -> 1 .. MaxDelay]

Points == {"pend", "pended",            \* before and inside OSQPend
           "screen", "waited",          \* before and inside OSSemPend
           "again",                     \* before OSTimeDly
           "use",                       \* between OSSemPend and OSSemPost
           "suspend"}                   \* before OSTaskSuspend

TypeOK ==
    /\ KernelTypeOK /\ KeypadTypeOK
    /\ pc \in [Tasks -> Points]
    /\ key_ptr \in Messages \cup {NoMessage}

Init ==
    /\ KernelInit /\ KeypadInit
    /\ pc = [t \in Tasks |-> IF t = task2 THEN "pend" ELSE "screen"]
    /\ key_ptr = NoMessage

At(t, p)    == Runs(t) /\ pc[t] = p
Goto(t, p)  == pc' = [pc EXCEPT ![t] = p]

-----------------------------------------------------------------------------
(* Both tasks: while(1){ OSSemPend(sem_screen, ..); if(err) OSTimeDly(..);   *)
(* else break; }                                                             *)

PendScreen(t) ==
    /\ At(t, "screen") /\ UNCHANGED key_ptr
    /\ \/ OSSemTake(t) /\ Goto(t, "use")
       \/ OSSemBlock(t, ScreenTimeout[t]) /\ Goto(t, "waited")

\* Mutant: the error is not looked at.
IgnoresError(t) ==
    /\ At(t, "waited") /\ UNCHANGED key_ptr
    /\ OSSemReturn(t) /\ Goto(t, "use")

ScreenWaited(t) ==
    /\ At(t, "waited") /\ UNCHANGED key_ptr
    /\ OSSemReturn(t)
    /\ Goto(t, IF TimedOut(t) THEN "again" ELSE "use")

Delay(t) ==
    /\ At(t, "again") /\ UNCHANGED key_ptr
    /\ OSTimeDly(t, Retry[t]) /\ Goto(t, "screen")

-----------------------------------------------------------------------------
(* task2_key_control_screen *)

PendKey ==
    /\ At(task2, "pend")
    /\ \/ OSQTake(task2) /\ key_ptr' = Head(queue.entries) /\ Goto(task2, "screen")
       \/ OSQBlock(task2, KeyTimeout) /\ Goto(task2, "pended") /\ UNCHANGED key_ptr

KeyWaited ==
    /\ At(task2, "pended")
    /\ OSQReturn(task2)
    /\ key_ptr' = tcb[task2].msg
    /\ Goto(task2, IF TimedOut(task2) THEN "pend" ELSE "screen")

\* Current_Menu->cur_funptr(*key_ptr), however long it takes.
MenuDone ==
    /\ At(task2, "use")
    /\ OSSemPost /\ Goto(task2, "pend") /\ key_ptr' = NoMessage

Task2Step == /\ \/ PendKey \/ KeyWaited \/ MenuDone
                \/ PendScreen(task2) \/ ScreenWaited(task2) \/ Delay(task2)
             /\ UNCHANGED keypad

-----------------------------------------------------------------------------
(* task3_refresh_time_screen *)

\* Current_Time = ..; LCD_UpdateInfo()
Refreshed ==
    /\ At(task3, "use")
    /\ OSSemPost /\ Goto(task3, "suspend") /\ UNCHANGED key_ptr

SuspendSelf ==
    /\ At(task3, "suspend")
    /\ OSTaskSuspend(task3) /\ Goto(task3, "screen") /\ UNCHANGED key_ptr

Task3Step == /\ \/ Refreshed \/ SuspendSelf
                \/ PendScreen(task3) \/ ScreenWaited(task3) \/ Delay(task3)
             /\ UNCHANGED keypad

-----------------------------------------------------------------------------
(* Interrupts *)

SysTick == OSTimeTick /\ UNCHANGED <<pc, key_ptr, keypad>>

\* Whatever the operator holds down at the scan.
TIM6_IRQHandler ==
    /\ \E now \in SUBSET KeySet : Scan(now)
    /\ IF CKey' # Nothing THEN OSQPost(CKey') ELSE UNCHANGED kernel
    /\ UNCHANGED <<pc, key_ptr>>

\* Mutant: the second wakes nobody.
SecondPasses == UNCHANGED vars

\* RTC_IRQHandler
Second == OSTaskResume(task3) /\ UNCHANGED <<pc, key_ptr, keypad>>

Next == Task2Step \/ Task3Step \/ SysTick \/ TIM6_IRQHandler \/ Second

Spec == Init /\ [][Next]_vars

\* The processor goes on; when task2 sleeps again and again, task3 goes on too;
\* menu functions return; ticks and seconds keep coming.
Fairness ==
    /\ WF_vars(Task2Step) /\ SF_vars(Task3Step)
    /\ WF_vars(SysTick) /\ WF_vars(Second)

FairSpec == Spec /\ Fairness

-----------------------------------------------------------------------------
(* Properties *)

\* The kernel's lists and the tasks agree (os_core.c:901, 985, 1057): a task is
\* ready exactly if it waits for nothing, a task that waits is in the event's
\* list and has a timeout running, and the queue holds no key while its reader
\* waits.  A timeout leaves the list later than it ends the wait, so a listed
\* task that no longer waits is one that timed out and has not run since.
KernelConsistent ==
    /\ \A t \in Tasks : t \in ready <=> tcb[t].stat = {} /\ tcb[t].dly = 0
    /\ \A t \in Tasks : "sem" \in tcb[t].stat => t \in sem.wait /\ tcb[t].dly > 0
    /\ \A t \in Tasks : "q" \in tcb[t].stat => t \in queue.wait /\ tcb[t].dly > 0
    /\ \A t \in sem.wait : pc[t] = "waited" /\ ("sem" \in tcb[t].stat \/ TimedOut(t))
    /\ \A t \in queue.wait : pc[t] = "pended" /\ ("q" \in tcb[t].stat \/ TimedOut(t))
    /\ queue.wait # {} => queue.entries = <<>>
    /\ sem.wait # {} => sem.cnt = 0

\* A task has the screen, or was handed the semaphore and has not run since:
\* perhaps after its wait had already timed out.
HasScreen(t) ==
    \/ pc[t] = "use"
    \/ pc[t] = "waited" /\ t \notin sem.wait

\* The screen's semaphore is neither lost nor doubled, whichever way timeouts,
\* posts and new attempts fall (main.c:245-267 and 276-299).
SemConserved == sem.cnt + Cardinality({t \in Tasks : HasScreen(t)}) = 1

\* What the queue holds, a key handed over to task2 and not yet seen included.
HandedOver == pc[task2] = "pended" /\ task2 \notin queue.wait
Channel == INSTANCE KeyChannel WITH
    Keys <- Messages, NoKey <- NoMessage, Capacity <- QueueSize + 1,
    channel <- (IF HandedOver THEN <<tcb[task2].msg>> ELSE <<>>) \o queue.entries,
    inHand  <- key_ptr

\* Every key the queue accepts reaches the menu once and in order, also when it
\* is posted to a task2 that has timed out and not run since (main.c:224-243).
ImplementsChannel == Channel!ChannelSpec

\* Only task2 ever waits for the screen (main.c:245, 277): when task3 runs, a
\* task2 of higher priority sleeps, and it never sleeps with the screen taken.
ClockNeverWaits == pc[task3] \notin {"waited", "again"}

\* As long as the keys leave task2 time to sleep, the clock on the screen keeps
\* being drawn, although a second that comes between main.c:299 and 301 is lost.
RefreshGoesOn == []<>(task2 \notin ready) => []<>(pc[task3] = "suspend")

\* A key in the queue gets to its menu while the keypad goes on posting, unless
\* task2 runs into the screen's timeout again and again (main.c:224-266).
KeyTaken ==
    []<>(pc[task2] = "again") \/ (queue.entries # <<>> ~> pc[task2] = "use")
=============================================================================

---------------------------- MODULE Panel_proofs ----------------------------
(***************************************************************************)
(* Proofs about Panel and the kernel calls, keypad scan and queue it is    *)
(* made of: for every queue size, every timeout and every set of keys.     *)
(***************************************************************************)
EXTENDS Panel, FiniteSetTheorems, SequenceTheorems, TLAPS

-----------------------------------------------------------------------------
(* The inductive invariant *)

Free(t) == tcb[t].stat = {} /\ tcb[t].dly = 0

\* A task inside a pend: it waits, or timed out, or was handed the event; only
\* then is it off the event's list.
InPend(t, wait, list) ==
    \/ tcb[t].stat = {wait} /\ tcb[t].dly > 0 /\ tcb[t].pend = "ok" /\ t \in list
    \/ Free(t) /\ tcb[t].pend = "to" /\ t \in list
    \/ Free(t) /\ tcb[t].pend = "ok" /\ t \notin list

\* Where task2 can be, and what its TCB then says.
KeyTaskInv ==
    /\ task2 \in ready <=> Free(task2)
    /\ pc[task2] # "suspend"
    /\ pc[task2] \in {"pend", "again", "use"} => Free(task2)
    /\ pc[task2] = "screen" => tcb[task2].stat = {}
    /\ pc[task2] = "waited" => InPend(task2, "sem", sem.wait)
    /\ pc[task2] = "pended" => InPend(task2, "q", queue.wait)
    /\ task2 \in sem.wait => pc[task2] = "waited"
    /\ task2 \in queue.wait => pc[task2] = "pended"

\* Where task3 can be: it waits for nothing but its resumption.
ClockTaskInv ==
    /\ task3 \in ready <=> tcb[task3].stat = {}
    /\ tcb[task3].stat \subseteq {"suspend"} /\ tcb[task3].dly = 0
    /\ pc[task3] \in {"screen", "use", "suspend"}
    /\ pc[task3] # "screen" => tcb[task3].stat = {}
    /\ task3 \notin sem.wait /\ task3 \notin queue.wait

\* Where a key can be.
KeyInv ==
    /\ pc[task2] \in {"pend", "pended"} => key_ptr = NoMessage
    /\ pc[task2] \notin {"pend", "pended"} => key_ptr \in Messages
    /\ HandedOver <=> tcb[task2].msg # NoMessage
    /\ queue.wait # {} => queue.entries = <<>>

\* Who has the screen.
ScreenInv ==
    /\ sem.cnt \in 0 .. 1
    /\ sem.cnt = 1 <=> ~HasScreen(task2) /\ ~HasScreen(task3)
    /\ ~(HasScreen(task2) /\ HasScreen(task3))
    /\ sem.wait # {} => sem.cnt = 0

Inv == TypeOK /\ KeyTaskInv /\ ClockTaskInv /\ KeyInv /\ ScreenInv

-----------------------------------------------------------------------------
(* Two tasks *)

LEMMA TwoTasks ==
    /\ Tasks = {task2, task3} /\ task2 = 10 /\ task3 = 20
    /\ task2 \in Tasks /\ task3 \in Tasks /\ task2 # task3
BY PanelAssumption DEF task2, task3

LEMMA KeysAreCodes == Messages = Codes /\ NoMessage = Nothing /\ NoMessage \notin Messages
BY PanelAssumption, KernelAssumption

LEMMA MinOne == ASSUME NEW t \in Int PROVE Min({t}) = t
BY DEF Min

\* task3 runs only while task2 does not.
LEMMA Preempted == ASSUME Inv, Runs(task3) PROVE task2 \notin ready
BY TwoTasks DEF Runs

LEMMA TCBType ==
    ASSUME TypeOK, NEW t \in Tasks
    PROVE  /\ tcb[t].stat \in SUBSET {"sem", "q", "suspend"}
           /\ tcb[t].pend \in {"ok", "to"} /\ tcb[t].dly \in 0 .. MaxDelay
           /\ tcb[t].msg \in Messages \cup {NoMessage}
           /\ tcb[t] \in TCB
BY DEF TypeOK, KernelTypeOK, TCB, Waits

\* The queue's reader and the semaphore's waiter can only be task2.
LEMMA OnlyTask2Waits ==
    ASSUME Inv PROVE sem.wait \subseteq {task2} /\ queue.wait \subseteq {task2}
BY TwoTasks DEF Inv, TypeOK, KernelTypeOK, ClockTaskInv

LEMMA InitInv == Init => Inv
<1> SUFFICES ASSUME Init PROVE Inv
  OBVIOUS
<1> USE TwoTasks, KeysAreCodes DEF Init, KernelInit, KeypadInit
<1>1. tcb[task2] = FreshTCB /\ tcb[task3] = FreshTCB /\ pc[task2] = "pend" /\ pc[task3] = "screen"
  OBVIOUS
<1>2. KernelTypeOK
  <2>1. FreshTCB \in TCB
    BY KernelAssumption DEF FreshTCB, TCB
  <2>2. sem \in [cnt : Nat, wait : SUBSET Tasks] /\ ready \in SUBSET Tasks
    OBVIOUS
  <2>3. queue \in [entries : Seq(Messages), wait : SUBSET Tasks] /\ Len(queue.entries) <= QueueSize
    BY KernelAssumption, EmptySeq
  <2> QED
    BY <2>1, <2>2, <2>3 DEF KernelTypeOK
<1>3. KeypadTypeOK
  BY KeypadAssumption DEF KeypadTypeOK
<1>4. TypeOK
  BY <1>2, <1>3 DEF TypeOK, Points
<1>5. KeyTaskInv /\ ClockTaskInv
  BY <1>1 DEF KeyTaskInv, ClockTaskInv, Free, FreshTCB
<1>6. KeyInv /\ ScreenInv
  BY <1>1 DEF KeyInv, ScreenInv, HandedOver, HasScreen, FreshTCB
<1> QED
  BY <1>4, <1>5, <1>6 DEF Inv

-----------------------------------------------------------------------------
(* The kernel calls *)

LEMMA EventType ==
    ASSUME TypeOK
    PROVE  /\ sem.cnt \in Nat /\ sem.wait \in SUBSET Tasks
           /\ queue.entries \in Seq(Messages) /\ queue.wait \in SUBSET Tasks
           /\ Len(queue.entries) <= QueueSize /\ ready \in SUBSET Tasks
           /\ tcb \in [Tasks -> TCB]
BY DEF TypeOK, KernelTypeOK

\* A post to the semaphore: to task2 if it is listed, else to the count.
LEMMA SemPosted ==
    ASSUME Inv, OSSemPost
    PROVE  /\ queue' = queue
           /\ \/ /\ sem.wait = {task2} /\ sem' = [cnt |-> sem.cnt, wait |-> {}]
                 /\ tcb' = [tcb EXCEPT ![task2] = Handed(@, "sem", NoMessage)]
                 /\ ready' = ready \cup {task2}
              \/ /\ sem.wait = {} /\ sem' = [cnt |-> sem.cnt + 1, wait |-> {}]
                 /\ tcb' = tcb /\ ready' = ready
<1>1. sem \in [cnt : Nat, wait : SUBSET Tasks]
  BY DEF Inv, TypeOK, KernelTypeOK
<1>2. CASE sem.wait = {}
  <2>1. sem' = [sem EXCEPT !.cnt = @ + 1] /\ UNCHANGED <<ready, tcb, queue>>
    BY <1>2 DEF OSSemPost
  <2> QED
    BY <1>1, <1>2, <2>1
<1>3. CASE sem.wait # {}
  <2>1. sem.wait = {task2} /\ Min(sem.wait) = task2
    BY <1>3, OnlyTask2Waits, TwoTasks, MinOne
  <2>2. /\ OS_EventTaskRdy(sem.wait, "sem", NoMessage)
        /\ sem' = [sem EXCEPT !.wait = @ \ {Min(sem.wait)}] /\ queue' = queue
    BY <1>3 DEF OSSemPost
  <2>3. sem' = [cnt |-> sem.cnt, wait |-> {}]
    BY <1>1, <2>1, <2>2
  <2>4. "suspend" \notin tcb[task2].stat
    <3>1. pc[task2] = "waited"
      BY <2>1 DEF Inv, KeyTaskInv
    <3> QED
      BY <3>1 DEF Inv, KeyTaskInv, InPend, Free
  <2>5. /\ tcb' = [tcb EXCEPT ![task2] = Handed(@, "sem", NoMessage)]
        /\ ready' = ready \cup {task2}
    BY <2>1, <2>2, <2>4 DEF OS_EventTaskRdy
  <2> QED
    BY <2>1, <2>2, <2>3, <2>5
<1> QED
  BY <1>2, <1>3

\* A post to the queue: to task2 if it is listed, else to a slot if one is free.
LEMMA KeyPosted ==
    ASSUME Inv, NEW m \in Messages, OSQPost(m)
    PROVE  /\ sem' = sem
           /\ \/ /\ queue.wait = {task2} /\ queue' = [entries |-> queue.entries, wait |-> {}]
                 /\ tcb' = [tcb EXCEPT ![task2] = Handed(@, "q", m)]
                 /\ ready' = ready \cup {task2}
              \/ /\ queue.wait = {} /\ tcb' = tcb /\ ready' = ready
                 /\ queue' = [entries |-> IF Len(queue.entries) < QueueSize
                                          THEN Append(queue.entries, m) ELSE queue.entries,
                              wait |-> {}]
<1>1. queue \in [entries : Seq(Messages), wait : SUBSET Tasks]
  BY DEF Inv, TypeOK, KernelTypeOK
<1>2. CASE queue.wait = {}
  <2>1. /\ queue' = [queue EXCEPT !.entries =
                       IF Len(@) < QueueSize THEN Append(@, m) ELSE @]
        /\ UNCHANGED <<ready, tcb, sem>>
    BY <1>2 DEF OSQPost
  <2>2. queue' = [entries |-> IF Len(queue.entries) < QueueSize
                              THEN Append(queue.entries, m) ELSE queue.entries,
                  wait |-> {}]
    BY <1>1, <1>2, <2>1, Zenon
  <2> QED
    BY <1>2, <2>1, <2>2
<1>3. CASE queue.wait # {}
  <2>1. queue.wait = {task2} /\ Min(queue.wait) = task2
    BY <1>3, OnlyTask2Waits, TwoTasks, MinOne
  <2>2. /\ OS_EventTaskRdy(queue.wait, "q", m)
        /\ queue' = [queue EXCEPT !.wait = @ \ {Min(@)}] /\ sem' = sem
    BY <1>3 DEF OSQPost
  <2>3. queue' = [entries |-> queue.entries, wait |-> {}]
    BY <1>1, <2>1, <2>2
  <2>4. "suspend" \notin tcb[task2].stat
    <3>1. pc[task2] = "pended"
      BY <2>1 DEF Inv, KeyTaskInv
    <3> QED
      BY <3>1 DEF Inv, KeyTaskInv, InPend, Free
  <2>5. /\ tcb' = [tcb EXCEPT ![task2] = Handed(@, "q", m)]
        /\ ready' = ready \cup {task2}
    BY <2>1, <2>2, <2>4 DEF OS_EventTaskRdy
  <2> QED
    BY <2>1, <2>2, <2>3, <2>5
<1> QED
  BY <1>2, <1>3

\* The TCBs after a write to one of them.
LEMMA TCBWritten ==
    ASSUME TypeOK, NEW t \in Tasks, NEW b \in TCB, tcb' = [tcb EXCEPT ![t] = b]
    PROVE  /\ tcb' \in [Tasks -> TCB] /\ tcb'[t] = b
           /\ \A o \in Tasks : o # t => tcb'[o] = tcb[o]
BY EventType

LEMMA HandedType ==
    ASSUME TypeOK, NEW t \in Tasks, NEW wait, NEW m \in Messages \cup {NoMessage}
    PROVE  /\ Handed(tcb[t], wait, m) \in TCB
           /\ Handed(tcb[t], wait, m).stat = tcb[t].stat \ {wait}
           /\ Handed(tcb[t], wait, m).pend = "ok"
           /\ Handed(tcb[t], wait, m).dly = 0
           /\ Handed(tcb[t], wait, m).msg = m
BY TCBType, KernelAssumption DEF Handed, TCB, Waits

LEMMA FreshType ==
    /\ FreshTCB \in TCB /\ FreshTCB.stat = {} /\ FreshTCB.dly = 0
    /\ FreshTCB.pend = "ok" /\ FreshTCB.msg = NoMessage
BY KernelAssumption DEF FreshTCB, TCB

LEMMA PcWritten ==
    ASSUME TypeOK, NEW t \in Tasks, NEW p \in Points, Goto(t, p)
    PROVE  /\ pc' \in [Tasks -> Points] /\ pc'[t] = p
           /\ \A o \in Tasks : o # t => pc'[o] = pc[o]
BY DEF TypeOK, Goto

-----------------------------------------------------------------------------
(* The steps *)

\* A step that writes one TCB, moves one task and leaves the keypad alone.
LEMMA PendScreenInv ==
    ASSUME Inv, NEW t \in Tasks, PendScreen(t), UNCHANGED keypad
    PROVE  Inv'
<1> USE TwoTasks
<1>0. TypeOK /\ At(t, "screen") /\ pc[t] = "screen" /\ t \in ready /\ key_ptr' = key_ptr
  BY DEF Inv, PendScreen, At, Runs
<1>1. CASE OSSemTake(t) /\ Goto(t, "use")
  <2>1. /\ sem.cnt > 0 /\ sem' = [sem EXCEPT !.cnt = @ - 1]
        /\ ready' = ready /\ tcb' = tcb /\ queue' = queue
    BY <1>1 DEF OSSemTake, SemFree
  <2>2. sem.cnt = 1 /\ sem' = [cnt |-> 0, wait |-> sem.wait] /\ sem.wait = {}
    BY <2>1, <1>0, EventType DEF Inv, ScreenInv, TypeOK, KernelTypeOK
  <2>3. /\ pc' \in [Tasks -> Points] /\ pc'[t] = "use"
        /\ \A o \in Tasks : o # t => pc'[o] = pc[o]
    BY <1>0, <1>1, PcWritten DEF Points
  <2>4. TypeOK'
    BY <1>0, <2>1, <2>2, <2>3, EventType DEF TypeOK, KernelTypeOK, KeypadTypeOK, keypad
  <2>5. KeyTaskInv' /\ ClockTaskInv'
    BY <1>0, <2>1, <2>2, <2>3 DEF Inv, KeyTaskInv, ClockTaskInv, InPend, Free
  <2>6. KeyInv'
    BY <1>0, <2>1, <2>2, <2>3 DEF Inv, KeyInv, HandedOver
  <2>7. ScreenInv'
    BY <1>0, <2>1, <2>2, <2>3 DEF Inv, ScreenInv, HasScreen
  <2> QED
    BY <2>4, <2>5, <2>6, <2>7 DEF Inv
<1>2. CASE OSSemBlock(t, ScreenTimeout[t]) /\ Goto(t, "waited")
  <2>1. /\ ~(sem.cnt > 0) /\ sem' = [sem EXCEPT !.wait = @ \cup {t}]
        /\ Block(t, "sem", ScreenTimeout[t]) /\ queue' = queue
    BY <1>2 DEF OSSemBlock, SemFree
  <2>2. sem.cnt = 0 /\ sem' = [cnt |-> 0, wait |-> sem.wait \cup {t}]
    <3>1. sem.cnt = 0
      BY <2>1 DEF Inv, ScreenInv
    <3>2. sem \in [cnt : Nat, wait : SUBSET Tasks]
      BY <1>0 DEF TypeOK, KernelTypeOK
    <3> QED
      BY <2>1, <3>1, <3>2
  <2>3. t = task2
    <3>1. SUFFICES ASSUME t = task3 PROVE FALSE
      OBVIOUS
    <3>2. task2 \notin ready
      BY <1>0, <3>1, Preempted DEF At
    <3>3. ~HasScreen(task3)
      BY <1>0, <3>1 DEF HasScreen
    <3>4. HasScreen(task2)
      BY <2>2, <3>3 DEF Inv, ScreenInv
    <3>5. pc[task2] = "use" \/ (pc[task2] = "waited" /\ task2 \notin sem.wait)
      BY <3>4 DEF HasScreen
    <3> QED
      BY <3>2, <3>5 DEF Inv, KeyTaskInv, InPend
  <2> DEFINE b == [stat |-> tcb[task2].stat \cup {"sem"}, pend |-> "ok",
                  dly |-> ScreenTimeout[task2], msg |-> tcb[task2].msg]
  <2>4. tcb[task2].msg \in Messages \cup {NoMessage} /\ tcb[task2].stat = {}
    BY <1>0, <2>3, TCBType DEF Inv, KeyTaskInv
  <2>5. ScreenTimeout[task2] \in 1 .. MaxDelay
    BY PanelAssumption
  <2>6. /\ b \in TCB /\ b.stat = {"sem"} /\ b.pend = "ok" /\ b.dly > 0 /\ b.msg = tcb[task2].msg
    BY <2>4, <2>5, KernelAssumption DEF TCB, Waits
  <2>7. tcb' = [tcb EXCEPT ![task2] = b] /\ ready' = ready \ {task2}
    BY <2>1, <2>3 DEF Block
  <2> HIDE DEF b
  <2>8. tcb' \in [Tasks -> TCB] /\ tcb'[task2] = b /\ tcb'[task3] = tcb[task3]
    BY <1>0, <2>6, <2>7, TCBWritten
  <2>9. pc' \in [Tasks -> Points] /\ pc'[task2] = "waited" /\ pc'[task3] = pc[task3]
    BY <1>0, <1>2, <2>3, PcWritten DEF Points
  <2>10. TypeOK'
    BY <1>0, <2>1, <2>2, <2>7, <2>8, <2>9, EventType DEF TypeOK, KernelTypeOK, KeypadTypeOK, keypad
  <2>11. KeyTaskInv' /\ ClockTaskInv'
    BY <1>0, <2>1, <2>2, <2>3, <2>6, <2>7, <2>8, <2>9 DEF Inv, KeyTaskInv, ClockTaskInv, InPend, Free
  <2>12. KeyInv'
    BY <1>0, <2>1, <2>3, <2>6, <2>8, <2>9 DEF Inv, KeyInv, HandedOver
  <2>13. ScreenInv'
    BY <1>0, <2>2, <2>3, <2>9 DEF Inv, ScreenInv, HasScreen
  <2> QED
    BY <2>10, <2>11, <2>12, <2>13 DEF Inv
<1> QED
  BY <1>1, <1>2 DEF PendScreen

\* task3 never waits, so these two are task2's.
LEMMA NeverWaits ==
    ASSUME Inv PROVE pc[task3] \notin {"waited", "again", "pend", "pended"}
BY DEF Inv, ClockTaskInv

LEMMA ScreenWaitedInv ==
    ASSUME Inv, ScreenWaited(task2), UNCHANGED keypad
    PROVE  Inv'
<1> USE TwoTasks
<1>0. /\ TypeOK /\ pc[task2] = "waited" /\ task2 \in ready /\ key_ptr' = key_ptr
      /\ OSSemReturn(task2) /\ Goto(task2, IF TimedOut(task2) THEN "again" ELSE "use")
  BY DEF Inv, ScreenWaited, At, Runs
<1>1. /\ tcb' = [tcb EXCEPT ![task2] = FreshTCB] /\ ready' = ready /\ queue' = queue
      /\ sem' = LeaveList(task2, sem)
  BY <1>0 DEF OSSemReturn, Awake
<1>2. tcb' \in [Tasks -> TCB] /\ tcb'[task2] = FreshTCB /\ tcb'[task3] = tcb[task3]
  BY <1>0, <1>1, FreshType, TCBWritten
<1>3. Free(task2) /\ InPend(task2, "sem", sem.wait)
  BY <1>0 DEF Inv, KeyTaskInv
<1>4. CASE tcb[task2].pend = "to"
  <2>1. task2 \in sem.wait /\ sem' = [sem EXCEPT !.wait = @ \ {task2}]
    BY <1>1, <1>3, <1>4 DEF InPend, LeaveList, TimedOut
  <2>2. sem' = [cnt |-> sem.cnt, wait |-> {}] /\ sem.cnt = 0
    BY <1>0, <2>1, OnlyTask2Waits DEF Inv, ScreenInv, TypeOK, KernelTypeOK
  <2>3. pc' \in [Tasks -> Points] /\ pc'[task2] = "again" /\ pc'[task3] = pc[task3]
    BY <1>0, <1>4, PcWritten DEF Points, TimedOut
  <2>4. TypeOK'
    BY <1>0, <1>1, <1>2, <2>2, <2>3, EventType DEF TypeOK, KernelTypeOK, KeypadTypeOK, keypad
  <2>5. KeyTaskInv' /\ ClockTaskInv'
    BY <1>0, <1>1, <1>2, <1>3, <2>2, <2>3, FreshType DEF Inv, KeyTaskInv, ClockTaskInv, InPend, Free
  <2>6. KeyInv'
    BY <1>0, <1>1, <1>2, <2>3, FreshType DEF Inv, KeyInv, HandedOver
  <2>7. ScreenInv'
    BY <1>0, <2>1, <2>2, <2>3 DEF Inv, ScreenInv, HasScreen
  <2> QED
    BY <2>4, <2>5, <2>6, <2>7 DEF Inv
<1>5. CASE tcb[task2].pend # "to"
  <2>1. task2 \notin sem.wait /\ sem' = sem
    BY <1>1, <1>3, <1>5 DEF InPend, LeaveList, TimedOut, Free
  <2>3. pc' \in [Tasks -> Points] /\ pc'[task2] = "use" /\ pc'[task3] = pc[task3]
    BY <1>0, <1>5, PcWritten DEF Points, TimedOut
  <2>4. TypeOK'
    BY <1>0, <1>1, <1>2, <2>1, <2>3, EventType DEF TypeOK, KernelTypeOK, KeypadTypeOK, keypad
  <2>5. KeyTaskInv' /\ ClockTaskInv'
    BY <1>0, <1>1, <1>2, <1>3, <2>1, <2>3, FreshType DEF Inv, KeyTaskInv, ClockTaskInv, InPend, Free
  <2>6. KeyInv'
    BY <1>0, <1>1, <1>2, <2>3, FreshType DEF Inv, KeyInv, HandedOver
  <2>7. ScreenInv'
    BY <1>0, <2>1, <2>3 DEF Inv, ScreenInv, HasScreen
  <2> QED
    BY <2>4, <2>5, <2>6, <2>7 DEF Inv
<1> QED
  BY <1>4, <1>5

LEMMA DelayInv ==
    ASSUME Inv, Delay(task2), UNCHANGED keypad
    PROVE  Inv'
<1> USE TwoTasks
<1>0. /\ TypeOK /\ pc[task2] = "again" /\ task2 \in ready /\ key_ptr' = key_ptr
      /\ OSTimeDly(task2, Retry[task2]) /\ Goto(task2, "screen")
  BY DEF Inv, Delay, At, Runs
<1> DEFINE b == [tcb[task2] EXCEPT !.dly = Retry[task2]]
<1>1. Retry[task2] \in 1 .. MaxDelay
  BY PanelAssumption
<1>2. b \in TCB /\ b.stat = {} /\ b.dly > 0 /\ b.msg = tcb[task2].msg
  BY <1>0, <1>1, TCBType, KernelAssumption DEF TCB, Inv, KeyTaskInv, Free
<1>3. tcb' = [tcb EXCEPT ![task2] = b] /\ ready' = ready \ {task2} /\ sem' = sem /\ queue' = queue
  BY <1>0, EventType DEF OSTimeDly
<1> HIDE DEF b
<1>4. tcb' \in [Tasks -> TCB] /\ tcb'[task2] = b /\ tcb'[task3] = tcb[task3]
  BY <1>0, <1>2, <1>3, TCBWritten
<1>5. pc' \in [Tasks -> Points] /\ pc'[task2] = "screen" /\ pc'[task3] = pc[task3]
  BY <1>0, PcWritten DEF Points
<1>6. TypeOK'
  BY <1>0, <1>3, <1>4, <1>5, EventType DEF TypeOK, KernelTypeOK, KeypadTypeOK, keypad
<1>7. KeyTaskInv' /\ ClockTaskInv'
  BY <1>0, <1>2, <1>3, <1>4, <1>5 DEF Inv, KeyTaskInv, ClockTaskInv, InPend, Free
<1>8. KeyInv'
  BY <1>0, <1>2, <1>3, <1>4, <1>5 DEF Inv, KeyInv, HandedOver
<1>9. ScreenInv'
  BY <1>0, <1>3, <1>5 DEF Inv, ScreenInv, HasScreen
<1> QED
  BY <1>6, <1>7, <1>8, <1>9 DEF Inv

LEMMA PendKeyInv ==
    ASSUME Inv, PendKey, UNCHANGED keypad
    PROVE  Inv'
<1> USE TwoTasks
<1>0. /\ TypeOK /\ pc[task2] = "pend" /\ task2 \in ready /\ Free(task2)
      /\ key_ptr = NoMessage /\ task2 \notin queue.wait /\ task2 \notin sem.wait
  BY DEF Inv, PendKey, At, Runs, KeyTaskInv, KeyInv
<1>1. CASE OSQTake(task2) /\ key_ptr' = Head(queue.entries) /\ Goto(task2, "screen")
  <2>1. /\ queue.entries # <<>> /\ queue' = [queue EXCEPT !.entries = Tail(@)]
        /\ ready' = ready /\ tcb' = tcb /\ sem' = sem
    BY <1>1 DEF OSQTake
  <2>2. /\ Head(queue.entries) \in Messages /\ Tail(queue.entries) \in Seq(Messages)
        /\ Len(Tail(queue.entries)) <= QueueSize
    BY <1>0, <2>1, EventType, HeadTailProperties, LenProperties, KernelAssumption
  <2>3. queue' = [entries |-> Tail(queue.entries), wait |-> queue.wait] /\ queue.wait = {}
    BY <1>0, <2>1 DEF Inv, TypeOK, KernelTypeOK, KeyInv
  <2>4. /\ pc' \in [Tasks -> Points] /\ pc'[task2] = "screen" /\ pc'[task3] = pc[task3]
    BY <1>0, <1>1, PcWritten DEF Points
  <2>5. TypeOK'
    BY <1>0, <1>1, <2>1, <2>2, <2>3, <2>4, EventType DEF TypeOK, KernelTypeOK, KeypadTypeOK, keypad
  <2>6. KeyTaskInv' /\ ClockTaskInv'
    BY <1>0, <2>1, <2>3, <2>4 DEF Inv, KeyTaskInv, ClockTaskInv, InPend, Free
  <2>7. KeyInv'
    BY <1>0, <1>1, <2>1, <2>2, <2>3, <2>4 DEF Inv, KeyInv, HandedOver
  <2>8. ScreenInv'
    BY <1>0, <2>1, <2>4 DEF Inv, ScreenInv, HasScreen
  <2> QED
    BY <2>5, <2>6, <2>7, <2>8 DEF Inv
<1>2. CASE OSQBlock(task2, KeyTimeout) /\ Goto(task2, "pended") /\ key_ptr' = key_ptr
  <2>1. /\ queue.entries = <<>> /\ queue' = [queue EXCEPT !.wait = @ \cup {task2}]
        /\ Block(task2, "q", KeyTimeout) /\ sem' = sem
    BY <1>2 DEF OSQBlock
  <2>2. queue' = [entries |-> queue.entries, wait |-> queue.wait \cup {task2}]
    BY <1>0, <2>1 DEF TypeOK, KernelTypeOK
  <2> DEFINE b == [stat |-> tcb[task2].stat \cup {"q"}, pend |-> "ok",
                  dly |-> KeyTimeout, msg |-> tcb[task2].msg]
  <2>3. tcb[task2].msg \in Messages \cup {NoMessage} /\ tcb[task2].stat = {}
    BY <1>0, TCBType DEF Free
  <2>4. KeyTimeout \in 1 .. MaxDelay
    BY PanelAssumption
  <2>5. /\ b \in TCB /\ b.stat = {"q"} /\ b.pend = "ok" /\ b.dly > 0 /\ b.msg = tcb[task2].msg
    BY <2>3, <2>4, KernelAssumption DEF TCB, Waits
  <2>6. tcb' = [tcb EXCEPT ![task2] = b] /\ ready' = ready \ {task2}
    BY <2>1 DEF Block
  <2> HIDE DEF b
  <2>7. tcb' \in [Tasks -> TCB] /\ tcb'[task2] = b /\ tcb'[task3] = tcb[task3]
    BY <1>0, <2>5, <2>6, TCBWritten
  <2>8. pc' \in [Tasks -> Points] /\ pc'[task2] = "pended" /\ pc'[task3] = pc[task3]
    BY <1>0, <1>2, PcWritten DEF Points
  <2>9. TypeOK'
    BY <1>0, <1>2, <2>1, <2>2, <2>6, <2>7, <2>8, EventType DEF TypeOK, KernelTypeOK, KeypadTypeOK, keypad
  <2>10. KeyTaskInv' /\ ClockTaskInv'
    BY <1>0, <2>1, <2>2, <2>5, <2>6, <2>7, <2>8 DEF Inv, KeyTaskInv, ClockTaskInv, InPend, Free
  <2>11. KeyInv'
    BY <1>0, <1>2, <2>1, <2>2, <2>5, <2>7, <2>8 DEF Inv, KeyInv, HandedOver
  <2>12. ScreenInv'
    BY <1>0, <2>1, <2>8 DEF Inv, ScreenInv, HasScreen
  <2> QED
    BY <2>9, <2>10, <2>11, <2>12 DEF Inv
<1> QED
  BY <1>1, <1>2 DEF PendKey

LEMMA KeyWaitedInv ==
    ASSUME Inv, KeyWaited, UNCHANGED keypad
    PROVE  Inv'
<1> USE TwoTasks
<1>0. /\ TypeOK /\ pc[task2] = "pended" /\ task2 \in ready /\ key_ptr' = tcb[task2].msg
      /\ OSQReturn(task2) /\ Goto(task2, IF TimedOut(task2) THEN "pend" ELSE "screen")
      /\ key_ptr = NoMessage
  BY DEF Inv, KeyWaited, At, Runs, KeyInv
<1>1. /\ tcb' = [tcb EXCEPT ![task2] = FreshTCB] /\ ready' = ready /\ sem' = sem
      /\ queue' = LeaveList(task2, queue)
  BY <1>0 DEF OSQReturn, Awake
<1>2. tcb' \in [Tasks -> TCB] /\ tcb'[task2] = FreshTCB /\ tcb'[task3] = tcb[task3]
  BY <1>0, <1>1, FreshType, TCBWritten
<1>3. Free(task2) /\ InPend(task2, "q", queue.wait) /\ task2 \notin sem.wait
  BY <1>0 DEF Inv, KeyTaskInv
<1>4. CASE tcb[task2].pend = "to"
  <2>1. task2 \in queue.wait /\ queue' = [queue EXCEPT !.wait = @ \ {task2}]
    BY <1>1, <1>3, <1>4 DEF InPend, LeaveList, TimedOut
  <2>2. queue' = [entries |-> queue.entries, wait |-> {}] /\ queue.entries = <<>>
    BY <1>0, <2>1, OnlyTask2Waits DEF Inv, KeyInv, TypeOK, KernelTypeOK
  <2>3. pc' \in [Tasks -> Points] /\ pc'[task2] = "pend" /\ pc'[task3] = pc[task3]
    BY <1>0, <1>4, PcWritten DEF Points, TimedOut
  <2>4. key_ptr' = NoMessage
    BY <1>0, <2>1 DEF Inv, KeyInv, HandedOver
  <2>5. TypeOK'
    BY <1>0, <1>1, <1>2, <2>2, <2>3, <2>4, EventType DEF TypeOK, KernelTypeOK, KeypadTypeOK, keypad
  <2>6. KeyTaskInv' /\ ClockTaskInv'
    BY <1>0, <1>1, <1>2, <1>3, <2>2, <2>3, FreshType DEF Inv, KeyTaskInv, ClockTaskInv, InPend, Free
  <2>7. KeyInv'
    BY <1>0, <1>1, <1>2, <2>2, <2>3, <2>4, FreshType DEF Inv, KeyInv, HandedOver
  <2>8. ScreenInv'
    BY <1>0, <1>1, <2>3 DEF Inv, ScreenInv, HasScreen
  <2> QED
    BY <2>5, <2>6, <2>7, <2>8 DEF Inv
<1>5. CASE tcb[task2].pend # "to"
  <2>1. task2 \notin queue.wait /\ queue' = queue
    BY <1>1, <1>3, <1>5 DEF InPend, LeaveList, TimedOut, Free
  <2>2. key_ptr' \in Messages
    BY <1>0, <2>1, TCBType DEF Inv, KeyInv, HandedOver
  <2>3. pc' \in [Tasks -> Points] /\ pc'[task2] = "screen" /\ pc'[task3] = pc[task3]
    BY <1>0, <1>5, PcWritten DEF Points, TimedOut
  <2>4. TypeOK'
    BY <1>0, <1>1, <1>2, <2>1, <2>2, <2>3, EventType DEF TypeOK, KernelTypeOK, KeypadTypeOK, keypad
  <2>5. KeyTaskInv' /\ ClockTaskInv'
    BY <1>0, <1>1, <1>2, <1>3, <2>1, <2>3, FreshType DEF Inv, KeyTaskInv, ClockTaskInv, InPend, Free
  <2>6. KeyInv'
    BY <1>0, <1>1, <1>2, <2>1, <2>2, <2>3, FreshType DEF Inv, KeyInv, HandedOver
  <2>7. ScreenInv'
    BY <1>0, <1>1, <2>3 DEF Inv, ScreenInv, HasScreen
  <2> QED
    BY <2>4, <2>5, <2>6, <2>7 DEF Inv
<1> QED
  BY <1>4, <1>5

\* Whoever has the screen gives it back; if that is task3, task2 may be waiting.
LEMMA MenuDoneInv ==
    ASSUME Inv, MenuDone, UNCHANGED keypad
    PROVE  Inv'
<1> USE TwoTasks
<1>0. /\ TypeOK /\ pc[task2] = "use" /\ task2 \in ready /\ key_ptr' = NoMessage
      /\ OSSemPost /\ Goto(task2, "pend")
  BY DEF Inv, MenuDone, At, Runs
<1>1. task2 \notin sem.wait /\ task2 \notin queue.wait
  BY <1>0 DEF Inv, KeyTaskInv
<1>2. /\ queue' = queue /\ sem.wait = {} /\ sem' = [cnt |-> sem.cnt + 1, wait |-> {}]
      /\ tcb' = tcb /\ ready' = ready
  BY <1>0, <1>1, SemPosted
<1>3. sem.cnt = 0 /\ ~HasScreen(task3)
  BY <1>0 DEF Inv, ScreenInv, HasScreen
<1>4. pc' \in [Tasks -> Points] /\ pc'[task2] = "pend" /\ pc'[task3] = pc[task3]
  BY <1>0, PcWritten DEF Points
<1>5. TypeOK'
  BY <1>0, <1>2, <1>3, <1>4, EventType DEF TypeOK, KernelTypeOK, KeypadTypeOK, keypad
<1>6. KeyTaskInv' /\ ClockTaskInv'
  BY <1>0, <1>1, <1>2, <1>4 DEF Inv, KeyTaskInv, ClockTaskInv, InPend, Free
<1>7. KeyInv'
  BY <1>0, <1>1, <1>2, <1>4 DEF Inv, KeyInv, HandedOver
<1>8. ScreenInv'
  BY <1>2, <1>3, <1>4 DEF Inv, ScreenInv, HasScreen
<1> QED
  BY <1>5, <1>6, <1>7, <1>8 DEF Inv

LEMMA RefreshedInv ==
    ASSUME Inv, Refreshed, UNCHANGED keypad
    PROVE  Inv'
<1> USE TwoTasks
<1>0. /\ TypeOK /\ pc[task3] = "use" /\ key_ptr' = key_ptr
      /\ OSSemPost /\ Goto(task3, "suspend")
  BY DEF Inv, Refreshed, At, Runs
<1>1. sem.cnt = 0 /\ ~HasScreen(task2)
  BY <1>0 DEF Inv, ScreenInv, HasScreen
<1>2. pc' \in [Tasks -> Points] /\ pc'[task3] = "suspend" /\ pc'[task2] = pc[task2]
  BY <1>0, PcWritten DEF Points
<1>3. CASE sem.wait = {}
  <2>1. /\ queue' = queue /\ sem' = [cnt |-> sem.cnt + 1, wait |-> {}]
        /\ tcb' = tcb /\ ready' = ready
    BY <1>0, <1>3, SemPosted
  <2>2. TypeOK'
    BY <1>0, <1>1, <1>2, <2>1, EventType DEF TypeOK, KernelTypeOK, KeypadTypeOK, keypad
  <2>3. KeyTaskInv' /\ ClockTaskInv'
    BY <1>0, <1>2, <1>3, <2>1 DEF Inv, KeyTaskInv, ClockTaskInv, InPend, Free
  <2>4. KeyInv'
    BY <1>0, <1>2, <2>1 DEF Inv, KeyInv, HandedOver
  <2>5. ScreenInv'
    BY <1>1, <1>2, <1>3, <2>1 DEF Inv, ScreenInv, HasScreen
  <2> QED
    BY <2>2, <2>3, <2>4, <2>5 DEF Inv
<1>4. CASE sem.wait # {}
  <2>1. /\ sem.wait = {task2} /\ sem' = [cnt |-> sem.cnt, wait |-> {}] /\ queue' = queue
        /\ tcb' = [tcb EXCEPT ![task2] = Handed(@, "sem", NoMessage)]
        /\ ready' = ready \cup {task2}
    BY <1>0, <1>4, SemPosted
  <2> DEFINE b == Handed(tcb[task2], "sem", NoMessage)
  <2>2. /\ b \in TCB /\ b.stat = tcb[task2].stat \ {"sem"} /\ b.dly = 0
        /\ b.pend = "ok" /\ b.msg = NoMessage
    BY <1>0, HandedType
  <2> HIDE DEF b
  <2>3. pc[task2] = "waited" /\ task2 \notin queue.wait
    BY <2>1 DEF Inv, KeyTaskInv
  <2>4. b.stat = {} /\ tcb[task2].msg = NoMessage
    BY <2>2, <2>3 DEF Inv, KeyTaskInv, InPend, Free, KeyInv, HandedOver
  <2>5. tcb' \in [Tasks -> TCB] /\ tcb'[task2] = b /\ tcb'[task3] = tcb[task3]
    BY <1>0, <2>1, <2>2, TCBWritten DEF b
  <2>6. TypeOK'
    BY <1>0, <1>1, <1>2, <2>1, <2>5, EventType DEF TypeOK, KernelTypeOK, KeypadTypeOK, keypad
  <2>7. KeyTaskInv' /\ ClockTaskInv'
    BY <1>0, <1>2, <2>1, <2>2, <2>3, <2>4, <2>5 DEF Inv, KeyTaskInv, ClockTaskInv, InPend, Free
  <2>8. KeyInv'
    BY <1>0, <1>2, <2>1, <2>2, <2>3, <2>4, <2>5 DEF Inv, KeyInv, HandedOver
  <2>9. ScreenInv'
    BY <1>1, <1>2, <2>1, <2>3 DEF Inv, ScreenInv, HasScreen
  <2> QED
    BY <2>6, <2>7, <2>8, <2>9 DEF Inv
<1> QED
  BY <1>3, <1>4

LEMMA SuspendSelfInv ==
    ASSUME Inv, SuspendSelf, UNCHANGED keypad
    PROVE  Inv'
<1> USE TwoTasks
<1>0. /\ TypeOK /\ pc[task3] = "suspend" /\ key_ptr' = key_ptr
      /\ OSTaskSuspend(task3) /\ Goto(task3, "screen")
  BY DEF Inv, SuspendSelf, At, Runs
<1> DEFINE b == [tcb[task3] EXCEPT !.stat = @ \cup {"suspend"}]
<1>1. b \in TCB /\ b.stat = {"suspend"} /\ b.dly = 0
  BY <1>0, TCBType DEF TCB, Inv, ClockTaskInv
<1>2. tcb' = [tcb EXCEPT ![task3] = b] /\ ready' = ready \ {task3} /\ sem' = sem /\ queue' = queue
  BY <1>0, EventType DEF OSTaskSuspend
<1> HIDE DEF b
<1>3. tcb' \in [Tasks -> TCB] /\ tcb'[task3] = b /\ tcb'[task2] = tcb[task2]
  BY <1>0, <1>1, <1>2, TCBWritten
<1>4. pc' \in [Tasks -> Points] /\ pc'[task3] = "screen" /\ pc'[task2] = pc[task2]
  BY <1>0, PcWritten DEF Points
<1>5. TypeOK'
  BY <1>0, <1>2, <1>3, <1>4, EventType DEF TypeOK, KernelTypeOK, KeypadTypeOK, keypad
<1>6. KeyTaskInv' /\ ClockTaskInv'
  BY <1>0, <1>1, <1>2, <1>3, <1>4 DEF Inv, KeyTaskInv, ClockTaskInv, InPend, Free
<1>7. KeyInv'
  BY <1>0, <1>2, <1>3, <1>4 DEF Inv, KeyInv, HandedOver
<1>8. ScreenInv'
  BY <1>0, <1>2, <1>4 DEF Inv, ScreenInv, HasScreen
<1> QED
  BY <1>5, <1>6, <1>7, <1>8 DEF Inv

LEMMA SecondInv ==
    ASSUME Inv, Second
    PROVE  Inv'
<1> USE TwoTasks
<1>0. /\ TypeOK /\ key_ptr' = key_ptr /\ pc' = pc /\ keypad' = keypad
      /\ OSTaskResume(task3)
  BY DEF Inv, Second
<1> DEFINE b == [tcb[task3] EXCEPT !.stat = @ \ {"suspend"}]
<1>1. b \in TCB /\ b.stat = {} /\ b.dly = 0
  BY <1>0, TCBType DEF TCB, Inv, ClockTaskInv
<1>2. tcb' = [tcb EXCEPT ![task3] = b] /\ sem' = sem /\ queue' = queue
  BY <1>0, EventType DEF OSTaskResume
<1>3. ready' = ready \cup {task3}
  <2>1. ready' = IF tcb[task3].stat = {"suspend"} /\ tcb[task3].dly = 0
                 THEN ready \cup {task3} ELSE ready
    BY <1>0 DEF OSTaskResume
  <2>2. tcb[task3].dly = 0 /\ (tcb[task3].stat = {} \/ tcb[task3].stat = {"suspend"})
        /\ (tcb[task3].stat = {} => task3 \in ready)
    BY DEF Inv, ClockTaskInv
  <2> QED
    BY <2>1, <2>2
<1> HIDE DEF b
<1>4. tcb' \in [Tasks -> TCB] /\ tcb'[task3] = b /\ tcb'[task2] = tcb[task2]
  BY <1>0, <1>1, <1>2, TCBWritten
<1>5. TypeOK'
  BY <1>0, <1>2, <1>3, <1>4, EventType DEF TypeOK, KernelTypeOK, KeypadTypeOK, keypad
<1>6. KeyTaskInv' /\ ClockTaskInv'
  BY <1>0, <1>1, <1>2, <1>3, <1>4 DEF Inv, KeyTaskInv, ClockTaskInv, InPend, Free
<1>7. KeyInv'
  BY <1>0, <1>2, <1>4 DEF Inv, KeyInv, HandedOver
<1>8. ScreenInv'
  BY <1>0, <1>2 DEF Inv, ScreenInv, HasScreen
<1> QED
  BY <1>5, <1>6, <1>7, <1>8 DEF Inv

\* A tick counts task2's timeout or delay down, or ends it.
LEMMA SysTickInv ==
    ASSUME Inv, SysTick
    PROVE  Inv'
<1> USE TwoTasks
<1>0. /\ TypeOK /\ key_ptr' = key_ptr /\ pc' = pc /\ keypad' = keypad
      /\ sem' = sem /\ queue' = queue
  BY DEF Inv, SysTick, OSTimeTick
<1>1. /\ tcb' = [t \in Tasks |->
                     IF tcb[t].dly = 0 THEN tcb[t]
                     ELSE IF tcb[t].dly # 1 THEN [tcb[t] EXCEPT !.dly = @ - 1]
                     ELSE [stat |-> tcb[t].stat \ Waits,
                           pend |-> IF tcb[t].stat \cap Waits # {} THEN "to" ELSE "ok",
                           dly  |-> 0, msg |-> tcb[t].msg]]
      /\ ready' = ready \cup {t \in Tasks : tcb[t].dly = 1 /\ "suspend" \notin tcb[t].stat}
  BY DEF SysTick, OSTimeTick
<1>2. tcb[task3].dly = 0
  BY DEF Inv, ClockTaskInv
<1>3. tcb'[task3] = tcb[task3] /\ (task3 \in ready' <=> task3 \in ready)
  BY <1>1, <1>2
<1>4. /\ tcb[task2].stat \in SUBSET {"sem", "q", "suspend"} /\ tcb[task2].dly \in 0 .. MaxDelay
      /\ tcb[task2] \in TCB /\ tcb[task3] \in TCB /\ MaxDelay \in Nat
  BY <1>0, TCBType, KernelAssumption
<1>5. "suspend" \notin tcb[task2].stat
  <2>1. /\ pc[task2] \in Points /\ pc[task2] # "suspend"
        /\ pc[task2] \in {"pend", "again", "use", "screen"} => tcb[task2].stat = {}
        /\ pc[task2] = "waited" => tcb[task2].stat \in {{"sem"}, {}}
        /\ pc[task2] = "pended" => tcb[task2].stat \in {{"q"}, {}}
    BY <1>0 DEF Inv, KeyTaskInv, InPend, Free, TypeOK
  <2> QED
    BY <2>1 DEF Points
<1>6. CASE tcb[task2].dly = 0
  <2>1. tcb'[task2] = tcb[task2] /\ (task2 \in ready' <=> task2 \in ready)
    BY <1>1, <1>6
  <2>2. tcb' \in [Tasks -> TCB] /\ ready' \subseteq Tasks
    BY <1>0, <1>1, <1>3, <1>4, <2>1, EventType
  <2>3. TypeOK'
    BY <1>0, <2>2, EventType DEF TypeOK, KernelTypeOK, KeypadTypeOK, keypad
  <2>4. KeyTaskInv' /\ ClockTaskInv'
    BY <1>0, <1>3, <2>1 DEF Inv, KeyTaskInv, ClockTaskInv, InPend, Free
  <2>5. KeyInv' /\ ScreenInv'
    BY <1>0, <2>1 DEF Inv, KeyInv, HandedOver, ScreenInv, HasScreen
  <2> QED
    BY <2>3, <2>4, <2>5 DEF Inv
<1>7. CASE tcb[task2].dly > 1
  <2> DEFINE b == [tcb[task2] EXCEPT !.dly = @ - 1]
  <2>1. /\ b \in TCB /\ b.stat = tcb[task2].stat /\ b.pend = tcb[task2].pend
        /\ b.msg = tcb[task2].msg /\ b.dly = tcb[task2].dly - 1
    BY <1>4, <1>7 DEF TCB
  <2>2. tcb'[task2] = b /\ (task2 \in ready' <=> task2 \in ready)
    BY <1>1, <1>4, <1>7
  <2> HIDE DEF b
  <2>3. tcb' \in [Tasks -> TCB] /\ ready' \subseteq Tasks
    BY <1>0, <1>1, <1>3, <1>4, <2>1, <2>2, EventType
  <2>4. TypeOK'
    BY <1>0, <2>3, EventType DEF TypeOK, KernelTypeOK, KeypadTypeOK, keypad
  <2>5. KeyTaskInv' /\ ClockTaskInv'
    BY <1>0, <1>3, <1>4, <1>7, <2>1, <2>2 DEF Inv, KeyTaskInv, ClockTaskInv, InPend, Free
  <2>6. KeyInv' /\ ScreenInv'
    BY <1>0, <2>1, <2>2 DEF Inv, KeyInv, HandedOver, ScreenInv, HasScreen
  <2> QED
    BY <2>4, <2>5, <2>6 DEF Inv
<1>8. CASE tcb[task2].dly = 1
  <2> DEFINE b == [stat |-> tcb[task2].stat \ Waits,
                  pend |-> IF tcb[task2].stat \cap Waits # {} THEN "to" ELSE "ok",
                  dly  |-> 0, msg |-> tcb[task2].msg]
  <2>1. /\ b.stat = {} /\ b.dly = 0 /\ b.msg = tcb[task2].msg
        /\ tcb[task2].stat # {} => b.pend = "to"
        /\ b \in TCB
    BY <1>4, <1>5 DEF TCB, Waits
  <2>2. tcb'[task2] = b /\ task2 \in ready'
    BY <1>1, <1>5, <1>8
  <2> HIDE DEF b
  <2>3. tcb' \in [Tasks -> TCB] /\ ready' \subseteq Tasks
    <3>1. \A t \in Tasks : tcb'[t] \in TCB
      BY <1>3, <1>4, <2>1, <2>2
    <3>2. tcb' = [t \in Tasks |-> tcb'[t]]
      BY <1>1
    <3>3. ready' \subseteq Tasks
      BY <1>0, <1>1, EventType
    <3> QED
      BY <3>1, <3>2, <3>3
  <2>4. TypeOK'
    BY <1>0, <2>3, EventType DEF TypeOK, KernelTypeOK, KeypadTypeOK, keypad
  <2>5. KeyTaskInv' /\ ClockTaskInv'
    BY <1>0, <1>3, <1>8, <2>1, <2>2 DEF Inv, KeyTaskInv, ClockTaskInv, InPend, Free
  <2>6. KeyInv' /\ ScreenInv'
    BY <1>0, <2>1, <2>2 DEF Inv, KeyInv, HandedOver, ScreenInv, HasScreen
  <2> QED
    BY <2>4, <2>5, <2>6 DEF Inv
<1> QED
  BY <1>4, <1>6, <1>7, <1>8

-----------------------------------------------------------------------------
(* The scan *)

\* Codes of one kind are not of the other, and none is Nothing.
LEMMA CodeKinds ==
    /\ Nothing \notin Codes
    /\ ShortCodes \subseteq Codes /\ LongCodes \subseteq Codes
    /\ ShortCodes \cap LongCodes = {}
<1>1. Nothing \notin Codes
  BY KeysAreCodes
<1>2. ASSUME NEW c \in ShortCodes PROVE c \notin LongCodes
  BY DEF ShortCodes, LongCodes, Short, Long
<1> QED
  BY <1>1, <1>2 DEF Codes

LEMMA CodeTypes ==
    ASSUME NEW s PROVE ShortCode(s) \in ShortCodes \cup {Nothing} /\ LongCode(s) \in LongCodes \cup {Nothing}
BY DEF ShortCode, ShortCodes, Short, LongCode

\* The hold is counted no longer than the history; a long code stands only
\* while the history allows it or the one key that repeats is still down.
HoldInv ==
    /\ press_cycle <= still
    /\ CKey \in LongCodes => still > HoldScans \/ \E k \in KeySet : Cont = {k}

LEMMA ScanType ==
    ASSUME KeypadTypeOK, HoldInv, NEW now \in SUBSET KeySet, Scan(now)
    PROVE  KeypadTypeOK' /\ HoldInv'
<1> USE KeypadAssumption DEF KeypadTypeOK, HoldInv
<1>0. Cont' = now
  BY DEF Scan
<1>1. CASE Pressed(now)
  <2>1. /\ CKey' \in ShortCodes \cup {Nothing} /\ press_cycle' = 0 /\ still' = 0
    BY <1>1, CodeTypes DEF Pressed
  <2> QED
    BY <1>0, <2>1, CodeKinds
<1>2. CASE Holding(now)
  <2>1. /\ CKey' = Nothing /\ press_cycle' = press_cycle + 1 /\ press_cycle <= HoldScans
        /\ still' = IF still < HoldScans + 2 THEN still + 1 ELSE still
    BY <1>2 DEF Holding, Quiet
  <2> QED
    BY <1>0, <2>1, CodeKinds
<1>3. CASE HeldLong(now)
  <2>1. CKey' \in LongCodes \cup {Nothing} /\ press_cycle > HoldScans
    BY <1>3, CodeTypes DEF HeldLong
  <2>2. CASE Repeats(now)
    <3>1. press_cycle' = 0 /\ still' \in {0, 1}
      BY <1>3, <2>2 DEF HeldLong, Again
    <3>2. \E k \in KeySet : Cont' = {k}
      BY <1>0, <2>2 DEF Repeats
    <3> QED
      BY <1>0, <2>1, <3>1, <3>2, CodeKinds
  <2>3. CASE ~Repeats(now)
    <3>1. press_cycle' = press_cycle /\ still' = IF still < HoldScans + 2 THEN still + 1 ELSE still
      BY <1>3, <2>3 DEF HeldLong, Quiet
    <3> QED
      BY <1>0, <2>1, <3>1, CodeKinds
  <2> QED
    BY <2>2, <2>3
<1>4. CASE PartlyReleased(now)
  <2>1. /\ CKey' = CKey /\ press_cycle' = press_cycle
        /\ still' = IF still < HoldScans + 2 THEN still + 1 ELSE still
        /\ now # Cont /\ now \subseteq Cont /\ now # {}
    BY <1>4 DEF PartlyReleased, Quiet
  <2>2. ~ \E k \in KeySet : Cont = {k}
    BY <2>1
  <2> QED
    BY <1>0, <2>1, <2>2
<1>5. CASE AllUp(now)
  <2>1. CKey' = Nothing /\ press_cycle' = 0 /\ still' = 0
    BY <1>5 DEF AllUp
  <2> QED
    BY <1>0, <2>1, CodeKinds
<1> QED
  BY <1>1, <1>2, <1>3, <1>4, <1>5 DEF Scan

LEMMA ScanInv ==
    ASSUME Inv, HoldInv, TIM6_IRQHandler
    PROVE  Inv'
<1> USE TwoTasks
<1>0. /\ TypeOK /\ key_ptr' = key_ptr /\ pc' = pc
      /\ KeypadTypeOK'
      /\ IF CKey' # Nothing THEN OSQPost(CKey') ELSE UNCHANGED kernel
  BY ScanType DEF Inv, TIM6_IRQHandler, TypeOK
<1>1. CASE UNCHANGED kernel
  <2>1. ready' = ready /\ tcb' = tcb /\ sem' = sem /\ queue' = queue
    BY <1>1 DEF kernel
  <2>2. TypeOK'
    BY <1>0, <2>1 DEF TypeOK, KernelTypeOK
  <2>3. KeyTaskInv' /\ ClockTaskInv'
    BY <1>0, <2>1 DEF Inv, KeyTaskInv, ClockTaskInv, InPend, Free
  <2>4. KeyInv' /\ ScreenInv'
    BY <1>0, <2>1 DEF Inv, KeyInv, HandedOver, ScreenInv, HasScreen
  <2> QED
    BY <2>2, <2>3, <2>4 DEF Inv
<1>2. CASE CKey' # Nothing /\ OSQPost(CKey')
  <2> DEFINE m == CKey'
  <2>1. m \in Messages /\ OSQPost(m)
    BY <1>0, <1>2, KeysAreCodes DEF KeypadTypeOK
  <2> HIDE DEF m
  <2>2. CASE queue.wait = {}
    <3>1. /\ sem' = sem /\ tcb' = tcb /\ ready' = ready
          /\ queue' = [entries |-> IF Len(queue.entries) < QueueSize
                                   THEN Append(queue.entries, m) ELSE queue.entries,
                       wait |-> {}]
      BY <2>1, <2>2, KeyPosted
    <3>2. queue'.entries \in Seq(Messages) /\ Len(queue'.entries) <= QueueSize
      BY <1>0, <2>1, <3>1, EventType, AppendProperties, KernelAssumption
    <3>3. TypeOK'
      BY <1>0, <3>1, <3>2, EventType DEF TypeOK, KernelTypeOK
    <3>4. KeyTaskInv' /\ ClockTaskInv'
      BY <1>0, <2>2, <3>1 DEF Inv, KeyTaskInv, ClockTaskInv, InPend, Free
    <3>5. KeyInv' /\ ScreenInv'
      BY <1>0, <2>2, <3>1 DEF Inv, KeyInv, HandedOver, ScreenInv, HasScreen
    <3> QED
      BY <3>3, <3>4, <3>5 DEF Inv
  <2>3. CASE queue.wait # {}
    <3>1. /\ sem' = sem /\ queue.wait = {task2}
          /\ queue' = [entries |-> queue.entries, wait |-> {}]
          /\ tcb' = [tcb EXCEPT ![task2] = Handed(@, "q", m)]
          /\ ready' = ready \cup {task2}
      BY <2>1, <2>3, KeyPosted
    <3> DEFINE b == Handed(tcb[task2], "q", m)
    <3>2. /\ b \in TCB /\ b.stat = tcb[task2].stat \ {"q"} /\ b.dly = 0
          /\ b.pend = "ok" /\ b.msg = m
      BY <1>0, <2>1, HandedType
    <3> HIDE DEF b
    <3>3. pc[task2] = "pended" /\ task2 \notin sem.wait
      BY <3>1 DEF Inv, KeyTaskInv
    <3>4. b.stat = {}
      BY <3>2, <3>3 DEF Inv, KeyTaskInv, InPend, Free
    <3>5. tcb' \in [Tasks -> TCB] /\ tcb'[task2] = b /\ tcb'[task3] = tcb[task3]
      BY <1>0, <3>1, <3>2, TCBWritten DEF b
    <3>6. TypeOK'
      BY <1>0, <3>1, <3>5, EventType DEF TypeOK, KernelTypeOK
    <3>7. KeyTaskInv' /\ ClockTaskInv'
      BY <1>0, <3>1, <3>2, <3>3, <3>4, <3>5 DEF Inv, KeyTaskInv, ClockTaskInv, InPend, Free
    <3>8. KeyInv'
      BY <1>0, <2>1, <3>1, <3>2, <3>3, <3>5, KeysAreCodes DEF Inv, KeyInv, HandedOver
    <3>9. ScreenInv'
      BY <1>0, <3>1 DEF Inv, ScreenInv, HasScreen
    <3> QED
      BY <3>6, <3>7, <3>8, <3>9 DEF Inv
  <2> QED
    BY <2>2, <2>3
<1> QED
  BY <1>0, <1>1, <1>2

LEMMA StutterInv == ASSUME Inv, UNCHANGED vars PROVE Inv'
<1> USE DEF vars, kernel, keypad
<1>1. TypeOK'
  BY DEF Inv, TypeOK, KernelTypeOK, KeypadTypeOK
<1>2. KeyTaskInv' /\ ClockTaskInv'
  BY DEF Inv, KeyTaskInv, ClockTaskInv, InPend, Free
<1>3. KeyInv' /\ ScreenInv'
  BY DEF Inv, KeyInv, HandedOver, ScreenInv, HasScreen
<1> QED
  BY <1>1, <1>2, <1>3 DEF Inv

-----------------------------------------------------------------------------
(* What the runs check *)

LEMMA StepInv ==
    ASSUME Inv, HoldInv, [Next]_vars
    PROVE  Inv' /\ HoldInv'
<1> USE TwoTasks
<1>1. ASSUME UNCHANGED keypad PROVE HoldInv'
  BY <1>1 DEF HoldInv, keypad
<1>2. CASE Task2Step
  <2>1. UNCHANGED keypad
    BY <1>2 DEF Task2Step
  <2> QED
    BY <1>1, <1>2, <2>1, PendKeyInv, KeyWaitedInv, MenuDoneInv, PendScreenInv, ScreenWaitedInv, DelayInv
    DEF Task2Step
<1>3. CASE Task3Step
  <2>1. UNCHANGED keypad
    BY <1>3 DEF Task3Step
  <2>2. ~ScreenWaited(task3) /\ ~Delay(task3)
    BY NeverWaits DEF ScreenWaited, Delay, At
  <2> QED
    BY <1>1, <1>3, <2>1, <2>2, RefreshedInv, SuspendSelfInv, PendScreenInv DEF Task3Step
<1>4. CASE SysTick
  BY <1>1, <1>4, SysTickInv DEF SysTick
<1>5. CASE TIM6_IRQHandler
  BY <1>5, ScanInv, ScanType DEF TIM6_IRQHandler, Inv, TypeOK
<1>6. CASE Second
  BY <1>1, <1>6, SecondInv DEF Second
<1>7. CASE UNCHANGED vars
  BY <1>1, <1>7, StutterInv DEF vars, keypad
<1> QED
  BY <1>2, <1>3, <1>4, <1>5, <1>6, <1>7 DEF Next

THEOREM InvHolds == Spec => [](Inv /\ HoldInv)
<1>1. Init => Inv /\ HoldInv
  BY InitInv, CodeKinds, KeypadAssumption DEF HoldInv, Init, KeypadInit
<1>2. Inv /\ HoldInv /\ [Next]_vars => (Inv /\ HoldInv)'
  BY StepInv
<1> QED
  BY <1>1, <1>2, PTL DEF Spec

\* Kernel, queue, keypad and tasks keep their types, the queue its limit,
\* whatever timeouts, delays, queue size and keys are chosen.
THEOREM TypeCorrect == Spec => []TypeOK
<1>1. Inv => TypeOK
  BY DEF Inv
<1> QED
  BY <1>1, InvHolds, PTL

\* The kernel's ready list, event lists, delays and the tasks' places agree at
\* every moment (os_core.c:901, 985, 1057).
THEOREM ListsAgree == Spec => []KernelConsistent
<1>1. ASSUME Inv PROVE KernelConsistent
  <2> USE TwoTasks, <1>1
  <2>1. /\ tcb[task2].stat \in SUBSET {"sem", "q", "suspend"}
        /\ pc[task2] \in Points
    BY TCBType DEF Inv, TypeOK
  <2>2. /\ "sem" \in tcb[task2].stat => pc[task2] = "waited"
        /\ "q" \in tcb[task2].stat => pc[task2] = "pended"
    BY <2>1 DEF Inv, KeyTaskInv, InPend, Free, Points
  <2>3. \A t \in Tasks : t \in ready <=> tcb[t].stat = {} /\ tcb[t].dly = 0
    BY DEF Inv, KeyTaskInv, ClockTaskInv, Free
  <2>4. \A t \in Tasks : "sem" \in tcb[t].stat => t \in sem.wait /\ tcb[t].dly > 0
    BY <2>2 DEF Inv, KeyTaskInv, ClockTaskInv, InPend, Free
  <2>5. \A t \in Tasks : "q" \in tcb[t].stat => t \in queue.wait /\ tcb[t].dly > 0
    BY <2>2 DEF Inv, KeyTaskInv, ClockTaskInv, InPend, Free
  <2>6. \A t \in sem.wait : pc[t] = "waited" /\ ("sem" \in tcb[t].stat \/ TimedOut(t))
    BY OnlyTask2Waits DEF Inv, KeyTaskInv, InPend, TimedOut
  <2>7. \A t \in queue.wait : pc[t] = "pended" /\ ("q" \in tcb[t].stat \/ TimedOut(t))
    BY OnlyTask2Waits DEF Inv, KeyTaskInv, InPend, TimedOut
  <2>8. (queue.wait # {} => queue.entries = <<>>) /\ (sem.wait # {} => sem.cnt = 0)
    BY DEF Inv, KeyInv, ScreenInv
  <2> QED
    BY <2>3, <2>4, <2>5, <2>6, <2>7, <2>8 DEF KernelConsistent
<1> QED
  BY <1>1, InvHolds, PTL

\* One semaphore, or one task that has the screen, never neither, never both
\* (main.c:245-267, 276-299).
THEOREM ScreenConserved == Spec => []SemConserved
<1>1. ASSUME Inv PROVE SemConserved
  <2> DEFINE H == {t \in Tasks : HasScreen(t)}
  <2> USE TwoTasks, <1>1
  <2>1. CASE ~HasScreen(task2) /\ ~HasScreen(task3)
    <3>1. H = {} /\ sem.cnt = 1
      BY <2>1 DEF Inv, ScreenInv
    <3> QED
      BY <3>1, FS_EmptySet DEF SemConserved
  <2>2. ASSUME NEW t \in Tasks, HasScreen(t), \A o \in Tasks : HasScreen(o) => o = t
        PROVE  SemConserved
    <3>1. H = {t} /\ sem.cnt = 0
      BY <2>2 DEF Inv, ScreenInv
    <3> QED
      BY <3>1, FS_Singleton DEF SemConserved
  <2> QED
    BY <2>1, <2>2 DEF Inv, ScreenInv
<1> QED
  BY <1>1, InvHolds, PTL

\* Only task2 ever waits for the screen (main.c:245, 277).
THEOREM OneWaiter == Spec => []ClockNeverWaits
<1>1. Inv => ClockNeverWaits
  BY NeverWaits DEF ClockNeverWaits
<1> QED
  BY <1>1, InvHolds, PTL

\* A short code comes at a press, once (stm32f10x_it.c:294-330).
THEOREM OncePerPress == Spec => ShortOncePerPress
<1>1. ASSUME NEW now \in SUBSET KeySet, Scan(now), NEW k \in KeySet, CKey' = Short(k)
      PROVE  Cont' \ Cont = {k} \/ Releases
  <2>1. CKey' \in ShortCodes /\ Cont' = now
    BY <1>1 DEF ShortCodes, Scan
  <2>2. CASE Pressed(now)
    <3>1. CKey' = ShortCode(now \ Cont)
      BY <2>2 DEF Pressed
    <3>2. CKey' = <<"short", now \ Cont>>
      BY <2>1, <3>1, CodeKinds DEF ShortCode
    <3> QED
      BY <1>1, <2>1, <3>2 DEF Short
  <2>3. ~Holding(now) /\ ~AllUp(now) /\ ~HeldLong(now)
    BY <2>1, CodeKinds, CodeTypes DEF Holding, AllUp, HeldLong
  <2>4. CASE PartlyReleased(now)
    BY <2>1, <2>4 DEF PartlyReleased, Releases
  <2> QED
    BY <1>1, <2>2, <2>3, <2>4 DEF Scan
<1>2. [Next]_vars => [\A k \in KeySet : CKey' = Short(k) => Cont' \ Cont = {k} \/ Releases]_keypad
  <2>1. Next \/ UNCHANGED vars => UNCHANGED keypad \/ \E now \in SUBSET KeySet : Scan(now)
    BY DEF Next, Task2Step, Task3Step, SysTick, Second, TIM6_IRQHandler, vars, keypad
  <2> QED
    BY <1>1, <2>1
<1> QED
  BY <1>2, PTL DEF Spec, ShortOncePerPress

\* A long code takes its time, again and again (stm32f10x_it.c:309-318).
THEOREM LongNotEarly == Spec => LongTakesTime
<1>1. ASSUME KeypadTypeOK, HoldInv, NEW now \in SUBSET KeySet, Scan(now), CKey' \in LongCodes
      PROVE  still > HoldScans
  <2> USE KeypadAssumption
  <2>1. ~Pressed(now) /\ ~Holding(now) /\ ~AllUp(now)
    BY <1>1, CodeKinds, CodeTypes DEF Pressed, Holding, AllUp
  <2>2. CASE HeldLong(now)
    BY <1>1, <2>2 DEF HeldLong, HoldInv, KeypadTypeOK
  <2>3. CASE PartlyReleased(now)
    BY <1>1, <2>3 DEF PartlyReleased, HoldInv
  <2> QED
    BY <1>1, <2>1, <2>2, <2>3 DEF Scan
<1>2. Inv /\ HoldInv /\ [Next]_vars => [CKey' \in LongCodes => still > HoldScans]_keypad
  <2>1. Next \/ UNCHANGED vars => UNCHANGED keypad \/ \E now \in SUBSET KeySet : Scan(now)
    BY DEF Next, Task2Step, Task3Step, SysTick, Second, TIM6_IRQHandler, vars, keypad
  <2> QED
    BY <1>1, <2>1 DEF Inv, TypeOK
<1> QED
  BY <1>2, InvHolds, PTL DEF Spec, LongTakesTime

-----------------------------------------------------------------------------
(* The queue implements the channel *)

\* The two expressions Channel is instantiated with.
Carried == (IF HandedOver THEN <<tcb[task2].msg>> ELSE <<>>) \o queue.entries

LEMMA CarriedEither ==
    ASSUME Inv
    PROVE  /\ HandedOver => Carried = <<tcb[task2].msg>> \o queue.entries
           /\ ~HandedOver => Carried = queue.entries
<1>1. queue.entries \in Seq(Messages)
  BY EventType DEF Inv
<1>2. <<>> \o queue.entries = queue.entries
  BY <1>1
<1>3. HandedOver => Carried = <<tcb[task2].msg>> \o queue.entries
  BY DEF Carried
<1>4. ~HandedOver => Carried = <<>> \o queue.entries
  BY DEF Carried
<1> QED
  BY <1>2, <1>3, <1>4

\* The keypad, the semaphore and task3 leave the channel alone.
LEMMA SameChannel ==
    ASSUME HandedOver' = HandedOver, tcb'[task2].msg = tcb[task2].msg,
           queue'.entries = queue.entries, key_ptr' = key_ptr
    PROVE  UNCHANGED <<Carried, key_ptr>>
BY DEF Carried

ChannelStep == [Channel!ChannelNext]_<<Carried, key_ptr>>

LEMMA KeyWaitedChannel ==
    ASSUME Inv, KeyWaited
    PROVE  ChannelStep
<1> USE TwoTasks
<1>0. /\ TypeOK /\ pc[task2] = "pended" /\ key_ptr' = tcb[task2].msg
      /\ OSQReturn(task2) /\ Goto(task2, IF TimedOut(task2) THEN "pend" ELSE "screen")
      /\ key_ptr = NoMessage
  BY DEF Inv, KeyWaited, At, Runs, KeyInv
<1>1. queue' = LeaveList(task2, queue) /\ queue'.entries = queue.entries
  BY <1>0, EventType DEF OSQReturn, Awake, LeaveList, TypeOK, KernelTypeOK
<1>2. InPend(task2, "q", queue.wait)
  BY <1>0 DEF Inv, KeyTaskInv
<1>3. pc'[task2] # "pended"
  BY <1>0, PcWritten DEF Points
<1>4. ~HandedOver' /\ Carried' = queue.entries
  <2>1. ~HandedOver'
    BY <1>3 DEF HandedOver
  <2>2. Carried' = <<>> \o queue'.entries
    BY <2>1 DEF Carried
  <2> QED
    BY <2>1, <2>2, <1>0, <1>1, EventType
<1>5. CASE HandedOver
  <2>1. tcb[task2].msg \in Messages /\ Carried = <<tcb[task2].msg>> \o queue.entries
    BY <1>0, <1>5, TCBType, CarriedEither DEF Inv, KeyInv
  <2>2. Carried # <<>> /\ Head(Carried) = tcb[task2].msg /\ Tail(Carried) = queue.entries
    BY <1>0, <2>1, EventType
  <2> QED
    BY <1>0, <1>4, <2>2 DEF ChannelStep, Channel!ChannelNext, Channel!Deliver, Carried
<1>6. CASE ~HandedOver
  <2>1. key_ptr' = key_ptr
    BY <1>0, <1>6, TCBType DEF Inv, KeyInv
  <2>2. Carried = queue.entries
    BY <1>6, CarriedEither
  <2> QED
    BY <1>4, <2>1, <2>2 DEF ChannelStep
<1> QED
  BY <1>5, <1>6

LEMMA PendKeyChannel ==
    ASSUME Inv, PendKey
    PROVE  ChannelStep
<1> USE TwoTasks
<1>0. /\ TypeOK /\ pc[task2] = "pend" /\ key_ptr = NoMessage /\ ~HandedOver
      /\ Carried = queue.entries /\ queue.entries \in Seq(Messages)
  BY CarriedEither, EventType DEF Inv, PendKey, At, KeyInv, HandedOver
<1>1. CASE OSQTake(task2) /\ key_ptr' = Head(queue.entries) /\ Goto(task2, "screen")
  <2>1. queue.entries # <<>> /\ queue'.entries = Tail(queue.entries)
    BY <1>0, <1>1 DEF OSQTake, TypeOK, KernelTypeOK
  <2>2. ~HandedOver'
    BY <1>0, <1>1, PcWritten DEF HandedOver, Points
  <2>3. Carried' = Tail(queue.entries)
    <3>1. Carried' = <<>> \o queue'.entries
      BY <2>2 DEF Carried
    <3> QED
      BY <1>0, <2>1, <3>1, HeadTailProperties
  <2> QED
    BY <1>0, <1>1, <2>1, <2>3 DEF ChannelStep, Channel!ChannelNext, Channel!Deliver, Carried
<1>2. CASE OSQBlock(task2, KeyTimeout) /\ Goto(task2, "pended") /\ key_ptr' = key_ptr
  <2>1. queue'.entries = queue.entries /\ task2 \in queue'.wait
    BY <1>0, <1>2 DEF OSQBlock, TypeOK, KernelTypeOK
  <2>2. ~HandedOver'
    BY <2>1 DEF HandedOver
  <2>3. Carried' = queue.entries
    <3>1. Carried' = <<>> \o queue'.entries
      BY <2>2 DEF Carried
    <3> QED
      BY <1>0, <2>1, <3>1
  <2> QED
    BY <1>0, <1>2, <2>3 DEF ChannelStep
<1> QED
  BY <1>1, <1>2 DEF PendKey

LEMMA MenuDoneChannel ==
    ASSUME Inv, MenuDone
    PROVE  ChannelStep
<1> USE TwoTasks
<1>0. /\ TypeOK /\ pc[task2] = "use" /\ key_ptr' = NoMessage /\ key_ptr # NoMessage
      /\ OSSemPost /\ Goto(task2, "pend") /\ ~HandedOver /\ queue.entries \in Seq(Messages)
  BY KeysAreCodes, EventType DEF Inv, MenuDone, At, KeyInv, HandedOver
<1>1. queue' = queue
  BY <1>0, SemPosted
<1>2. ~HandedOver'
  BY <1>0, PcWritten DEF HandedOver, Points
<1>3. Carried' = Carried
  BY <1>0, <1>1, <1>2 DEF Carried
<1> QED
  BY <1>0, <1>3 DEF ChannelStep, Channel!ChannelNext, Channel!Finish, Carried

\* The rest of task2 and task3 never touch the queue, nor task2's message.
LEMMA OtherChannel ==
    ASSUME Inv, \/ \E t \in Tasks : PendScreen(t)
                \/ ScreenWaited(task2) \/ Delay(task2) \/ Refreshed \/ SuspendSelf
                \/ SysTick \/ Second
    PROVE  ChannelStep
<1> USE TwoTasks
<1>0. /\ TypeOK /\ tcb[task2] \in TCB /\ tcb[task3] \in TCB
      /\ tcb \in [Tasks -> TCB]
  BY TCBType, EventType DEF Inv
<1>1. ASSUME queue' = queue, key_ptr' = key_ptr, ~HandedOver, ~HandedOver'
      PROVE  ChannelStep
  <2>1. Carried' = Carried
    BY <1>1 DEF Carried
  <2> QED
    BY <1>1, <2>1 DEF ChannelStep
<1>2. ASSUME queue' = queue, key_ptr' = key_ptr, pc'[task2] = pc[task2],
             tcb'[task2].msg = tcb[task2].msg
      PROVE  ChannelStep
  <2>1. HandedOver' = HandedOver
    BY <1>2 DEF HandedOver
  <2> QED
    BY <1>2, <2>1, SameChannel DEF ChannelStep
<1>3. CASE PendScreen(task2) \/ ScreenWaited(task2) \/ Delay(task2)
  <2>1. /\ pc[task2] \in {"screen", "waited", "again"} /\ key_ptr' = key_ptr
        /\ queue' = queue
    BY <1>3 DEF PendScreen, ScreenWaited, Delay, At, OSSemTake, OSSemBlock, OSSemReturn, OSTimeDly
  <2>2. \E p \in Points \ {"pended"} : Goto(task2, p)
    BY <1>3 DEF PendScreen, ScreenWaited, Delay, Points
  <2>3. pc'[task2] # "pended"
    BY <1>0, <2>2, PcWritten
  <2> QED
    BY <1>1, <2>1, <2>3 DEF HandedOver
<1>4. CASE PendScreen(task3)
  <2>1. PendScreen(task3) /\ pc[task3] = "screen"
    BY <1>4 DEF PendScreen, At
  <2>2. queue' = queue /\ key_ptr' = key_ptr /\ \E p \in Points : Goto(task3, p)
    BY <2>1 DEF PendScreen, OSSemTake, OSSemBlock, Points
  <2>3. tcb'[task2] = tcb[task2]
    BY <1>0, <2>1 DEF PendScreen, OSSemTake, OSSemBlock, Block
  <2>4. pc'[task2] = pc[task2]
    BY <1>0, <2>2, PcWritten
  <2> QED
    BY <1>2, <2>2, <2>3, <2>4
<1>5. CASE Refreshed
  <2>1. OSSemPost /\ key_ptr' = key_ptr /\ Goto(task3, "suspend")
    BY <1>5 DEF Refreshed
  <2>2. queue' = queue
    BY <2>1, SemPosted
  <2>3. pc'[task2] = pc[task2]
    BY <1>0, <2>1, PcWritten DEF Points
  <2>4. CASE sem.wait = {}
    BY <1>2, <2>1, <2>2, <2>3, <2>4, SemPosted
  <2>5. CASE sem.wait # {}
    <3>1. sem.wait = {task2}
      BY <2>5, OnlyTask2Waits
    <3>2. pc[task2] = "waited"
      BY <3>1 DEF Inv, KeyTaskInv
    <3> QED
      BY <1>1, <2>1, <2>2, <2>3, <3>2 DEF HandedOver
  <2> QED
    BY <2>4, <2>5
<1>6. CASE SuspendSelf
  <2>1. /\ queue' = queue /\ key_ptr' = key_ptr /\ Goto(task3, "screen")
        /\ tcb'[task2] = tcb[task2]
    BY <1>0, <1>6 DEF SuspendSelf, OSTaskSuspend
  <2>2. pc'[task2] = pc[task2]
    BY <1>0, <2>1, PcWritten DEF Points
  <2> QED
    BY <1>2, <2>1, <2>2
<1>7. CASE SysTick
  <2>1. queue' = queue /\ key_ptr' = key_ptr /\ pc' = pc
    BY <1>7 DEF SysTick, OSTimeTick
  <2>2. tcb'[task2].msg = tcb[task2].msg
    BY <1>0, <1>7 DEF SysTick, OSTimeTick, TCB
  <2> QED
    BY <1>2, <2>1, <2>2
<1>8. CASE Second
  <2>1. queue' = queue /\ key_ptr' = key_ptr /\ pc' = pc /\ tcb'[task2] = tcb[task2]
    BY <1>0, <1>8 DEF Second, OSTaskResume
  <2> QED
    BY <1>2, <2>1
<1> QED
  BY <1>3, <1>4, <1>5, <1>6, <1>7, <1>8

LEMMA Associative ==
    \A a, b, c \in Seq(Messages) : (a \o b) \o c = a \o (b \o c)
<1> TAKE a, b, c \in Seq(Messages)
<1> QED
  BY ConcatAssociative

LEMMA ScanChannel ==
    ASSUME Inv, HoldInv, TIM6_IRQHandler
    PROVE  ChannelStep
<1> USE TwoTasks
<1>0. /\ TypeOK /\ key_ptr' = key_ptr /\ pc' = pc /\ KeypadTypeOK'
      /\ IF CKey' # Nothing THEN OSQPost(CKey') ELSE UNCHANGED kernel
      /\ queue.entries \in Seq(Messages) /\ Len(queue.entries) \in 0 .. QueueSize
  BY ScanType, EventType, LenProperties, KernelAssumption DEF Inv, TIM6_IRQHandler, TypeOK
<1>1. CASE UNCHANGED kernel
  BY <1>0, <1>1, SameChannel DEF kernel, HandedOver, ChannelStep
<1>2. CASE CKey' # Nothing /\ OSQPost(CKey')
  <2> DEFINE m == CKey'
  <2>1. m \in Messages /\ OSQPost(m)
    BY <1>0, <1>2, KeysAreCodes DEF KeypadTypeOK
  <2> HIDE DEF m
  <2>2. SUFFICES ASSUME Carried' # Carried
                 PROVE  Carried' = Append(Carried, m) /\ Len(Carried) < QueueSize + 1
    BY <1>0, <2>1 DEF ChannelStep, Channel!ChannelNext, Channel!Accept, Carried
  <2>3. CASE queue.wait = {}
    <3>1. /\ tcb' = tcb /\ queue'.wait = {}
          /\ queue'.entries = IF Len(queue.entries) < QueueSize
                              THEN Append(queue.entries, m) ELSE queue.entries
      <4>1. /\ tcb' = tcb
            /\ queue' = [entries |-> IF Len(queue.entries) < QueueSize
                                     THEN Append(queue.entries, m) ELSE queue.entries,
                         wait |-> {}]
        BY <2>1, <2>3, KeyPosted
      <4> QED
        BY <4>1, Zenon
    <3>2. HandedOver' = HandedOver
      BY <1>0, <2>3, <3>1 DEF HandedOver
    <3>3. queue'.entries = Append(queue.entries, m) /\ Len(queue.entries) < QueueSize
      BY <1>0, <2>2, <3>1, <3>2, SameChannel
    <3>4. CASE HandedOver
      <4> DEFINE k == tcb[task2].msg
      <4>1. k \in Messages /\ Carried = <<k>> \o queue.entries
        BY <1>0, <3>4, TCBType, CarriedEither DEF Inv, KeyInv
      <4>2. Carried' = <<k>> \o Append(queue.entries, m)
        BY <3>1, <3>2, <3>3, <3>4 DEF Carried
      <4> HIDE DEF k
      <4>3. /\ <<k>> \o Append(queue.entries, m) = Append(<<k>> \o queue.entries, m)
            /\ Len(<<k>> \o queue.entries) = Len(queue.entries) + 1
        <5>1. /\ <<k>> \in Seq(Messages) /\ Append(queue.entries, m) = queue.entries \o <<m>>
              /\ <<m>> \in Seq(Messages)
          BY <1>0, <2>1, <4>1, AppendIsConcat
        <5>2. (<<k>> \o queue.entries) \o <<m>> = <<k>> \o (queue.entries \o <<m>>)
          BY <1>0, <5>1, Associative
        <5>3. <<k>> \o queue.entries \in Seq(Messages) /\ Len(<<k>> \o queue.entries) = 1 + Len(queue.entries)
          BY <1>0, <5>1, ConcatProperties
        <5> QED
          BY <1>0, <2>1, <5>1, <5>2, <5>3, AppendIsConcat
      <4> QED
        BY <1>0, <3>3, <4>1, <4>2, <4>3, KernelAssumption
    <3>5. CASE ~HandedOver
      <4>1. Carried = queue.entries
        BY <3>5, CarriedEither
      <4>2. Carried' = <<>> \o Append(queue.entries, m)
        BY <3>2, <3>3, <3>5 DEF Carried
      <4>3. Append(queue.entries, m) \in Seq(Messages)
        BY <1>0, <2>1
      <4> QED
        BY <1>0, <3>3, <4>1, <4>2, <4>3, KernelAssumption
    <3> QED
      BY <3>4, <3>5
  <2>4. CASE queue.wait # {}
    <3>1. /\ queue.wait = {task2} /\ queue' = [entries |-> queue.entries, wait |-> {}]
          /\ tcb' = [tcb EXCEPT ![task2] = Handed(@, "q", m)]
      BY <2>1, <2>4, KeyPosted
    <3>2. pc[task2] = "pended" /\ queue.entries = <<>> /\ ~HandedOver
      BY <3>1 DEF Inv, KeyTaskInv, KeyInv, HandedOver
    <3>3. Carried = <<>>
      BY <3>2, CarriedEither
    <3>4. HandedOver'
      BY <1>0, <3>1, <3>2 DEF HandedOver
    <3>5. tcb'[task2].msg = m
      <4> DEFINE b == Handed(tcb[task2], "q", m)
      <4>1. b \in TCB /\ b.msg = m
        BY <1>0, <2>1, TwoTasks, HandedType
      <4>2. tcb' = [tcb EXCEPT ![task2] = b]
        BY <3>1
      <4> HIDE DEF b
      <4> QED
        BY <1>0, <4>1, <4>2, TwoTasks, TCBWritten
    <3>6. Carried' = <<m>> \o <<>>
      BY <3>1, <3>2, <3>4, <3>5 DEF Carried
    <3>7. Carried' = <<m>>
      BY <2>1, <3>6
    <3> QED
      BY <3>3, <3>7, KernelAssumption
  <2> QED
    BY <2>3, <2>4
<1> QED
  BY <1>0, <1>1, <1>2

\* The five slots, the hand-over to a waiting task2, its timeouts and its
\* late wake-ups together are one channel that loses, doubles and reorders
\* nothing it accepted (os_q.c:418-464, 571-608; main.c:224-268).
THEOREM QueueIsChannel == Spec => ImplementsChannel
<1>1. Init => Channel!ChannelInit
  <2> SUFFICES ASSUME Init PROVE Channel!ChannelInit
    OBVIOUS
  <2>1. ~HandedOver /\ queue.entries = <<>> /\ key_ptr = NoMessage
    BY TwoTasks DEF Init, KernelInit, HandedOver
  <2>2. Carried = <<>>
    BY <2>1 DEF Carried
  <2> QED
    BY <2>1, <2>2 DEF Channel!ChannelInit, Carried
<1>2. Inv /\ HoldInv /\ [Next]_vars => ChannelStep
  <2> SUFFICES ASSUME Inv, HoldInv, [Next]_vars PROVE ChannelStep
    OBVIOUS
  <2>1. CASE Task2Step
    BY <2>1, TwoTasks, PendKeyChannel, KeyWaitedChannel, MenuDoneChannel, OtherChannel DEF Task2Step
  <2>2. CASE Task3Step
    <3>1. ~ScreenWaited(task3) /\ ~Delay(task3)
      BY NeverWaits DEF ScreenWaited, Delay, At
    <3> QED
      BY <2>2, <3>1, TwoTasks, OtherChannel DEF Task3Step
  <2>3. CASE SysTick \/ Second
    BY <2>3, OtherChannel
  <2>4. CASE TIM6_IRQHandler
    BY <2>4, ScanChannel
  <2>5. CASE UNCHANGED vars
    BY <2>5, SameChannel DEF vars, HandedOver, ChannelStep
  <2> QED
    BY <2>1, <2>2, <2>3, <2>4, <2>5 DEF Next
<1> QED
  BY <1>1, <1>2, InvHolds, PTL DEF Spec, ImplementsChannel, ChannelStep, Channel!ChannelSpec, Carried
=============================================================================

------------------------------- MODULE Kernel -------------------------------
(***************************************************************************)
(* The uC/OS-II services the screen tasks use: one semaphore, one queue,   *)
(* delays and suspension, for tasks named by their priority (a smaller     *)
(* number runs first).  Every service is one critical section of the       *)
(* kernel; a call that blocks is two, and between them OSTimeTick and the  *)
(* posts of others change the caller's TCB.                                *)
(*                                                                         *)
(* The module has no Next of its own: Panel supplies the tasks.            *)
(***************************************************************************)
EXTENDS Integers, Sequences, FiniteSetsExt

CONSTANTS
    Tasks,          \* the priorities in use
    MaxDelay,       \* the longest timeout or delay, in ticks
    QueueSize,      \* 5, the slots of key_q
    Messages,       \* what may be posted to it
    NoMessage

ASSUME KernelAssumption ==
    /\ Tasks \subseteq Nat /\ MaxDelay \in Nat /\ QueueSize \in Nat \ {0}
    /\ NoMessage \notin Messages

VARIABLES
    ready,          \* OSRdyTbl
    tcb,            \* OSTCBStat, OSTCBStatPend, OSTCBDly and OSTCBMsg of each task
    sem,            \* the semaphore: OSEventCnt and the tasks in OSEventTbl
    queue           \* the queue: its entries and the tasks in OSEventTbl

kernel == <<ready, tcb, sem, queue>>

Waits == {"sem", "q"}           \* OS_STAT_PEND_ANY

TCB == [stat  : SUBSET (Waits \cup {"suspend"}),
        pend  : {"ok", "to"},
        dly   : 0 .. MaxDelay,
        msg   : Messages \cup {NoMessage}]

KernelTypeOK ==
    /\ ready \in SUBSET Tasks
    /\ tcb \in [Tasks -> TCB]
    /\ sem \in [cnt : Nat, wait : SUBSET Tasks]
    /\ queue \in [entries : Seq(Messages), wait : SUBSET Tasks]
    /\ Len(queue.entries) <= QueueSize

FreshTCB == [stat |-> {}, pend |-> "ok", dly |-> 0, msg |-> NoMessage]

KernelInit ==
    /\ ready = Tasks
    /\ tcb = [t \in Tasks |-> FreshTCB]
    /\ sem = [cnt |-> 1, wait |-> {}]
    /\ queue = [entries |-> <<>>, wait |-> {}]

Runs(t) == t \in ready /\ \A o \in ready : t <= o

-----------------------------------------------------------------------------
(* Event lists *)

\* What is written to the TCB of a task that is handed the event.
Handed(b, wait, m) == [stat |-> b.stat \ {wait}, pend |-> "ok", dly |-> 0, msg |-> m]

\* Mutant: the waiter is taken off the list but not made ready.
RdyForgets(list, wait, m) ==
    /\ tcb' = [tcb EXCEPT ![Min(list)] = Handed(@, wait, m)]
    /\ UNCHANGED ready

\* OS_EventTaskRdy: the highest-priority waiter of list is handed the event.
OS_EventTaskRdy(list, wait, m) ==
    LET t == Min(list)
    IN  /\ tcb' = [tcb EXCEPT ![t] = Handed(@, wait, m)]
        /\ ready' = IF "suspend" \in tcb[t].stat THEN ready ELSE ready \cup {t}

\* The first half of a pend that finds nothing.
Block(t, wait, timeout) ==
    /\ tcb' = [tcb EXCEPT ![t] = [stat |-> @.stat \cup {wait}, pend |-> "ok",
                                  dly |-> timeout, msg |-> @.msg]]
    /\ ready' = ready \ {t}

TimedOut(t) == tcb[t].pend = "to"
Awake(t) == tcb' = [tcb EXCEPT ![t] = FreshTCB] /\ UNCHANGED ready

\* Mutant: the task that timed out stays in the event's list.
StaysListed(t, e) == e
LeaveList(t, e) == IF TimedOut(t) THEN [e EXCEPT !.wait = @ \ {t}] ELSE e

-----------------------------------------------------------------------------
(* Services.  Each is called by the task t that runs; posts also by          *)
(* interrupts.                                                               *)

SemFree == sem.cnt > 0
OSSemTake(t) == SemFree /\ sem' = [sem EXCEPT !.cnt = @ - 1] /\ UNCHANGED <<ready, tcb, queue>>
OSSemBlock(t, timeout) ==
    /\ ~SemFree
    /\ sem' = [sem EXCEPT !.wait = @ \cup {t}]
    /\ Block(t, "sem", timeout) /\ UNCHANGED queue
OSSemReturn(t) == sem' = LeaveList(t, sem) /\ Awake(t) /\ UNCHANGED queue

\* Mutant: a post counts even when it hands the semaphore to a waiter.
PostCounts ==
    IF sem.wait # {}
    THEN /\ OS_EventTaskRdy(sem.wait, "sem", NoMessage)
         /\ sem' = [cnt |-> sem.cnt + 1, wait |-> sem.wait \ {Min(sem.wait)}]
         /\ UNCHANGED queue
    ELSE sem' = [sem EXCEPT !.cnt = @ + 1] /\ UNCHANGED <<ready, tcb, queue>>

OSSemPost ==
    IF sem.wait # {}
    THEN /\ OS_EventTaskRdy(sem.wait, "sem", NoMessage)
         /\ sem' = [sem EXCEPT !.wait = @ \ {Min(sem.wait)}]
         /\ UNCHANGED queue
    ELSE sem' = [sem EXCEPT !.cnt = @ + 1] /\ UNCHANGED <<ready, tcb, queue>>

OSQTake(t) ==
    /\ queue.entries # <<>>
    /\ queue' = [queue EXCEPT !.entries = Tail(@)]
    /\ UNCHANGED <<ready, tcb, sem>>
OSQBlock(t, timeout) ==
    /\ queue.entries = <<>>
    /\ queue' = [queue EXCEPT !.wait = @ \cup {t}]
    /\ Block(t, "q", timeout) /\ UNCHANGED sem
OSQReturn(t) == queue' = LeaveList(t, queue) /\ Awake(t) /\ UNCHANGED sem

\* Mutant: the full queue gives up its oldest entry.
PostOverwrites(m) ==
    \/ /\ queue.wait # {}
       /\ OS_EventTaskRdy(queue.wait, "q", m)
       /\ queue' = [queue EXCEPT !.wait = @ \ {Min(@)}]
       /\ UNCHANGED sem
    \/ /\ queue.wait = {}
       /\ queue' = [queue EXCEPT !.entries =
                       IF Len(@) < QueueSize THEN Append(@, m) ELSE Append(Tail(@), m)]
       /\ UNCHANGED <<ready, tcb, sem>>

\* To a waiter, to the queue, or nowhere (OS_ERR_Q_FULL).
OSQPost(m) ==
    \/ /\ queue.wait # {}
       /\ OS_EventTaskRdy(queue.wait, "q", m)
       /\ queue' = [queue EXCEPT !.wait = @ \ {Min(@)}]
       /\ UNCHANGED sem
    \/ /\ queue.wait = {}
       /\ queue' = [queue EXCEPT !.entries =
                       IF Len(@) < QueueSize THEN Append(@, m) ELSE @]
       /\ UNCHANGED <<ready, tcb, sem>>

OSTimeDly(t, ticks) ==
    /\ ready' = ready \ {t}
    /\ tcb' = [tcb EXCEPT ![t].dly = ticks]
    /\ UNCHANGED <<sem, queue>>

OSTaskSuspend(t) ==
    /\ ready' = ready \ {t}
    /\ tcb' = [tcb EXCEPT ![t].stat = @ \cup {"suspend"}]
    /\ UNCHANGED <<sem, queue>>

OSTaskResume(t) ==
    /\ tcb' = [tcb EXCEPT ![t].stat = @ \ {"suspend"}]
    /\ ready' = IF tcb[t].stat = {"suspend"} /\ tcb[t].dly = 0 THEN ready \cup {t} ELSE ready
    /\ UNCHANGED <<sem, queue>>

\* A delay that ends with the task still waiting is a timeout.  The task stays
\* in the event's list until it runs.
OSTimeTick ==
    LET ends == {t \in Tasks : tcb[t].dly = 1}
        Waiting(t) == tcb[t].stat \cap Waits # {}
    IN  /\ tcb' = [t \in Tasks |->
                     IF tcb[t].dly = 0 THEN tcb[t]
                     ELSE IF t \notin ends THEN [tcb[t] EXCEPT !.dly = @ - 1]
                     ELSE [stat |-> tcb[t].stat \ Waits,
                           pend |-> IF Waiting(t) THEN "to" ELSE "ok",
                           dly  |-> 0, msg |-> tcb[t].msg]]
        /\ ready' = ready \cup {t \in ends : "suspend" \notin tcb[t].stat}
        /\ UNCHANGED <<sem, queue>>
=============================================================================

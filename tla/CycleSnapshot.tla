--------------------------- MODULE CycleSnapshot ---------------------------
(***************************************************************************)
(* What the signal controller promises about the plan it runs, stated      *)
(* without interrupts, tasks or menus: the phases of the running table are *)
(* served in order, the running table is replaced only when its last phase *)
(* is over, and always by one whole table of the stored schedule.  While   *)
(* the operator has taken over, the cycle does not advance; handing back   *)
(* restarts it at its first phase.                                         *)
(***************************************************************************)
EXTENDS Integers

VARIABLES
    schedule,   \* the stored schedule, changed only by whole edits
    running,    \* the phase table being served
    pos,        \* the phase of running being served, 0 while manual
    manual      \* TRUE while the operator has taken over

vars == <<schedule, running, pos, manual>>

Stored == {schedule.PhaseTable[t] : t \in 0 .. schedule.TimeTable_Number - 1}

Init == running \in Stored /\ pos = 0 /\ manual = FALSE

NextPhase ==
    /\ ~manual
    /\ pos < running.Phase_Number - 1
    /\ pos' = pos + 1
    /\ UNCHANGED <<schedule, running, manual>>

NewCycle ==
    /\ ~manual
    /\ pos = running.Phase_Number - 1
    /\ pos' = 0
    /\ running' \in Stored
    /\ UNCHANGED <<schedule, manual>>

Edit     == UNCHANGED <<running, pos, manual>>
TakeOver == ~manual /\ manual' = TRUE /\ pos' = 0 /\ UNCHANGED <<schedule, running>>
Reload   == manual /\ running' \in Stored /\ UNCHANGED <<schedule, pos, manual>>
HandBack == manual /\ manual' = FALSE /\ UNCHANGED <<schedule, running, pos>>

Next == NextPhase \/ NewCycle \/ Edit \/ TakeOver \/ Reload \/ HandBack

Spec == Init /\ [][Next]_vars
=============================================================================

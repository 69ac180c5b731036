------------------------------- MODULE Keypad -------------------------------
(***************************************************************************)
(* The scan of the keypad, every 30 ms: TIM6_IRQHandler's Cont, CKey and   *)
(* press_cycle.  A press gives a key's short code at once; a hold gives    *)
(* the long code of a key, or of two keys, scan after scan.                *)
(***************************************************************************)
EXTENDS Integers

CONSTANTS
    KeySet,         \* KEY1 to KEY6
    Pairs,          \* the pairs that have a code of their own
    SlowKeys,       \* KEY5 and KEY6, whose long code starts its count again
    HoldScans,      \* 10
    Nothing

ASSUME KeypadAssumption ==
    /\ Pairs \subseteq SUBSET KeySet /\ SlowKeys \subseteq KeySet
    /\ HoldScans \in Nat

Short(k) == <<"short", {k}>>
Long(s)  == <<"long", s>>

ShortCodes == {Short(k) : k \in KeySet}
LongCodes  == {Long({k}) : k \in KeySet} \cup {Long(s) : s \in Pairs}
Codes      == ShortCodes \cup LongCodes

VARIABLES
    Cont,           \* the keys down at the last scan
    CKey,           \* the code found at the last scan, or an older one
    press_cycle,
    still           \* history: scans since a key went down, all keys were up
                    \* or a slow key repeated

keypad == <<Cont, CKey, press_cycle, still>>

KeypadTypeOK ==
    /\ Cont \in SUBSET KeySet
    /\ CKey \in Codes \cup {Nothing}
    /\ press_cycle \in 0 .. HoldScans + 1
    /\ still \in 0 .. HoldScans + 2

KeypadInit == Cont = {} /\ CKey = Nothing /\ press_cycle = 0 /\ still = 0

ShortCode(s) == IF \E k \in KeySet : s = {k} THEN <<"short", s>> ELSE Nothing
LongCode(s)  == IF Long(s) \in LongCodes THEN Long(s) ELSE Nothing

\* A repetition starts the history again, visibly even if it just did.
Again == still' = IF still = 0 THEN 1 ELSE 0
Quiet == still' = IF still < HoldScans + 2 THEN still + 1 ELSE still

\* Keys went down.
Pressed(now) ==
    /\ now \ Cont # {}
    /\ CKey' = ShortCode(now \ Cont) /\ press_cycle' = 0 /\ still' = 0

\* Mutant: the code is left standing while the hold is counted.
HoldingRepeats(now) ==
    /\ now = Cont /\ now # {} /\ press_cycle <= HoldScans
    /\ press_cycle' = press_cycle + 1 /\ UNCHANGED CKey /\ Quiet

\* The same keys are down, not long enough yet.
Holding(now) ==
    /\ now = Cont /\ now # {} /\ press_cycle <= HoldScans
    /\ press_cycle' = press_cycle + 1 /\ CKey' = Nothing /\ Quiet

Repeats(now) == \E k \in SlowKeys : now = {k}

\* ... long enough.
HeldLong(now) ==
    /\ now = Cont /\ now # {} /\ press_cycle > HoldScans
    /\ CKey' = LongCode(now)
    /\ press_cycle' = IF Repeats(now) THEN 0 ELSE press_cycle
    /\ IF Repeats(now) THEN Again ELSE Quiet

\* Some keys went up and others stay down: the last code stands and is posted
\* once more.
PartlyReleased(now) ==
    /\ now # Cont /\ now \subseteq Cont /\ now # {}
    /\ UNCHANGED <<CKey, press_cycle>> /\ Quiet

AllUp(now) == now = {} /\ CKey' = Nothing /\ press_cycle' = 0 /\ still' = 0

Scan(now) ==
    /\ Cont' = now
    /\ \/ Pressed(now) \/ Holding(now) \/ HeldLong(now)
       \/ PartlyReleased(now) \/ AllUp(now)

-----------------------------------------------------------------------------
(* Properties *)

Releases == Cont' \subseteq Cont /\ Cont' # Cont /\ Cont' # {}

\* A key's short code is posted at the scan that finds it pressed, and never
\* again while it stays down (stm32f10x_it.c:294-330); only at a scan that
\* finds another key released is the last code posted a second time.
ShortOncePerPress ==
    [][\A k \in KeySet : CKey' = Short(k) => Cont' \ Cont = {k} \/ Releases]_keypad

\* A long code comes only after more than HoldScans scans in which no key went
\* down, and for KEY5 and KEY6, which save and leave, after as many again for
\* each repetition (stm32f10x_it.c:309-318).
LongTakesTime ==
    [][CKey' \in LongCodes => still > HoldScans]_keypad
=============================================================================

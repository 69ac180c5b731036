------------------------- MODULE LampWords_proofs -------------------------
(***************************************************************************)
(* Proofs about LampWords, for every wiring, every set of rows and masks   *)
(* and every duration.                                                     *)
(***************************************************************************)
EXTENDS LampWords, TLAPS

\* The words in use are those of the row and the wiring they were made from.
WordsInv ==
    /\ words.LED = Through(wired, row)
    /\ words.Yellow = YellowWord(wired, row)

\* Between the two signals of a second the lamps are those of the second
\* signal at the count there is; a count that is adjusted stays above six.
ShownInv == armed /\ whole => shown = SecondWord /\ lit = shown

\* What was shown last is one of the two words.
LastShownInv ==
    whole => \/ shown \subseteq words.LED \cup words.Flash
             \/ shown \subseteq Xor(words.Yellow, words.LED) \cup words.Flash

\* New words are shown first at a count where they are not yet yellow.
FreshInv == Manual_FLAG = 0 /\ ~whole => Current_CutDown >= 6
FreshArmedInv == Manual_FLAG = 0 /\ ~whole /\ armed => Current_CutDown >= 7

Inv == TypeOK /\ WordsInv /\ ShownInv /\ LastShownInv /\ FreshInv /\ FreshArmedInv

-----------------------------------------------------------------------------
(* Words *)

LEMMA ThroughType ==
    ASSUME NEW w \in [Lamps -> 0 .. Outputs], NEW ls \in SUBSET Lamps
    PROVE  Through(w, ls) \in Word
BY LampsAssumption DEF Through, Word

LEMMA YellowIsLamp ==
    ASSUME NEW ls \in SUBSET Lamps, NEW g \in Greens(ls)
    PROVE  /\ g \in ls /\ g \in Lamps /\ g = <<g[1], "G">>
           /\ YellowOf(g) \in Lamps /\ YellowOf(g)[1] = g[1] /\ YellowOf(g)[2] = "Y"
BY DEF Greens, YellowOf, Lamps

LEMMA YellowType ==
    ASSUME NEW w \in [Lamps -> 0 .. Outputs], NEW ls \in SUBSET Lamps
    PROVE  YellowWord(w, ls) \in Word
<1> DEFINE changing == {l \in Greens(ls) : w[l] # 0}
<1>1. changing \cup {YellowOf(l) : l \in changing} \subseteq Lamps
  BY YellowIsLamp
<1> QED
  BY <1>1, ThroughType DEF YellowWord

LEMMA XorType == \A s, t \in Word : Xor(s, t) \in Word
BY DEF Xor, Word

LEMMA RowType == \A f \in Phases : RowOf(f) \in SUBSET Lamps
BY LampsAssumption DEF Phases, RowOf

LEMMA FirstPhase == 0 \in Phases
BY LampsAssumption DEF Phases

\* Who is lit by a word: a lamp of the row, or the yellow of a green of it.
LEMMA LitByLED ==
    ASSUME NEW w \in [Lamps -> 0 .. Outputs], NEW ls \in SUBSET Lamps, NEW k \in Lamps,
           \A i, j \in Lamps : w[i] # 0 /\ w[i] = w[j] => i = j,
           w[k] \in Through(w, ls)
    PROVE  k \in ls
BY DEF Through

LEMMA LitByYellow ==
    ASSUME NEW w \in [Lamps -> 0 .. Outputs], NEW ls \in SUBSET Lamps, NEW k \in Lamps,
           \A i, j \in Lamps : w[i] # 0 /\ w[i] = w[j] => i = j,
           w[k] \in YellowWord(w, ls)
    PROVE  k \in Greens(ls) \/ \E g \in Greens(ls) : w[g] # 0 /\ k = YellowOf(g)
<1> DEFINE changing == {l \in Greens(ls) : w[l] # 0}
<1>1. changing \cup {YellowOf(l) : l \in changing} \subseteq Lamps
  BY YellowIsLamp
<1>2. k \in changing \cup {YellowOf(l) : l \in changing}
  BY <1>1, LitByLED DEF YellowWord
<1> QED
  BY <1>2

\* A green of the row is in both words, its yellow in the second.
LEMMA GreenInBoth ==
    ASSUME NEW w \in [Lamps -> 0 .. Outputs], NEW ls \in SUBSET Lamps,
           NEW g \in Greens(ls), w[g] # 0
    PROVE  /\ w[g] \in Through(w, ls) /\ w[g] \in YellowWord(w, ls)
           /\ w[YellowOf(g)] # 0 => w[YellowOf(g)] \in YellowWord(w, ls)
BY YellowIsLamp DEF Through, YellowWord

-----------------------------------------------------------------------------
(* Types *)

LEMMA OrderLength == Len(LampOrder) \in Nat /\ \A n \in 1 .. Len(LampOrder) : LampOrder[n] \in Lamps
BY LampsAssumption

LEMMA InterpretationType ==
    ASSUME TypeOK, NEW ls \in SUBSET Lamps, LED_Interpretation(ls)
    PROVE  /\ words' \in [LED : Word, Yellow : Word, Flash : Word, Allow : Word]
           /\ wired' \in [Lamps -> 0 .. Outputs] /\ row' \in SUBSET Lamps
<1>1. (IF Time_FLAG_DayOrNight' = 0 THEN Day_FLASH_ON ELSE Night_FLASH_ON) \in SUBSET Lamps
  BY DEF TypeOK
<1>2. FLASH_Allowence \in SUBSET Lamps /\ LEDColor_Sn \in [Lamps -> 0 .. Outputs]
  BY DEF TypeOK
<1>3. /\ Through(LEDColor_Sn, ls) \in Word /\ YellowWord(LEDColor_Sn, ls) \in Word
      /\ Through(LEDColor_Sn, FLASH_Allowence) \in Word
      /\ Through(LEDColor_Sn, IF Time_FLAG_DayOrNight' = 0 THEN Day_FLASH_ON ELSE Night_FLASH_ON) \in Word
  BY <1>1, <1>2, ThroughType, YellowType
<1> QED
  BY <1>2, <1>3 DEF LED_Interpretation

LEMMA WordsType ==
    ASSUME TypeOK PROVE SecondWord \in Word /\ DieWord \in Word
BY XorType DEF TypeOK, SecondWord, DieWord, Word

LEMMA HalfType ==
    ASSUME TypeOK, LED_HalfSec_Display PROVE lit' \in Word
BY WordsType, XorType DEF TypeOK, LED_HalfSec_Display

LEMMA TypeInit == ASSUME Init PROVE TypeOK
<1>1. PICK w \in Wirings : LEDColor_Sn = w
  BY DEF Init
<1>2. /\ LEDColor_Sn \in Wirings /\ LEDColor_Sn \in [Lamps -> 0 .. Outputs]
      /\ FLASH_Allowence \in SUBSET Lamps
  BY <1>1, LampsAssumption DEF Init
<1>3. RowOf(0) \in SUBSET Lamps /\ 0 \in Phases
  BY FirstPhase, RowType
<1>4. words \in [LED : Word, Yellow : Word, Flash : Word, Allow : Word]
  <2>1. /\ Through(LEDColor_Sn, RowOf(0)) \in Word /\ YellowWord(LEDColor_Sn, RowOf(0)) \in Word
        /\ Through(LEDColor_Sn, FLASH_Allowence) \in Word /\ {} \in Word
    BY <1>2, <1>3, ThroughType, YellowType DEF Word
  <2> QED
    BY <2>1 DEF Init
<1>5. copying \in [target : Wirings, done : 0 .. Len(LampOrder)]
  BY <1>2, OrderLength DEF Init, NoCopy
<1>6. Duration \in 0 .. CutMax
  BY LampsAssumption
<1>7. /\ Current_PhaseTable \in Phases /\ Current_CutDown \in 0 .. CutMax
      /\ Time_FLAG_DayOrNight \in 0 .. 1 /\ Manual_FLAG \in 0 .. 1
  BY <1>3, <1>6 DEF Init
<1>8. rtcIT \in BOOLEAN /\ armed \in BOOLEAN /\ whole \in BOOLEAN
  BY DEF Init
<1>9. /\ shown \in Word /\ lit \in Word
      /\ {Day_FLASH_ON, Night_FLASH_ON} \subseteq SUBSET Lamps
      /\ wired = LEDColor_Sn /\ row = RowOf(0)
  BY DEF Init, Word
<1> QED
  BY <1>2, <1>3, <1>4, <1>5, <1>7, <1>8, <1>9 DEF TypeOK

LEMMA TypeStep == ASSUME TypeOK, [Next]_vars PROVE TypeOK'
<1> USE DEF settings, cycle, lamps
<1>p. Duration \in 0 .. CutMax /\ CutMax \in Nat
  BY LampsAssumption
<1>1. CASE LED_Sec_Display
  BY <1>1, WordsType DEF LED_Sec_Display, TypeOK
<1>2. CASE CountDown
  <2>1. Current_CutDown' \in 0 .. CutMax
    BY <1>2, <1>p DEF CountDown, TypeOK
  <2>2. armed' = FALSE
    BY <1>2 DEF CountDown, LED_HalfSec_Display
  <2> QED
    BY <1>2, <2>1, <2>2, HalfType DEF CountDown, LED_HalfSec_Display, TypeOK
<1>3. CASE NextPhase
  <2>1. Current_PhaseTable' \in Phases
    BY <1>3, FirstPhase, LampsAssumption DEF NextPhase, TypeOK, Phases
  <2>2. /\ words' \in [LED : Word, Yellow : Word, Flash : Word, Allow : Word]
        /\ wired' \in [Lamps -> 0 .. Outputs] /\ row' \in SUBSET Lamps
    BY <1>3, <2>1, RowType, InterpretationType DEF NextPhase
  <2> QED
    BY <1>3, <1>p, <2>1, <2>2, HalfType DEF NextPhase, LED_HalfSec_Display, Time_JudgeDayOrNight, TypeOK
<1>4. CASE RepeatPhase
  BY <1>4, <1>p, HalfType DEF RepeatPhase, LED_HalfSec_Display, Time_JudgeDayOrNight, TypeOK
<1>5. CASE Adjust
  <2>1. Current_CutDown' \in 0 .. CutMax
    BY <1>5, <1>p DEF Adjust, TypeOK
  <2> QED
    BY <1>5, <2>1 DEF Adjust, Keys, TypeOK
<1>6. CASE TakeOver
  <2>1. /\ words' \in [LED : Word, Yellow : Word, Flash : Word, Allow : Word]
        /\ wired' \in [Lamps -> 0 .. Outputs] /\ row' \in SUBSET Lamps
    BY <1>6, FirstPhase, RowType, InterpretationType DEF TakeOver
  <2>2. Manual_FLAG' \in 0 .. 1
    BY <1>6 DEF TakeOver
  <2> QED
    BY <1>6, <2>1, <2>2 DEF TakeOver, Keys, TypeOK
<1>7. CASE LockPhase
  <2>1. Current_PhaseTable' \in Phases
    BY <1>7 DEF LockPhase
  <2>2. /\ words' \in [LED : Word, Yellow : Word, Flash : Word, Allow : Word]
        /\ wired' \in [Lamps -> 0 .. Outputs] /\ row' \in SUBSET Lamps
    BY <1>7, <2>1, RowType, InterpretationType DEF LockPhase
  <2>3. Current_CutDown' \in 0 .. CutMax
    BY <1>7, <1>p DEF LockPhase
  <2> QED
    BY <1>7, <2>1, <2>2, <2>3 DEF LockPhase, Keys, TypeOK
<1>8. CASE Restart
  <2>1. /\ words' \in [LED : Word, Yellow : Word, Flash : Word, Allow : Word]
        /\ wired' \in [Lamps -> 0 .. Outputs] /\ row' \in SUBSET Lamps
    BY <1>8, FirstPhase, RowType, InterpretationType DEF Restart
  <2>2. Current_CutDown' \in 0 .. CutMax /\ Manual_FLAG' \in 0 .. 1 /\ Current_PhaseTable' \in Phases
    BY <1>8, <1>p, FirstPhase DEF Restart
  <2> QED
    BY <1>8, <2>1, <2>2 DEF Restart, Keys, Time_JudgeDayOrNight, TypeOK
<1>9. CASE SaveFlash
  BY <1>9, LampsAssumption DEF SaveFlash, TypeOK
<1>10. CASE StartCopy
  <2>1. copying' \in [target : Wirings, done : 0 .. Len(LampOrder)]
    BY <1>10, OrderLength DEF StartCopy
  <2>2. rtcIT' \in BOOLEAN
    BY <1>10 DEF StartCopy
  <2> QED
    BY <1>10, <2>1, <2>2 DEF StartCopy, TypeOK
<1>11. CASE CopyLamp
  <2>1. copying.target \in [Lamps -> 0 .. Outputs]
    BY LampsAssumption DEF TypeOK
  <2>2. LampOrder[copying.done + 1] \in Lamps /\ copying' \in [target : Wirings, done : 0 .. Len(LampOrder)]
    <3>1. copying \in [target : Wirings, done : 0 .. Len(LampOrder)]
      BY DEF TypeOK
    <3>2. copying.done + 1 \in 1 .. Len(LampOrder)
      BY <1>11, <3>1, OrderLength DEF CopyLamp
    <3>3. copying' = [copying EXCEPT !.done = copying.done + 1]
      BY <1>11 DEF CopyLamp
    <3> QED
      BY <3>1, <3>2, <3>3, OrderLength
  <2>3. LEDColor_Sn' \in [Lamps -> 0 .. Outputs]
    BY <1>11, <2>1, <2>2 DEF CopyLamp, TypeOK
  <2> QED
    BY <1>11, <2>2, <2>3 DEF CopyLamp, TypeOK
<1>12. CASE EndCopy
  BY <1>12 DEF EndCopy, TypeOK
<1>13. CASE UNCHANGED vars
  BY <1>13 DEF vars, TypeOK
<1> QED
  BY <1>1, <1>2, <1>3, <1>4, <1>5, <1>6, <1>7, <1>8, <1>9, <1>10, <1>11, <1>12, <1>13 DEF Next

\* Everything has the type the declarations give it, the two bytes of a
\* countdown included (main.c:176-213, KEY_OP.c:400-419).
THEOREM TypeCorrect == Spec => []TypeOK
BY TypeInit, TypeStep, PTL DEF Spec

-----------------------------------------------------------------------------
(* The inductive invariant *)

LEMMA InvInit == ASSUME Init PROVE Inv
<1>1. TypeOK
  BY TypeInit
<1>2. Current_CutDown >= 7
  BY LampsAssumption DEF Init
<1>3. WordsInv
  BY DEF Init, WordsInv
<1> QED
  BY <1>1, <1>2, <1>3 DEF Init, Inv, ShownInv, LastShownInv, FreshInv, FreshArmedInv, TypeOK

LEMMA InterpretationWords ==
    ASSUME NEW ls, LED_Interpretation(ls) PROVE WordsInv'
BY DEF LED_Interpretation, WordsInv

\* A step that leaves words, lamps and counts alone.
LEMMA InvStutter ==
    ASSUME Inv, TypeOK', UNCHANGED <<armed, Manual_FLAG, Current_CutDown, lamps>>
    PROVE  Inv'
BY DEF Inv, WordsInv, ShownInv, LastShownInv, FreshInv, FreshArmedInv, SecondWord, lamps

LEMMA SecondWordIsOne ==
    \/ SecondWord \subseteq words.LED \cup words.Flash
    \/ SecondWord \subseteq Xor(words.Yellow, words.LED) \cup words.Flash
BY DEF SecondWord

LEMMA InvStep == ASSUME Inv, [Next]_vars PROVE Inv'
<1> USE DEF cycle, settings
<1>t. TypeOK /\ TypeOK' /\ Current_CutDown \in Nat
  BY TypeStep, LampsAssumption DEF Inv, TypeOK
<1>1. CASE LED_Sec_Display
  <2>1. shown' = SecondWord /\ lit' = shown' /\ SecondWord' = SecondWord /\ whole'
    BY <1>1 DEF LED_Sec_Display, SecondWord
  <2>2. WordsInv'
    BY <1>1 DEF LED_Sec_Display, WordsInv, Inv
  <2>3. LastShownInv'
    BY <1>1, <2>1, SecondWordIsOne DEF LED_Sec_Display, LastShownInv
  <2> QED
    BY <1>t, <2>1, <2>2, <2>3 DEF Inv, ShownInv, FreshInv, FreshArmedInv
<1>2. CASE CountDown
  <2>1. armed /\ ~armed' /\ UNCHANGED <<words, shown, wired, row, whole, Manual_FLAG>>
        /\ Current_CutDown' = Current_CutDown - 1
    BY <1>2 DEF CountDown, LED_HalfSec_Display
  <2>2. WordsInv' /\ LastShownInv' /\ ShownInv' /\ FreshArmedInv'
    BY <2>1 DEF Inv, WordsInv, LastShownInv, ShownInv, FreshArmedInv
  <2>3. FreshInv'
    BY <1>t, <2>1 DEF Inv, FreshInv, FreshArmedInv
  <2> QED
    BY <1>t, <2>2, <2>3 DEF Inv
<1>3. CASE NextPhase
  <2>1. ~armed' /\ ~whole' /\ Current_CutDown' >= 6
    BY <1>3, LampsAssumption DEF NextPhase, LED_HalfSec_Display
  <2>2. WordsInv'
    BY <1>3, InterpretationWords DEF NextPhase
  <2> QED
    BY <1>t, <2>1, <2>2 DEF Inv, LastShownInv, ShownInv, FreshInv, FreshArmedInv
<1>4. CASE RepeatPhase
  <2>1. ~armed' /\ Current_CutDown' >= 6 /\ UNCHANGED <<words, shown, wired, row, whole>>
    BY <1>4, LampsAssumption DEF RepeatPhase, LED_HalfSec_Display
  <2> QED
    BY <1>t, <2>1 DEF Inv, WordsInv, LastShownInv, ShownInv, FreshInv, FreshArmedInv
<1>5. CASE Adjust
  <2>1. /\ Current_CutDown >= 7 /\ Current_CutDown' >= 7
        /\ UNCHANGED <<words, shown, lit, wired, row, whole, armed>>
    BY <1>5, <1>t DEF Adjust, Keys
  <2>2. SecondWord' = SecondWord
    BY <1>t, <2>1 DEF SecondWord, TypeOK
  <2> QED
    BY <1>t, <2>1, <2>2 DEF Inv, WordsInv, LastShownInv, ShownInv, FreshInv, FreshArmedInv, TypeOK
<1>6. CASE TakeOver
  <2>1. WordsInv' /\ ~whole' /\ Manual_FLAG' = 1
    BY <1>6, InterpretationWords DEF TakeOver
  <2> QED
    BY <1>t, <2>1 DEF Inv, LastShownInv, ShownInv, FreshInv, FreshArmedInv
<1>7. CASE LockPhase
  <2>1. WordsInv' /\ ~whole' /\ Manual_FLAG' = 1
    BY <1>7, InterpretationWords DEF LockPhase
  <2> QED
    BY <1>t, <2>1 DEF Inv, LastShownInv, ShownInv, FreshInv, FreshArmedInv
<1>8. CASE Restart
  <2>1. WordsInv' /\ ~whole' /\ Current_CutDown' >= 7
    BY <1>8, InterpretationWords, LampsAssumption DEF Restart
  <2> QED
    BY <1>t, <2>1 DEF Inv, LastShownInv, ShownInv, FreshInv, FreshArmedInv, TypeOK
<1>9. CASE SaveFlash
  BY <1>9, <1>t, InvStutter DEF SaveFlash
<1>10. CASE StartCopy
  BY <1>10, <1>t, InvStutter DEF StartCopy
<1>11. CASE CopyLamp
  BY <1>11, <1>t, InvStutter DEF CopyLamp
<1>12. CASE EndCopy
  BY <1>12, <1>t, InvStutter DEF EndCopy
<1>13. CASE UNCHANGED vars
  BY <1>13, <1>t, InvStutter DEF vars
<1> QED
  BY <1>1, <1>2, <1>3, <1>4, <1>5, <1>6, <1>7, <1>8, <1>9, <1>10, <1>11, <1>12, <1>13 DEF Next

THEOREM InvHolds == Spec => []Inv
BY InvInit, InvStep, PTL DEF Spec

-----------------------------------------------------------------------------
(* One colour for a movement *)

LEMMA OneOfTheRow ==
    ASSUME Single, NEW k \in row, NEW l \in row, k[1] = l[1] PROVE k = l
BY DEF Single

LEMMA InvOneColour == ASSUME Inv PROVE OneColourShown
<1> SUFFICES ASSUME Sound, Single, whole, NEW k \in Lamps, NEW l \in Lamps, k[1] = l[1],
                    wired[k] \in shown \ words.Flash, wired[l] \in shown \ words.Flash
             PROVE  k = l
  BY DEF OneColourShown
<1>t. /\ wired \in [Lamps -> 0 .. Outputs] /\ row \in SUBSET Lamps
      /\ \A i, j \in Lamps : wired[i] # 0 /\ wired[i] = wired[j] => i = j
  BY DEF Inv, TypeOK, Sound
<1>1. CASE shown \subseteq words.LED \cup words.Flash
  <2>1. k \in row /\ l \in row
    BY <1>1, <1>t, LitByLED DEF Inv, WordsInv
  <2> QED
    BY <2>1, OneOfTheRow
<1>2. CASE shown \subseteq Xor(words.Yellow, words.LED) \cup words.Flash
  \* Either a lamp of the row that does not change, or the yellow of a green of it.
  <2>1. ASSUME NEW i \in Lamps, wired[i] \in Xor(words.Yellow, words.LED)
        PROVE  \/ i \in row /\ wired[i] \notin words.Yellow
               \/ \E g \in Greens(row) : wired[g] # 0 /\ i = YellowOf(g)
    <3>1. CASE wired[i] \in words.LED /\ wired[i] \notin words.Yellow
      BY <3>1, <1>t, LitByLED DEF Inv, WordsInv
    <3>2. CASE wired[i] \in words.Yellow /\ wired[i] \notin words.LED
      <4>1. CASE i \in Greens(row)
        <5>1. wired[i] # 0
          BY <3>2, <1>t DEF Inv, WordsInv, YellowWord, Through
        <5> QED
          BY <4>1, <5>1, <3>2, <1>t, GreenInBoth DEF Inv, WordsInv
      <4> QED
        BY <4>1, <3>2, <1>t, LitByYellow DEF Inv, WordsInv
    <3> QED
      BY <2>1, <3>1, <3>2 DEF Xor
  <2>2. /\ wired[k] \in Xor(words.Yellow, words.LED)
        /\ wired[l] \in Xor(words.Yellow, words.LED)
    BY <1>2
  \* The yellow of a green shuts out every other lamp of the movement.
  <2>3. ASSUME NEW i \in row, wired[i] \notin words.Yellow,
               NEW g \in Greens(row), wired[g] # 0, i[1] = YellowOf(g)[1]
        PROVE  FALSE
    <3>1. g \in row /\ i[1] = g[1]
      BY <2>3, <1>t, YellowIsLamp
    <3>2. i = g
      BY <3>1, OneOfTheRow
    <3> QED
      BY <2>3, <3>2, <1>t, GreenInBoth DEF Inv, WordsInv
  <2>4. ASSUME NEW g \in Greens(row), NEW h \in Greens(row), YellowOf(g)[1] = YellowOf(h)[1]
        PROVE  YellowOf(g) = YellowOf(h)
    BY <2>4, <1>t, YellowIsLamp DEF YellowOf
  <2>5. CASE k \in row /\ wired[k] \notin words.Yellow
    BY <2>5, <2>1, <2>2, <2>3, OneOfTheRow
  <2>6. CASE l \in row /\ wired[l] \notin words.Yellow
    BY <2>6, <2>1, <2>2, <2>3, OneOfTheRow
  <2> QED
    BY <2>1, <2>2, <2>4, <2>5, <2>6
<1> QED
  BY <1>1, <1>2 DEF Inv, LastShownInv

\* Between two phases too, no movement is ever shown two colours at a second
\* signal, whatever the wiring, the rows and the counts (LED_OP.c:157-167, 287-297).
THEOREM OneColour == Spec => []OneColourShown
BY InvHolds, InvOneColour, PTL

-----------------------------------------------------------------------------
(* The half-second signal *)

\* Only the three actions of the half-second signal end a second.
LEMMA HalfSignal ==
    ASSUME TypeOK, [Next]_vars, armed, ~armed' PROVE CountDown \/ NextPhase \/ RepeatPhase
<1>1. CASE LED_Sec_Display
  BY <1>1 DEF LED_Sec_Display
<1>2. CASE Adjust \/ TakeOver \/ LockPhase \/ Restart
  BY <1>2 DEF Adjust, TakeOver, LockPhase, Restart, Keys
<1>3. CASE SaveFlash \/ StartCopy \/ CopyLamp \/ EndCopy
  BY <1>3 DEF SaveFlash, StartCopy, CopyLamp, EndCopy
<1>4. CASE UNCHANGED vars
  BY <1>4 DEF vars
<1> QED
  BY <1>1, <1>2, <1>3, <1>4 DEF Next

\* What the half-second signal turns is what the second signal lit: the three
\* cases of the one divide the count where the two of the other do.
LEMMA DieIsShown ==
    ASSUME TypeOK PROVE DieWord \subseteq SecondWord
<1> Current_CutDown \in Nat
  BY LampsAssumption DEF TypeOK
<1>1. Xor(words.LED, words.Yellow) = Xor(words.Yellow, words.LED)
  BY DEF Xor
<1>2. CASE Current_CutDown > 6
  BY <1>2 DEF DieWord, SecondWord
<1>3. CASE ~(Current_CutDown > 6) /\ Current_CutDown >= 3
  BY <1>3 DEF DieWord, SecondWord
<1>4. CASE ~(Current_CutDown >= 3)
  <2>1. ~(Current_CutDown > 6)
    BY <1>4
  <2> QED
    BY <1>1, <1>4, <2>1 DEF DieWord, SecondWord
<1> QED
  BY <1>2, <1>3, <1>4

LEMMA HalfStep ==
    ASSUME Inv, [Next]_vars, armed, ~armed', whole PROVE lit' \subseteq lit
<1>1. LED_HalfSec_Display
  BY HalfSignal DEF Inv, CountDown, NextPhase, RepeatPhase
<1>2. lit' = Xor(shown, DieWord) /\ DieWord \subseteq shown /\ lit = shown
  BY <1>1, DieIsShown DEF LED_HalfSec_Display, Inv, ShownInv
<1> QED
  BY <1>2 DEF Xor

\* While the words stand, the half-second signal lights no lamp that the second
\* signal left dark, at any count and under any masks (LED_OP.c:323-351).
THEOREM OnlyDarkens == Spec => HalfOnlyDarkens
<1>1. Inv /\ [Next]_vars => [armed /\ ~armed' /\ whole => lit' \subseteq lit]_vars
  BY HalfStep
<1> QED
  BY <1>1, InvHolds, PTL DEF Spec, HalfOnlyDarkens

-----------------------------------------------------------------------------
(* The end of a phase *)

LEMMA LeavesPhase ==
    ASSUME TypeOK, [Next]_vars, armed, ~armed', Current_PhaseTable' # Current_PhaseTable
    PROVE  NextPhase
BY HalfSignal DEF CountDown, RepeatPhase

\* A phase is left at zero, with lamps shown from its own words: fresh words
\* never stand at zero, because a count of six or more goes before it.
LEMMA LeftAtZero ==
    ASSUME Inv, NextPhase
    PROVE  whole /\ shown = Xor(words.Yellow, words.LED) \cup words.Flash
<1>1. armed /\ Manual_FLAG = 0 /\ Current_CutDown = 0
  BY DEF NextPhase, LED_HalfSec_Display
<1>2. whole
  BY <1>1 DEF Inv, FreshArmedInv
<1> QED
  BY <1>1, <1>2 DEF Inv, ShownInv, SecondWord

LEMMA YellowStep ==
    ASSUME Inv, [Next]_vars, armed, ~armed', Current_PhaseTable' # Current_PhaseTable,
           Sound, Single, NEW l \in Greens(row), wired[l] # 0
    PROVE  /\ wired[l] \notin shown \ words.Flash
           /\ wired[YellowOf(l)] # 0 => wired[YellowOf(l)] \in shown
<1>1. shown = Xor(words.Yellow, words.LED) \cup words.Flash
  BY LeavesPhase, LeftAtZero DEF Inv
<1>t. /\ wired \in [Lamps -> 0 .. Outputs] /\ row \in SUBSET Lamps
      /\ \A i, j \in Lamps : wired[i] # 0 /\ wired[i] = wired[j] => i = j
  BY DEF Inv, TypeOK, Sound
<1>2. wired[l] \in words.LED /\ wired[l] \in words.Yellow
  BY <1>t, GreenInBoth DEF Inv, WordsInv
<1>3. ASSUME wired[YellowOf(l)] # 0 PROVE wired[YellowOf(l)] \in shown
  <2>1. wired[YellowOf(l)] \in words.Yellow
    BY <1>3, <1>t, GreenInBoth DEF Inv, WordsInv
  <2>2. /\ l \in row /\ YellowOf(l) \in Lamps /\ YellowOf(l)[1] = l[1] /\ YellowOf(l)[2] = "Y"
        /\ l[2] = "G"
    BY <1>t, YellowIsLamp DEF Greens
  \* A row that also held the yellow would show the movement two colours.
  <2>3. YellowOf(l) \notin row
    BY <2>2 DEF Single
  <2>4. wired[YellowOf(l)] \notin words.LED
    BY <1>t, <2>2, <2>3, LitByLED DEF Inv, WordsInv
  <2> QED
    BY <1>1, <2>1, <2>4 DEF Xor
<1> QED
  BY <1>1, <1>2, <1>3 DEF Xor

\* No phase is left while a green of it is still shown: task1 has shown its
\* yellow before, whatever the keys did to the count (main.c:176-200).
THEOREM EndsInYellow == Spec => PhaseEndsInYellow
<1>1. Inv /\ [Next]_vars =>
        [armed /\ ~armed' /\ Current_PhaseTable' # Current_PhaseTable /\ Sound /\ Single =>
         \A l \in Greens(row) :
            wired[l] # 0 =>
              /\ wired[l] \notin shown \ words.Flash
              /\ wired[YellowOf(l)] # 0 => wired[YellowOf(l)] \in shown]_vars
  BY YellowStep
<1> QED
  BY <1>1, InvHolds, PTL DEF Spec, PhaseEndsInYellow
=============================================================================

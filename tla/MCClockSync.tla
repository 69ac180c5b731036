---------------------------- MODULE MCClockSync ----------------------------
\* One calibration, to a full hour in a month whose number the chip counts differently.
EXTENDS ClockSync

MCMessages == {[year |-> 2012, mon |-> 9, mday |-> 31, hour |-> 18, min |-> 0, sec |-> 30]}
MCNightfall == [hour |-> 17, min |-> 30, sec |-> 0]
=============================================================================

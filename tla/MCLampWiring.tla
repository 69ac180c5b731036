---------------------------- MODULE MCLampWiring ----------------------------
\* Two crossways of two lamps on two outputs; the factory's wiring has one
\* output twice, as the code's has.
EXTENDS LampWiring

MCFactory == [c \in Crossways |-> [i \in ColourSet |-> IF c = 0 THEN i + 1 ELSE 2 * i]]
=============================================================================

---------------------------- MODULE MCLampWords ----------------------------
\* One movement of cars and one of pedestrians that take turns.
EXTENDS LampWords

CONSTANTS car, walk

MCOrder == << <<car, "G">>, <<walk, "G">>, <<car, "Y">>, <<car, "R">>, <<walk, "R">> >>
MCRows  == << {<<car, "G">>, <<walk, "R">>}, {<<car, "R">>, <<walk, "G">>} >>

Wire(g, wg, y, r, wr) ==
    [l \in Lamps |-> CASE l = <<car, "G">> -> g [] l = <<walk, "G">> -> wg
                       [] l = <<car, "Y">> -> y [] l = <<car, "R">> -> r
                       [] l = <<walk, "R">> -> wr]

\* Green and yellow change places; a lamp without output.  The dialogs let the
\* operator mark red lamps too.
MCWirings == {Wire(1, 2, 3, 4, 5), Wire(3, 2, 1, 4, 0)}
MCMasks   == {{}, {<<car, "G">>, <<car, "Y">>, <<car, "R">>, <<walk, "G">>}}
=============================================================================

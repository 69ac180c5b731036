----------------------------- MODULE MCLampBus -----------------------------
(***************************************************************************)
(* Instances of LampBus: three latches of six lamps, of which the lamp     *)
(* test reaches two, enough for its steps of ten.  Rows are what task1     *)
(* shows in two phases; each group has a row of its own.                   *)
(***************************************************************************)
EXTENDS LampBus, TLC

MCRows == { 1 :> {0} @@ 2 :> {1} @@ 3 :> {2},
            1 :> {3} @@ 2 :> {3} @@ 3 :> {0, 2} }
=============================================================================

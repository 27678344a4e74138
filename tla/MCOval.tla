------------------------------- MODULE MCOval -------------------------------
(***************************************************************************)
(* Simulation and controller on a small layout: an oval of Z, the switch E, *)
(* the parallel sections P and Q, and the switch X.  The coils of E sit on   *)
(* two boards, as those of A_a do in layout.hpp.  The table has one mistake *)
(* (Q names Z for its end instead of X): on its way through P the train     *)
(* goes round for ever, through Q it gets lost.                             *)
(***************************************************************************)
EXTENDS Expander

OvalSections == <<"E", "P", "Q", "X", "Z">>
OvalId       == Range(OvalSections)
OvalSwitches == {"E", "X"}
OvalA        == [E |-> "P", P |-> "E", Q |-> "E", X |-> "P", Z |-> "X"]
OvalB        == [E |-> "Q", P |-> "X", Q |-> "Z", X |-> "Q", Z |-> "E"]
OvalCommon   == [E |-> "Z", X |-> "Z"]
io(b, bit) == [board |-> b, bit_pos |-> bit]
OvalPosition == [board : 0..1, bit_pos : 0..4]
OvalPower    == [E |-> io(0, 0), P |-> io(0, 2), Q |-> io(1, 1), X |-> io(1, 2), Z |-> io(1, 4)]
OvalStraight == [E |-> io(0, 1), X |-> io(0, 3)]
OvalCurved   == [E |-> io(1, 0), X |-> io(0, 4)]

(* As long as the train is not lost the boards power section Z again and   *)
(* again, whatever the button does: neither fiber, nor the DMA, nor the     *)
(* clock ever waits for good.                                               *)
PowerArrives == []<>(PoweredOutputs = {"Z"}) \/ <>(pc = "ended")
=============================================================================

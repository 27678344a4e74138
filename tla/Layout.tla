------------------------------- MODULE Layout -------------------------------
(***************************************************************************)
(* The constant table `tracks` of modellbahn/track/layout.hpp.              *)
(***************************************************************************)
EXTENDS Naturals, Sequences, Functions

(* enum class trackid, in the order of the table `tracks` *)
trackid == <<"A_d", "A_c", "A_1a", "A_1b", "A_a", "A_2a", "A_2b", "A_b", "A_3a", "A_3b",
             "B_1a", "C_a", "C_1a", "C_1b", "C_2a", "C_2b", "C_b", "C_c", "C_3a", "C_3b",
             "C_3c", "D_1a">>

io(board, bit) == [board |-> board, bit_pos |-> bit]

straight(power, a, b) == [power |-> power, a |-> a, b |-> b]
switch_track(power, a, b, common, str, cur) ==
    [power |-> power, a |-> a, b |-> b, common |-> common, straight |-> str, curved |-> cur]

tracks == [
    A_d  |-> switch_track(io(0, 1), "A_c", "A_3a", "D_1a", io(1, 3), io(1, 4)),
    A_c  |-> switch_track(io(0, 2), "A_1a", "A_2a", "A_d", io(1, 5), io(1, 6)),
    A_1a |-> straight(io(0, 3), "A_c", "A_1b"),
    A_1b |-> straight(io(0, 4), "A_1a", "A_a"),
    A_a  |-> switch_track(io(0, 5), "A_1b", "A_b", "B_1a", io(1, 7), io(2, 0)),
    A_2a |-> straight(io(0, 6), "A_c", "A_2b"),
    A_2b |-> straight(io(0, 7), "A_2a", "A_b"),
    A_b  |-> switch_track(io(1, 0), "A_3b", "A_2b", "A_a", io(2, 1), io(2, 2)),
    A_3a |-> straight(io(1, 1), "A_d", "A_3b"),
    A_3b |-> straight(io(1, 2), "A_3a", "A_b"),
    B_1a |-> straight(io(3, 0), "A_a", "C_a"),
    C_a  |-> switch_track(io(4, 0), "C_2a", "C_1a", "B_1a", io(5, 2), io(5, 3)),
    C_1a |-> straight(io(4, 1), "C_a", "C_1b"),
    C_1b |-> straight(io(4, 2), "C_1a", "C_b"),
    C_2a |-> straight(io(4, 3), "C_a", "C_2b"),
    C_2b |-> straight(io(4, 4), "C_2a", "C_b"),
    C_b  |-> switch_track(io(4, 5), "C_1b", "C_2b", "C_c", io(5, 4), io(5, 5)),
    C_c  |-> switch_track(io(4, 6), "C_b", "C_3c", "D_1a", io(5, 6), io(5, 7)),
    C_3a |-> straight(io(4, 7), "C_3b", "C_3b"),
    C_3b |-> straight(io(5, 0), "C_3a", "C_3c"),
    C_3c |-> straight(io(5, 1), "C_3b", "C_c"),
    D_1a |-> straight(io(0, 0), "C_c", "A_d")]

LayoutId       == Range(trackid)
LayoutSwitches == {t \in LayoutId : "common" \in DOMAIN tracks[t]}
LayoutA        == [t \in LayoutId |-> tracks[t].a]
LayoutB        == [t \in LayoutId |-> tracks[t].b]
LayoutCommon   == [t \in LayoutSwitches |-> tracks[t].common]
LayoutPower    == [t \in LayoutId |-> tracks[t].power]
LayoutStraight == [t \in LayoutSwitches |-> tracks[t].straight]
LayoutCurved   == [t \in LayoutSwitches |-> tracks[t].curved]

(* The outputs of the seven boards of controller.hpp, one byte each *)
LayoutPosition == [board : 0..6, bit_pos : 0..7]
=============================================================================

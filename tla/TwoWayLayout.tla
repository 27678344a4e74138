---------------------------- MODULE TwoWayLayout ----------------------------
(***************************************************************************)
(* The simulation on a layout whose table is mutual: whenever a section     *)
(* names another as its end, the other names it back.  Nothing in the code   *)
(* checks that of a table; here it is an assumption, which TLC verifies for  *)
(* the table of layout.hpp, and the properties the program owes to it.       *)
(***************************************************************************)
EXTENDS Simulation

ASSUME MutualAssumption ==
    /\ \A t, u \in Id : u \in Neighbours(t) => t \in Neighbours(u)
    /\ start_last \in Neighbours(start_current)

(* The train never runs off the table: it always stands on a section next  *)
(* to the one it came from, so next_tracks always knows a way on and the   *)
(* "Next track not found" branch of simulation.cpp:20 stays dead.          *)
OnRails == pc = "run" /\ last_track \in Neighbours(current_track)

(* The leg of switch s that position joins to its common end *)
ActiveLeg(s, position) ==
    IF position = "STRAIGHT" THEN track_a[s]
    ELSE IF position = "CURVED" THEN track_b[s] ELSE INVALID

(* A train that leaves a switch leaves points that join exactly the two    *)
(* sections it came from and goes to, also when it trails them: the way    *)
(* make_way_to sets is the way next_track then reports.                    *)
PointsLieFor(s, from, to) == {from, to} = {ActiveLeg(s, state'[s]), track_common[s]}
PointsJoinRoute ==
    [][(current_track \in Switches) => PointsLieFor(current_track, last_track, current_track')]_<<last_track, current_track>>

(* The pairs of neighbours that the rails of section t join *)
JoinedBy ==
    [t \in Id |->
        IF t \in Switches
        THEN {{track_a[t], track_common[t]}, {track_b[t], track_common[t]}}
        ELSE {{track_a[t], track_b[t]}}]

(* The program's train is a train on the rails of the plan: it never jumps, *)
(* never crosses from one leg of a switch to the other, never stops.        *)
Rails == INSTANCE TrainWalk WITH Section <- Id, Joined <- JoinedBy,
            StartHead <- start_current, StartTail <- start_last,
            head <- current_track, tail <- last_track
FollowsRails == Rails!Spec
=============================================================================

-------------------------- MODULE Simulation_proofs --------------------------
(***************************************************************************)
(* What holds of the simulation for every layout, not only for the table of *)
(* layout.hpp.                                                               *)
(***************************************************************************)
EXTENDS TwoWayLayout, TLAPS

(* `to` is one of the ways on that next_tracks offers *)
Offered(t, from, to) == to # INVALID /\ to \in {next_tracks(t, from)[1], next_tracks(t, from)[2]}

-----------------------------------------------------------------------------
(* Every way offered is a neighbour of the section. *)
LEMMA OfferedIsNeighbour ==
    ASSUME NEW t \in Id, NEW from \in Id, NEW to, Offered(t, from, to)
    PROVE  to \in Neighbours(t) /\ to \in Id
BY LayoutAssumption DEF Offered, next_tracks, StraightNext, Neighbours

(* The two ways to ask for the way on agree: after make_way_to(to) the     *)
(* section's next_track is `to`, for every way next_tracks offers.         *)
LEMMA WayMadeIsWayTaken ==
    ASSUME NEW t \in Id, NEW from \in Id, NEW to, NEW position,
           Offered(t, from, to)
    PROVE  next_track(t, make_way_to(t, position, to, from), from) = to
<1>1. CASE t \notin Switches
  BY <1>1, LayoutAssumption DEF Offered, next_tracks, next_track, StraightNext
<1>2. CASE t \in Switches /\ from = track_common[t]
  <2>1. to \in {track_a[t], track_b[t]}
    BY <1>2 DEF Offered, next_tracks
  <2>2. make_way_to(t, position, to, from) = IF to = track_a[t] THEN "STRAIGHT" ELSE "CURVED"
    BY <1>2, <2>1 DEF make_way_to, PointsFor
  <2> QED
    BY <1>2, <2>1, <2>2 DEF next_track, SwitchNext
<1>3. CASE t \in Switches /\ from # track_common[t]
  <2>1. from \in {track_a[t], track_b[t]} /\ to = track_common[t]
    BY <1>3 DEF Offered, next_tracks
  <2> QED
    BY <1>3, <2>1 DEF next_track, SwitchNext
<1> QED
  BY <1>1, <1>2, <1>3

(* A way made leaves the points of a switch on one of its two legs.        *)
LEMMA WayMadeIsPosition ==
    ASSUME NEW t \in Switches, NEW from, NEW to, NEW position \in SwitchState
    PROVE  make_way_to(t, position, to, from) \in SwitchState
BY DEF make_way_to, PointsFor, SwitchState

-----------------------------------------------------------------------------
(* A round moves the train to the way it selected, and that is a section.  *)
(* This is so however its writes to the buffer are split up.                *)
LEMMA MoveMoves ==
    ASSUME TypeOK, NEW pressed \in BOOLEAN, MoveTrain(pressed)
    PROVE  /\ Offered(current_track, last_track, select(pressed))
           /\ current_track' = select(pressed)
           /\ last_track' = current_track
           /\ current_track' \in Id
<1> DEFINE t == current_track
           way == select(pressed)
<1>1. Offered(t, last_track, way)
  BY DEF MoveTrain, PowerSet, select, possible_ways, Offered
<1>2. t \in Id /\ last_track \in Id
  BY DEF TypeOK
<1>3. way \in Id
  BY <1>1, <1>2, OfferedIsNeighbour
<1>4. CASE t \in Switches
  <2>1. PositionOf(PointsSet(pressed), t) = make_way_to(t, state[t], way, last_track)
    BY <1>4 DEF PositionOf, PointsSet
  <2>2. next_track(t, PositionOf(PointsSet(pressed), t), last_track) = way
    BY <1>1, <1>2, <2>1, WayMadeIsWayTaken
  <2> QED
    BY <1>1, <1>3, <2>2 DEF MoveTrain, PowerSet
<1>5. CASE t \notin Switches
  <2>1. next_track(t, PositionOf(PointsSet(pressed), t), last_track)
          = next_track(t, make_way_to(t, "UNKNOWN", way, last_track), last_track)
    BY <1>5 DEF next_track
  <2>2. next_track(t, PositionOf(PointsSet(pressed), t), last_track) = way
    BY <1>1, <1>2, <2>1, WayMadeIsWayTaken
  <2> QED
    BY <1>1, <1>3, <2>2 DEF MoveTrain, PowerSet
<1> QED
  BY <1>4, <1>5

LEMMA RoundMoves ==
    ASSUME TypeOK, NEW pressed \in BOOLEAN, Round(pressed)
    PROVE  /\ Offered(current_track, last_track, select(pressed))
           /\ current_track' = select(pressed)
           /\ last_track' = current_track
           /\ current_track' \in Id
BY MoveMoves DEF Round

LEMMA MoveTypes ==
    ASSUME TypeOK, NEW pressed \in BOOLEAN, MoveTrain(pressed)
    PROVE  /\ pc' = "run"
           /\ current_track' \in Id /\ last_track' \in Id
           /\ state' \in [Switches -> SwitchState]
           /\ powerstate' \subseteq Id
<1>1. current_track' \in Id /\ last_track' \in Id
  BY MoveMoves DEF TypeOK
<1>2. \A s \in Switches : PointsSet(pressed)[s] \in SwitchState
  BY WayMadeIsPosition DEF PointsSet, TypeOK
<1>3. state' \in [Switches -> SwitchState]
  BY <1>2 DEF MoveTrain, PointsSet
<1>4. powerstate' \subseteq Id
  BY <1>1 DEF MoveTrain, PowerSet, TypeOK
<1> QED  BY <1>1, <1>3, <1>4 DEF MoveTrain

(* What the writes of a round leave: power where it is on, and the coil of  *)
(* every switch that was set.                                               *)
LEMMA WrittenPower ==
    ASSUME NEW buffer, NEW on \in SUBSET Id, NEW points, NEW t \in Id
    PROVE  power_pos[t] \in Written(buffer, on, points) <=> t \in on
BY WiringAssumption DEF Written

LEMMA WrittenCoils ==
    ASSUME NEW buffer, NEW on \in SUBSET Id, NEW points \in [Switches -> SwitchState],
           NEW s \in Switches, points[s] # "UNKNOWN"
    PROVE  /\ straight_pos[s] \in Written(buffer, on, points) <=> points[s] = "STRAIGHT"
           /\ curved_pos[s] \in Written(buffer, on, points) <=> points[s] = "CURVED"
BY WiringAssumption DEF Written, SwitchState

LEMMA UnknownCoilsStay ==
    ASSUME NEW buffer, NEW on \in SUBSET Id, NEW points \in [Switches -> SwitchState],
           NEW s \in Switches, points[s] = "UNKNOWN"
    PROVE  /\ straight_pos[s] \in Written(buffer, on, points) <=> straight_pos[s] \in buffer
           /\ curved_pos[s] \in Written(buffer, on, points) <=> curved_pos[s] \in buffer
BY WiringAssumption DEF Written

(* Type correctness: in particular the section looked up by tracks[next_id] *)
(* (simulation.cpp:42) is never trackid::INVALID, on any layout whatever.   *)
THEOREM TypeCorrect == Spec => []TypeOK
<1>1. Init => TypeOK
  BY StartAssumption DEF Init, TypeOK, SwitchState
<1>2. TypeOK /\ [Next]_vars => TypeOK'
  <2> SUFFICES ASSUME TypeOK, [Next]_vars PROVE TypeOK'
    OBVIOUS
  <2>1. ASSUME NEW pressed \in BOOLEAN, Round(pressed) PROVE TypeOK'
    <3>1. out_buffer' \subseteq Position
      BY <2>1, MoveTypes, WiringAssumption DEF Round, Written, TypeOK
    <3> QED
      BY <2>1, <3>1, MoveTypes DEF Round, TypeOK
  <2>2. CASE NotFound
    BY <2>2 DEF NotFound, TypeOK
  <2>3. CASE UNCHANGED vars
    BY <2>3 DEF vars, TypeOK
  <2> QED
    BY <2>1, <2>2, <2>3 DEF Next
<1> QED
  BY <1>1, <1>2, PTL DEF Spec

-----------------------------------------------------------------------------
(* A train next to the section it came from always finds a way on.         *)
LEMMA NotFoundIsDead ==
    ASSUME TypeOK, OnRails
    PROVE  ~NotFound
BY LayoutAssumption DEF NotFound, possible_ways, next_tracks, StraightNext, OnRails, Neighbours, TypeOK

(* The train never runs off a layout whose table is mutual, however long it *)
(* runs and whatever the button does.                                       *)
THEOREM NeverDerails == Spec => []OnRails
<1>1. Init => OnRails
  BY MutualAssumption DEF Init, OnRails
<1>2. TypeOK /\ OnRails /\ [Next]_vars => OnRails'
  <2> SUFFICES ASSUME TypeOK, OnRails, [Next]_vars PROVE OnRails'
    OBVIOUS
  <2>1. ASSUME NEW pressed \in BOOLEAN, Round(pressed) PROVE OnRails'
    <3>1. /\ current_track' \in Neighbours(current_track)
          /\ current_track' \in Id
          /\ last_track' = current_track
      BY <2>1, RoundMoves, OfferedIsNeighbour DEF TypeOK
    <3>2. current_track \in Neighbours(current_track')
      BY <3>1, MutualAssumption DEF TypeOK
    <3> QED
      BY <2>1, <3>1, <3>2 DEF Round, MoveTrain, PowerSet, OnRails
  <2>2. ~NotFound
    BY NotFoundIsDead
  <2>3. CASE UNCHANGED vars
    BY <2>3 DEF vars, OnRails
  <2> QED
    BY <2>1, <2>2, <2>3 DEF Next
<1> QED
  BY <1>1, <1>2, TypeCorrect, PTL DEF Spec

-----------------------------------------------------------------------------
(* Exactly the train's section has traction power, in the tracks' state and *)
(* in the buffer, on every layout whose outputs have one user each.         *)
THEOREM PowerExclusive == Spec => []OnlyTrainPowered
<1>1. Init => OnlyTrainPowered
  BY DEF Init, OnlyTrainPowered
<1>2. TypeOK /\ TypeOK' /\ OnlyTrainPowered /\ [Next]_vars => OnlyTrainPowered'
  <2> SUFFICES ASSUME TypeOK, TypeOK', OnlyTrainPowered, [Next]_vars PROVE OnlyTrainPowered'
    OBVIOUS
  <2>1. ASSUME NEW pressed \in BOOLEAN, Round(pressed) PROVE OnlyTrainPowered'
    <3>1. powerstate' = {current_track'}
      BY <2>1 DEF Round, MoveTrain, PowerSet, OnlyTrainPowered
    <3>2. ASSUME NEW t \in Id
          PROVE  power_pos[t] \in out_buffer' <=> t \in powerstate'
      BY <2>1, WrittenPower DEF Round, TypeOK
    <3> QED
      BY <3>1, <3>2 DEF OnlyTrainPowered
  <2>2. CASE NotFound
    BY <2>2 DEF NotFound, OnlyTrainPowered
  <2>3. CASE UNCHANGED vars
    BY <2>3 DEF vars, OnlyTrainPowered
  <2> QED
    BY <2>1, <2>2, <2>3 DEF Next
<1> QED
  BY <1>1, <1>2, TypeCorrect, PTL DEF Spec

(* Points never become unknown again once they were set.                   *)
LEMMA PointsStayKnown ==
    ASSUME TypeOK, NEW pressed \in BOOLEAN, MoveTrain(pressed), NEW s \in Switches,
           state[s] # "UNKNOWN"
    PROVE  state'[s] # "UNKNOWN"
BY DEF TypeOK, MoveTrain, PointsSet, make_way_to, PointsFor, SwitchState

(* The buffer drives exactly the coil that a switch's points call for.     *)
THEOREM CoilsExclusive == Spec => []CoilsFollowPoints
<1>1. Init => CoilsFollowPoints
  BY DEF Init, CoilsFollowPoints
<1>2. TypeOK /\ TypeOK' /\ CoilsFollowPoints /\ [Next]_vars => CoilsFollowPoints'
  <2> SUFFICES ASSUME TypeOK, TypeOK', CoilsFollowPoints, [Next]_vars PROVE CoilsFollowPoints'
    OBVIOUS
  <2>1. ASSUME NEW pressed \in BOOLEAN, Round(pressed) PROVE CoilsFollowPoints'
    <3> SUFFICES ASSUME NEW s \in Switches
                 PROVE  /\ straight_pos[s] \in out_buffer' <=> state'[s] = "STRAIGHT"
                        /\ curved_pos[s] \in out_buffer' <=> state'[s] = "CURVED"
      BY DEF CoilsFollowPoints
    <3>1. out_buffer' = Written(out_buffer, powerstate', state')
      BY <2>1 DEF Round, MoveTrain, PowerSet
    <3>2. state'[s] \in SwitchState /\ powerstate' \subseteq Id
      BY DEF TypeOK
    <3>3. CASE state'[s] = "UNKNOWN"
      <4>1. state[s] = "UNKNOWN"
        BY <2>1, <3>3, PointsStayKnown DEF Round
      <4>2. straight_pos[s] \notin out_buffer /\ curved_pos[s] \notin out_buffer
        BY <4>1 DEF CoilsFollowPoints
      <4> QED
        BY <3>1, <3>2, <3>3, <4>2, UnknownCoilsStay DEF TypeOK
    <3>4. CASE state'[s] # "UNKNOWN"
      BY <3>1, <3>2, <3>4, WrittenCoils DEF TypeOK
    <3> QED
      BY <3>3, <3>4
  <2>2. CASE NotFound
    BY <2>2 DEF NotFound, CoilsFollowPoints
  <2>3. CASE UNCHANGED vars
    BY <2>3 DEF vars, CoilsFollowPoints
  <2> QED
    BY <2>1, <2>2, <2>3 DEF Next
<1> QED
  BY <1>1, <1>2, TypeCorrect, PTL DEF Spec

-----------------------------------------------------------------------------
(* Every move of the program's train is a move along the rails: the safety *)
(* half of the refinement FollowsRails.                                     *)
THEOREM StaysOnRails == Spec => Rails!SafeSpec
<1>1. Init => Rails!Init
  BY DEF Init, Rails!Init
<1>2. TypeOK /\ [Next]_vars => [Rails!Move]_<<current_track, last_track>>
  <2> SUFFICES ASSUME TypeOK, [Next]_vars
               PROVE  [Rails!Move]_<<current_track, last_track>>
    OBVIOUS
  <2>1. ASSUME NEW pressed \in BOOLEAN, Round(pressed) PROVE Rails!Move
    <3>1. /\ Offered(current_track, last_track, current_track')
          /\ current_track' \in Id
          /\ last_track' = current_track
      BY <2>1, RoundMoves
    <3>2. {last_track, current_track'} \in JoinedBy[current_track]
      BY <3>1, LayoutAssumption DEF Offered, next_tracks, StraightNext, JoinedBy, TypeOK
    <3> QED
      BY <3>1, <3>2 DEF Rails!Move
  <2>2. CASE NotFound
    BY <2>2 DEF NotFound
  <2>3. CASE UNCHANGED vars
    BY <2>3 DEF vars
  <2> QED
    BY <2>1, <2>2, <2>3 DEF Next
<1> QED
  BY <1>1, <1>2, TypeCorrect, PTL DEF Spec, Rails!SafeSpec

(* The points a round leaves at a switch join the way in and the way out.  *)
LEMMA RoundSetsPoints ==
    ASSUME TypeOK, NEW pressed \in BOOLEAN, MoveTrain(pressed), current_track \in Switches
    PROVE  PointsLieFor(current_track, last_track, current_track')
<1> DEFINE s == current_track
           way == select(pressed)
<1>1. current_track' = way /\ Offered(s, last_track, way)
  BY MoveMoves
<1>2. state'[s] = make_way_to(s, state[s], way, last_track)
  BY DEF MoveTrain, PointsSet
<1>3. CASE last_track = track_common[s]
  <2>1. way \in {track_a[s], track_b[s]}
    BY <1>1, <1>3 DEF Offered, next_tracks
  <2>2. ActiveLeg(s, state'[s]) = way
    BY <1>2, <1>3, <2>1 DEF make_way_to, PointsFor, ActiveLeg
  <2> QED
    BY <1>1, <1>3, <2>2 DEF PointsLieFor
<1>4. CASE last_track # track_common[s]
  <2>1. last_track \in {track_a[s], track_b[s]} /\ way = track_common[s]
    BY <1>1, <1>4 DEF Offered, next_tracks
  <2>2. ActiveLeg(s, state'[s]) = last_track
    BY <1>2, <1>4, <2>1 DEF make_way_to, PointsFor, ActiveLeg
  <2> QED
    BY <1>1, <2>1, <2>2 DEF PointsLieFor
<1> QED
  BY <1>3, <1>4

(* Whenever the train leaves a switch, its points join the section it came *)
(* from and the one it enters.                                              *)
THEOREM PointsAlwaysJoinRoute == Spec => PointsJoinRoute
<1>1. TypeOK /\ [Next]_vars
        => [(current_track \in Switches)
              => PointsLieFor(current_track, last_track, current_track')]_<<last_track, current_track>>
  BY RoundSetsPoints DEF Next, Round, NotFound, vars
<1> QED
  BY <1>1, TypeCorrect, PTL DEF Spec, PointsJoinRoute
=============================================================================

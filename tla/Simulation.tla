----------------------------- MODULE Simulation -----------------------------
(***************************************************************************)
(* The `simulation` fiber of modellbahn/src/simulation.cpp.  Once every     *)
(* 100 ms it moves a simulated train by one section: it asks the section    *)
(* under the train for the ways on, lets the button choose between two, sets *)
(* the points, moves, switches the traction power and writes the wanted      *)
(* outputs to the expander's buffer.  The fiber yields only in sleep_for, so *)
(* one round of its loop is one step here; Expander.tla splits the writes    *)
(* of the buffer from each other, because the DMA reads them meanwhile.      *)
(***************************************************************************)
EXTENDS Track

CONSTANTS
    start_last, start_current,  \* where the train starts
    Position,                   \* ioposition: the outputs of all boards
    power_pos,                  \* traction power of a section
    straight_pos, curved_pos    \* the two coils of a switch

ASSUME StartAssumption == start_last \in Id /\ start_current \in Id

(* No output has two users, so the order of the writes of a round is       *)
(* immaterial to their result.                                             *)
ASSUME WiringAssumption ==
    /\ power_pos \in [Id -> Position]
    /\ straight_pos \in [Switches -> Position]
    /\ curved_pos \in [Switches -> Position]
    /\ \A t, u \in Id : power_pos[t] = power_pos[u] => t = u
    /\ \A s, t \in Switches : straight_pos[s] = straight_pos[t] => s = t
    /\ \A s, t \in Switches : curved_pos[s] = curved_pos[t] => s = t
    /\ \A s, t \in Switches : straight_pos[s] # curved_pos[t]
    /\ \A t \in Id, s \in Switches : power_pos[t] \notin {straight_pos[s], curved_pos[s]}

VARIABLES
    pc,             \* "run", or "ended" once the loop was left
    last_track,     \* section the train came from
    current_track,  \* section under the train
    state,          \* points of every switch
    powerstate,     \* the sections whose powerstate is ON
    out_buffer      \* the outputs that are 1 in controller::out_buffer
vars == <<pc, last_track, current_track, state, powerstate, out_buffer>>

Init ==
    /\ pc = "run"
    /\ last_track = start_last
    /\ current_track = start_current
    /\ state = [s \in Switches |-> "UNKNOWN"]
    /\ powerstate = {}
    /\ out_buffer = {}

-----------------------------------------------------------------------------
(* The ways on from here *)
possible_ways == next_tracks(current_track, last_track)

(* The way taken: the second one only while the button is pressed *)
select(pressed) ==
    IF possible_ways[2] # INVALID /\ pressed THEN possible_ways[2] ELSE possible_ways[1]

(* The points after current_track->make_way_to(select, last_track->id) *)
PointsSet(pressed) ==
    [s \in Switches |->
        IF s = current_track
        THEN make_way_to(s, state[s], select(pressed), last_track)
        ELSE state[s]]

PositionOf(points, t) == IF t \in Switches THEN points[t] ELSE "UNKNOWN"

(* What the loop over all sections leaves in the buffer; the coils of a    *)
(* switch whose points are still UNKNOWN are not written.                  *)
Written(buffer, on, points) ==
    LET known == {s \in Switches : points[s] # "UNKNOWN"}
        high  == {power_pos[t] : t \in on \cap Id}
                   \cup {straight_pos[s] : s \in {r \in Switches : points[r] = "STRAIGHT"}}
                   \cup {curved_pos[s] : s \in {r \in Switches : points[r] = "CURVED"}}
        target == {power_pos[t] : t \in Id}
                   \cup {straight_pos[s] : s \in known} \cup {curved_pos[s] : s \in known}
    IN (buffer \ target) \cup high

(* last_track OFF, then the new current_track ON *)
PowerSet(next_id) == (powerstate \ {current_track}) \cup {next_id}

(* The round up to the buffer: points, train, traction power               *)
MoveTrain(pressed) ==
    LET points  == PointsSet(pressed)
        next_id == next_track(current_track, PositionOf(points, current_track), last_track)
    IN /\ pc = "run"
       /\ possible_ways[1] # INVALID
       /\ state' = points
       /\ last_track' = current_track
       /\ current_track' = next_id
       /\ powerstate' = PowerSet(next_id)
       /\ UNCHANGED pc

(* One round of the loop *)
Round(pressed) ==
    /\ MoveTrain(pressed)
    /\ out_buffer' = Written(out_buffer, powerstate', state')

(* "Next track not found": the loop is left and the fiber ends *)
NotFound ==
    /\ pc = "run"
    /\ possible_ways[1] = INVALID
    /\ pc' = "ended"
    /\ UNCHANGED <<last_track, current_track, state, powerstate, out_buffer>>

Next == (\E pressed \in BOOLEAN : Round(pressed)) \/ NotFound

(* sleep_for(100ms) always ends, so the loop goes on for ever *)
Spec == Init /\ [][Next]_vars /\ WF_vars(Next)

-----------------------------------------------------------------------------
TypeOK ==
    /\ pc \in {"run", "ended"}
    /\ last_track \in Id
    /\ current_track \in Id
    /\ state \in [Switches -> SwitchState]
    /\ powerstate \subseteq Id
    /\ out_buffer \subseteq Position

(* Traction power is on in the train's section and nowhere else, in the    *)
(* state of the tracks and in the buffer for the expander alike.           *)
OnlyTrainPowered ==
    /\ powerstate \subseteq {current_track}
    /\ \A t \in Id : power_pos[t] \in out_buffer <=> t \in powerstate

(* The buffer asks for exactly the coil of every switch's points, so never *)
(* for both coils of one switch.                                           *)
CoilsFollowPoints ==
    \A s \in Switches :
        /\ straight_pos[s] \in out_buffer <=> state[s] = "STRAIGHT"
        /\ curved_pos[s] \in out_buffer <=> state[s] = "CURVED"
=============================================================================

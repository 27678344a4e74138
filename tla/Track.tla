-------------------------------- MODULE Track --------------------------------
(***************************************************************************)
(* The track classes of modellbahn/track: a layout is a table of sections, *)
(* each a `straight` with two ends or a `switch_track` with two legs and a  *)
(* common end.  The operators are the virtual methods of the two classes;   *)
(* `position` is the switch_track member `state`, which straights lack.     *)
(***************************************************************************)
EXTENDS Sequences

CONSTANTS
    Id,             \* the sections of the layout
    INVALID,        \* trackid::INVALID
    Switches,       \* the sections that are a switch_track
    track_a,        \* first end of every section (straight leg of a switch)
    track_b,        \* second end of every section (curved leg of a switch)
    track_common    \* common end of every switch

ASSUME LayoutAssumption ==
    /\ INVALID \notin Id
    /\ Switches \subseteq Id
    /\ track_a \in [Id -> Id]
    /\ track_b \in [Id -> Id]
    /\ track_common \in [Switches -> Id]

(* enum class switch_state *)
SwitchState == {"STRAIGHT", "CURVED", "UNKNOWN"}

Neighbours(t) ==
    {track_a[t], track_b[t]} \cup (IF t \in Switches THEN {track_common[t]} ELSE {})

-----------------------------------------------------------------------------
(* Mutant: a straight sends the train back where it came from *)
StraightNext_Back(t, previous) ==
    IF previous \in {track_a[t], track_b[t]} THEN previous ELSE INVALID

(* straight::next_track *)
StraightNext(t, previous) ==
    IF previous = track_a[t] THEN track_b[t]
    ELSE IF previous = track_b[t] THEN track_a[t] ELSE INVALID

(* Mutant: from a leg the other leg is taken for the way on *)
SwitchNext_CrossesLegs(t, position, previous) ==
    IF previous = track_a[t] THEN track_b[t]
    ELSE IF previous = track_b[t] THEN track_a[t]
    ELSE IF previous # track_common[t] THEN INVALID
    ELSE IF position = "STRAIGHT" THEN track_a[t] ELSE track_b[t]
(* Mutant: the CURVED case is forgotten *)
SwitchNext_NoCurved(t, position, previous) ==
    IF previous \in {track_a[t], track_b[t]} THEN track_common[t]
    ELSE IF previous = track_common[t] /\ position = "STRAIGHT" THEN track_a[t] ELSE INVALID

(* switch_track::next_track: from the common end the points decide *)
SwitchNext(t, position, previous) ==
    IF previous = track_common[t]
    THEN IF position = "STRAIGHT" THEN track_a[t]
         ELSE IF position = "CURVED" THEN track_b[t] ELSE INVALID
    ELSE IF previous \in {track_a[t], track_b[t]} THEN track_common[t] ELSE INVALID

(* The virtual call track::next_track *)
next_track(t, position, previous) ==
    IF t \in Switches THEN SwitchNext(t, position, previous) ELSE StraightNext(t, previous)

(* Mutant: the way on from the straight leg is forgotten *)
next_tracks_NoStraight(t, previous) ==
    IF t \in Switches /\ previous = track_common[t]
    THEN <<track_a[t], track_b[t], INVALID>>
    ELSE IF t \in Switches /\ previous = track_b[t]
    THEN <<track_common[t], INVALID, INVALID>>
    ELSE <<IF t \in Switches THEN INVALID ELSE StraightNext(t, previous), INVALID, INVALID>>

(* next_tracks of both classes: the ways on, whatever the points say *)
next_tracks(t, previous) ==
    IF t \in Switches /\ previous = track_common[t]
    THEN <<track_a[t], track_b[t], INVALID>>
    ELSE IF t \in Switches /\ previous \in {track_a[t], track_b[t]}
    THEN <<track_common[t], INVALID, INVALID>>
    ELSE <<IF t \in Switches THEN INVALID ELSE StraightNext(t, previous), INVALID, INVALID>>

(* The leg of switch t that `leg` lies on; the points stay when on neither *)
PointsFor(t, position, leg) ==
    IF leg = track_a[t] THEN "STRAIGHT" ELSE IF leg = track_b[t] THEN "CURVED" ELSE position

(* Mutant: points are set from the common end only, trailed points stay *)
make_way_to_NotTrailed(t, position, to, from) ==
    IF from = track_common[t] THEN PointsFor(t, position, to) ELSE position

(* make_way_to: the points of t afterwards (a straight has none) *)
make_way_to(t, position, to, from) ==
    IF from = track_common[t] THEN PointsFor(t, position, to)
    ELSE IF to = track_common[t] THEN PointsFor(t, position, from) ELSE position
=============================================================================

------------------------------ MODULE TrainWalk ------------------------------
(***************************************************************************)
(* What the track plan promises, told without the program's methods: rails  *)
(* join certain pairs of neighbours through a section (both ends of a        *)
(* straight; each leg of a switch with its common end, but never the two     *)
(* legs with each other), and a train moves on through the far end of such a *)
(* pair.  A train that can move does move on.                                *)
(***************************************************************************)
CONSTANTS Section, Joined, StartTail, StartHead

VARIABLES head, tail

(* Joined[t]: the pairs {u, v} of neighbours that t joins by rail *)
Init == head = StartHead /\ tail = StartTail

Move ==
    \E n \in Section :
        /\ {tail, n} \in Joined[head]
        /\ tail' = head
        /\ head' = n

SafeSpec == Init /\ [][Move]_<<head, tail>>
Spec == SafeSpec /\ WF_<<head, tail>>(Move)
=============================================================================

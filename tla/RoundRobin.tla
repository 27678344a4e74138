------------------------------ MODULE RoundRobin ------------------------------
(***************************************************************************)
(* What the fiber scheduler promises (scheduler.hpp:24-27): a queue of the   *)
(* fibers that run.  The first one has the processor; giving it up sends it  *)
(* to the end of the queue, returning from its function removes it, and a    *)
(* fiber that is started goes to the end.                                    *)
(***************************************************************************)
EXTENDS Sequences, SequencesExt

CONSTANT Fibers

VARIABLES
    queue,   \* the fibers that run, the one whose turn it is first
    active   \* the scheduler has been started

vars == <<queue, active>>

Init == queue = <<>> /\ active = FALSE

Start(f) == ~Contains(queue, f) /\ queue' = Append(queue, f) /\ UNCHANGED active
Run      == ~active /\ queue # <<>> /\ active' = TRUE /\ UNCHANGED queue
Yield    == active /\ queue' = Append(Tail(queue), Head(queue)) /\ UNCHANGED active
Return   == active /\ queue' = Tail(queue) /\ active' = (queue' # <<>>)

Next == (\E f \in Fibers : Start(f)) \/ Run \/ Yield \/ Return

Spec == Init /\ [][Next]_vars /\ WF_vars(Yield \/ Return)
=============================================================================
